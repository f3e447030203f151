-------------------------- MODULE ForumStoresProofs --------------------------
(***************************************************************************)
(* Theorems about who is who between forum and Pulse, about the events,    *)
(* the marketplace, the messages and the experience of the forum, for any  *)
(* members, texts, rules and limits, and any number of requests.           *)
(***************************************************************************)
EXTENDS Identity, Events, Marketplace, Chat, Growth, FiniteSetTheorems, WellFoundedInduction, TLAPS

-----------------------------------------------------------------------------
(* Who is who: the inductive invariant.                                    *)

BindingRow    == [row : Nat, member : Members, id : PulseIds \cup BadIds]
CallbackState == {[pc |-> "idle"]} \cup [pc : {"consume"}, flow : Nat, ticket : Tickets]
                   \cup [pc : {"redeem"}, flow : Nat, ticket : Tickets, ttl : Nat]
                   \cup [pc : {"signin"}, id : PulseIds]
Acceptance == [ticket : Tickets, flow : Nat, at : Nat]

IdentityTyped ==
  /\ bindings \subseteq BindingRow
  /\ guard \in [ToSet(Objects) -> {"absent", "good", "odd"}]
  /\ installer \in [Installers -> 0 .. Inspection + 1]
  /\ tick \in Nat
  /\ flows \in Seq(Nat)
  /\ nonces \in [Tickets -> Nat]
  /\ callback \in [Callbacks -> CallbackState]
  /\ admitted \in Seq(Acceptance)

(* An installer has left good objects behind it.                           *)
InstalledInOrder ==
  \A p \in Installers : \A j \in DOMAIN Objects : j < installer[p] => Good(Objects[j])

(* From the last scan of an installation on, and for ever once anybody has *)
(* come through it, the guard is complete and the rows are in order.       *)
InUse ==
  \/ \E p \in Installers : installer[p] >= Inspection
  \/ \E c \in Callbacks : callback[c].pc # "idle"
  \/ answered \cup sessions # {}
UsedWhenSafe == InUse => Ready /\ Safe

(* Whoever was told or signed in is bound.                                 *)
SpokenIsBound ==
  \A x \in answered \cup sessions : \E y \in bindings : x = <<y.member, y.id>>

(* What a process reckoned reaches, whenever the script runs, at least to  *)
(* where the ticket expires.  A ticket that was accepted is remembered     *)
(* until then, and a flow that was accepted is gone.                       *)
ReckonedInTime ==
  \A c \in Callbacks :
    /\ callback[c].pc \in {"consume", "redeem"} => callback[c].flow \in DOMAIN flows
    /\ callback[c].pc = "redeem" => Expiry(callback[c].ticket) <= tick + callback[c].ttl
UsedAreRemembered ==
  \A i \in DOMAIN admitted :
    /\ Expiry(admitted[i].ticket) <= nonces[admitted[i].ticket]
    /\ admitted[i].flow \in DOMAIN flows /\ flows[admitted[i].flow] = 0
UsedOnce ==
  \A i, j \in DOMAIN admitted : i < j =>
    /\ admitted[i].flow # admitted[j].flow
    /\ admitted[i].ticket = admitted[j].ticket => Expiry(admitted[j].ticket) <= admitted[j].at

(* The invariant in two parts: the rows under their guard, and the login.  *)
LoginIsSound == ReckonedInTime /\ UsedAreRemembered /\ UsedOnce

IdentityIsSound ==
  /\ IdentityTyped /\ InstalledInOrder /\ UsedWhenSafe
  /\ SpokenIsBound /\ LoginIsSound

-----------------------------------------------------------------------------
(* The rows under the guard.                                               *)

(* The objects of the guard.                                               *)
LEMMA ObjectsAre ==
  /\ Len(Objects) = 7 /\ DOMAIN Objects = 1 .. 7
  /\ {"external_index", "user_index", "insert_trigger", "update_trigger", "delete_trigger"}
       \subseteq ToSet(Objects)
  /\ ToSet(Objects) = {Objects[j] : j \in 1 .. 7}
<1>1. Len(Objects) = 7 /\ DOMAIN Objects = 1 .. 7
  BY DEF Objects
<1>2. ToSet(Objects) = {Objects[j] : j \in 1 .. 7}
  BY <1>1, Zenon DEF ToSet
<1>3. /\ Objects[3] = "external_index" /\ Objects[4] = "user_index"
      /\ Objects[5] = "insert_trigger" /\ Objects[6] = "update_trigger" /\ Objects[7] = "delete_trigger"
  BY DEF Objects
<1>4. QED
  BY <1>1, <1>2, <1>3

(* A complete guard lets through only rows that are in order.              *)
LEMMA PutUnderGuard ==
  ASSUME IdentityTyped, Ready, Safe, NEW m, NEW x, Put(m, x)
  PROVE  Safe' /\ bindings \subseteq bindings' /\ \E y \in bindings' : <<m, x>> = <<y.member, y.id>>
<1>1. Good("insert_trigger") /\ Good("external_index") /\ Good("user_index")
  BY ObjectsAre DEF Ready
<1>2. PICK r : bindings' = bindings \cup {[row |-> r, member |-> m, id |-> x]}
  BY DEF Put
<1>3. x \notin BadIds /\ Unique(bindings', "id") /\ Unique(bindings', "member")
  BY <1>1 DEF Put, Writable
<1>4. Safe'
  BY <1>2, <1>3 DEF Safe
<1>5. \E y \in bindings' : <<m, x>> = <<y.member, y.id>>
  <2>1. [row |-> r, member |-> m, id |-> x] \in bindings'
    BY <1>2
  <2>2. QED
    BY <2>1
<1>6. QED
  BY <1>2, <1>4, <1>5

(* Nor does it let anybody change a row or take it away.                   *)
LEMMA FixedUnderGuard ==
  ASSUME IdentityTyped, Ready, NEW old \in bindings
  PROVE  ~Delete(old) /\ \A m, x : Update(old, m, x) => bindings' = bindings
<1>1. Good("update_trigger") /\ Good("delete_trigger")
  BY ObjectsAre DEF Ready
<1>2. QED
  BY <1>1 DEF Delete, Update, Unchanged

(* Rows keep their type.                                                   *)
LEMMA RowsTyped ==
  ASSUME IdentityTyped, NEW m \in Members, NEW x \in PulseIds \cup BadIds
  PROVE  /\ Put(m, x) => bindings' \subseteq BindingRow
         /\ \A old \in bindings : Update(old, m, x) \/ Delete(old) => bindings' \subseteq BindingRow
<1>1. ASSUME NEW r \in 1 .. MaxRows PROVE [row |-> r, member |-> m, id |-> x] \in BindingRow
  BY IdentityAssumption DEF BindingRow
<1>2. ASSUME NEW old \in bindings PROVE [old EXCEPT !.member = m, !.id = x] \in BindingRow
  BY DEF IdentityTyped, BindingRow
<1>3. QED
  BY <1>1, <1>2 DEF Put, Update, Delete, IdentityTyped

(* When a ticket expires.                                                  *)
LEMMA TicketsExpire == \A z \in Tickets : Expiry(z) \in Nat /\ z.id \in PulseIds
BY IdentityAssumption DEF Expiry

(* A step beside the login.                                                *)
LEMMA LoginKeeps ==
  ASSUME LoginIsSound, UNCHANGED <<tick, flows, nonces, callback, admitted>>
  PROVE  LoginIsSound'
<1>1. ReckonedInTime'
  BY DEF LoginIsSound, ReckonedInTime
<1>2. UsedAreRemembered' /\ UsedOnce'
  BY DEF LoginIsSound, UsedAreRemembered, UsedOnce
<1>3. QED
  BY <1>1, <1>2 DEF LoginIsSound

(* What the invariant needs of a step that writes rows: it writes nothing  *)
(* else, and under a complete guard only adds.                             *)
LEMMA RowStep ==
  ASSUME IdentityIsSound, UNCHANGED NotTheRows, bindings' \subseteq BindingRow,
         Ready /\ Safe => Safe' /\ bindings \subseteq bindings'
  PROVE  IdentityIsSound'
<1>1. UNCHANGED <<tick, guard, installer, flows, nonces, callback, admitted, sessions, answered>>
  BY DEF NotTheRows
<1>2. IdentityTyped' /\ InstalledInOrder' /\ LoginIsSound'
  BY <1>1, LoginKeeps DEF IdentityIsSound, IdentityTyped, InstalledInOrder, Good
<1>3. InUse' = InUse /\ Ready' = Ready
  BY <1>1 DEF InUse, Ready, Good
<1>4. UsedWhenSafe' /\ SpokenIsBound'
  BY <1>1, <1>3 DEF IdentityIsSound, UsedWhenSafe, SpokenIsBound, InUse
<1>5. QED
  BY <1>2, <1>4 DEF IdentityIsSound

(* Answer writes its table.                                                *)
LEMMA RowsStep ==
  ASSUME IdentityIsSound,
         \/ \E m \in Members, x \in PulseIds \cup BadIds :
              Insert(m, x) \/ \E old \in bindings : Update(old, m, x)
         \/ \E old \in bindings : Delete(old)
  PROVE  IdentityIsSound'
<1>1. ASSUME NEW m \in Members, NEW x \in PulseIds \cup BadIds, Insert(m, x) PROVE IdentityIsSound'
  BY <1>1, RowsTyped, PutUnderGuard, RowStep DEF Insert, IdentityIsSound
<1>2. ASSUME NEW m \in Members, NEW x \in PulseIds \cup BadIds, NEW old \in bindings, Update(old, m, x)
      PROVE  IdentityIsSound'
  <2>1. UNCHANGED NotTheRows /\ bindings' \subseteq BindingRow
    BY <1>2, RowsTyped DEF Update, IdentityIsSound
  <2>2. Ready => bindings' = bindings
    BY <1>2, FixedUnderGuard DEF IdentityIsSound
  <2>3. Ready /\ Safe => Safe' /\ bindings \subseteq bindings'
    BY <2>2 DEF Safe
  <2>4. QED
    BY <2>1, <2>3, RowStep
<1>3. ASSUME NEW old \in bindings, Delete(old) PROVE IdentityIsSound'
  <2>1. UNCHANGED NotTheRows /\ bindings' \subseteq BindingRow
    BY <1>3 DEF Delete, IdentityIsSound, IdentityTyped
  <2>2. QED
    BY <1>3, <2>1, FixedUnderGuard, RowStep DEF IdentityIsSound
<1>4. QED
  BY <1>1, <1>2, <1>3

-----------------------------------------------------------------------------
(* The installation.                                                       *)

(* What a step of the installation needs: objects only become good, and    *)
(* whoever goes on to serve has a complete guard and rows in order.        *)
LEMMA InstallStep ==
  ASSUME IdentityIsSound, UNCHANGED Rows, NEW p \in Installers,
         NEW step \in 0 .. Inspection + 1, Goto(p, step),
         guard' \in [ToSet(Objects) -> {"absent", "good", "odd"}],
         \A o \in ToSet(Objects) : Good(o) => Good(o)',
         \A j \in DOMAIN Objects : j < step => Good(Objects[j])',
         step >= Inspection => Ready /\ Safe
  PROVE  IdentityIsSound'
<1>1. UNCHANGED <<tick, bindings, flows, nonces, callback, admitted, sessions, answered>>
  BY DEF Rows
<1>2. installer \in [Installers -> 0 .. Inspection + 1] /\ installer' = [installer EXCEPT ![p] = step]
  BY DEF IdentityIsSound, IdentityTyped, Goto
<1>3. IdentityTyped'
  BY <1>1, <1>2 DEF IdentityIsSound, IdentityTyped
<1>4. InstalledInOrder'
  <2>1. \A j \in DOMAIN Objects : Objects[j] \in ToSet(Objects)
    BY ObjectsAre
  <2>2. ASSUME NEW q \in Installers, NEW j \in DOMAIN Objects, j < installer'[q]
        PROVE  Good(Objects[j])'
    <3>1. CASE q = p
      BY <1>2, <2>2, <3>1
    <3>2. CASE q # p
      BY <1>2, <2>1, <2>2, <3>2 DEF IdentityIsSound, InstalledInOrder
    <3>3. QED
      BY <3>1, <3>2
  <2>3. QED
    BY <2>2 DEF InstalledInOrder
<1>5. UsedWhenSafe'
  <2>1. InUse' => InUse \/ step >= Inspection
    BY <1>1, <1>2 DEF InUse
  <2>2. Ready => Ready'
    BY DEF Ready
  <2>3. Safe => Safe'
    BY <1>1 DEF Safe
  <2>4. QED
    BY <2>1, <2>2, <2>3 DEF IdentityIsSound, UsedWhenSafe
<1>6. QED
  BY <1>1, <1>3, <1>4, <1>5, LoginKeeps DEF IdentityIsSound, SpokenIsBound

(* Every step of an installer is of this kind.                             *)
LEMMA EnsureStep ==
  ASSUME IdentityIsSound, NEW p \in Installers,
         StartEnsure(p) \/ EnsureObject(p) \/ Rescan(p) \/ Serve(p) \/ Die(p)
  PROVE  IdentityIsSound'
<1>1. /\ guard \in [ToSet(Objects) -> {"absent", "good", "odd"}]
      /\ installer \in [Installers -> 0 .. Inspection + 1] /\ Inspection = 9
      /\ \A j \in DOMAIN Objects : j < installer[p] => Good(Objects[j])
  BY ObjectsAre DEF IdentityIsSound, IdentityTyped, InstalledInOrder, Inspection
<1>2. CASE UNCHANGED guard
  <2>1. \A o \in ToSet(Objects) : Good(o) <=> Good(o)'
    BY <1>2 DEF Good
  <2>2. \A j \in DOMAIN Objects : Objects[j] \in ToSet(Objects)
    BY ObjectsAre
  <2>3. CASE StartEnsure(p)
    <3>1. Goto(p, 1) /\ UNCHANGED Rows
      BY <2>3 DEF StartEnsure
    <3>2. \A j \in DOMAIN Objects : ~(j < 1)
      BY ObjectsAre
    <3>3. QED
      BY <1>1, <1>2, <2>1, <3>1, <3>2, InstallStep
  <2>4. CASE EnsureObject(p)
    <3>1. UNCHANGED Rows /\ installer[p] \in 1 .. 7
      BY <2>4, ObjectsAre DEF EnsureObject
    <3>2. CASE Good(Objects[installer[p]]) /\ Goto(p, installer[p] + 1)
      <4>1. \A j \in DOMAIN Objects : j < installer[p] + 1 => Good(Objects[j])
        BY <1>1, <3>1, <3>2, ObjectsAre
      <4>2. QED
        BY <1>1, <1>2, <2>1, <2>2, <3>1, <3>2, <4>1, InstallStep
    <3>3. CASE Goto(p, 0)
      <4>1. \A j \in DOMAIN Objects : ~(j < 0)
        BY ObjectsAre
      <4>2. QED
        BY <1>1, <1>2, <2>1, <3>1, <3>3, <4>1, InstallStep
    <3>4. QED
      <4>1. guard[Objects[installer[p]]] = "absent" =>
              guard # [guard EXCEPT ![Objects[installer[p]]] = "good"]
        BY <1>1, <2>2, <3>1, ObjectsAre
      <4>2. QED
        BY <1>2, <2>4, <3>2, <3>3, <4>1 DEF EnsureObject
  <2>5. CASE Rescan(p)
    <3>1. UNCHANGED Rows /\ installer[p] = 8 /\ Goto(p, IF Safe THEN Inspection ELSE 0)
      BY <2>5, ObjectsAre DEF Rescan
    <3>2. Ready
      BY <1>1, <3>1, ObjectsAre DEF Ready
    <3>3. \A j \in DOMAIN Objects : Good(Objects[j])'
      BY <2>1, <2>2, <3>2 DEF Ready
    <3>4. QED
      BY <1>1, <1>2, <2>1, <3>1, <3>2, <3>3, InstallStep
  <2>6. CASE Serve(p)
    <3>1. UNCHANGED Rows /\ installer[p] = Inspection /\ Goto(p, IF Ready THEN Inspection + 1 ELSE 0)
      BY <2>6 DEF Serve
    <3>2. Ready /\ Safe
      BY <1>1, <3>1 DEF IdentityIsSound, UsedWhenSafe, InUse
    <3>3. \A j \in DOMAIN Objects : Good(Objects[j])'
      BY <2>1, <2>2, <3>2 DEF Ready
    <3>4. QED
      BY <1>1, <1>2, <2>1, <3>1, <3>2, <3>3, InstallStep
  <2>7. CASE Die(p)
    <3>1. UNCHANGED Rows /\ Goto(p, 0)
      BY <2>7 DEF Die
    <3>2. \A j \in DOMAIN Objects : ~(j < 0)
      BY ObjectsAre
    <3>3. QED
      BY <1>1, <1>2, <2>1, <3>1, <3>2, InstallStep
  <2>8. QED
    BY <2>3, <2>4, <2>5, <2>6, <2>7
<1>3. CASE ~UNCHANGED guard
  <2>1. PICK o \in ToSet(Objects) :
          /\ o = Objects[installer[p]] /\ installer[p] \in 1 .. 7 /\ UNCHANGED Rows
          /\ guard' = [guard EXCEPT ![o] = "good"] /\ Goto(p, installer[p] + 1)
    BY <1>3, ObjectsAre DEF StartEnsure, EnsureObject, Rescan, Serve, Die
  <2>2. \A x \in ToSet(Objects) : (Good(x) => Good(x)') /\ Good(o)'
    BY <1>1, <2>1 DEF Good
  <2>3. \A j \in DOMAIN Objects : j < installer[p] + 1 => Good(Objects[j])'
    <3>1. \A j \in DOMAIN Objects : Objects[j] \in ToSet(Objects)
      BY ObjectsAre
    <3>2. QED
      BY <1>1, <2>1, <2>2, <3>1, ObjectsAre
  <2>4. guard' \in [ToSet(Objects) -> {"absent", "good", "odd"}]
    BY <1>1, <2>1
  <2>5. QED
    BY <1>1, <2>1, <2>2, <2>3, <2>4, InstallStep
<1>4. QED
  BY <1>2, <1>3

-----------------------------------------------------------------------------
(* The login.                                                              *)

(* A member is told who he is in Pulse.                                    *)
LEMMA TellStep ==
  ASSUME IdentityIsSound, \E m \in Members : CommunityIdentity(m)
  PROVE  IdentityIsSound'
<1>1. UNCHANGED <<tick, bindings, guard, installer, flows, nonces, callback, admitted, sessions>>
  BY DEF CommunityIdentity
<1>2. Serving /\ \E y \in bindings : answered' = answered \cup {<<y.member, y.id>>}
  BY DEF CommunityIdentity
<1>3. Serving => InUse
  BY ObjectsAre DEF Serving, InUse, Inspection
<1>4. Ready' = Ready /\ Safe' = Safe
  BY <1>1 DEF Ready, Safe, Good
<1>5. SpokenIsBound'
  BY <1>1, <1>2 DEF IdentityIsSound, SpokenIsBound
<1>6. QED
  BY <1>1, <1>2, <1>3, <1>4, <1>5, LoginKeeps
     DEF IdentityIsSound, IdentityTyped, InstalledInOrder, Good, UsedWhenSafe

(* What a step of the login needs: it leaves the rows and the guard alone, *)
(* and only goes on where they are in order.                               *)
LEMMA LoginStep ==
  ASSUME IdentityIsSound, UNCHANGED <<bindings, guard, installer, sessions, answered>>,
         callback' = callback \/ InUse, IdentityTyped', LoginIsSound'
  PROVE  IdentityIsSound'
<1>1. Ready' = Ready /\ Safe' = Safe
  BY DEF Ready, Safe, Good
<1>2. InUse' => InUse
  BY DEF InUse
<1>3. UsedWhenSafe' /\ SpokenIsBound'
  BY <1>1, <1>2 DEF IdentityIsSound, UsedWhenSafe, SpokenIsBound
<1>4. InstalledInOrder'
  BY DEF IdentityIsSound, InstalledInOrder, Good
<1>5. QED
  BY <1>3, <1>4 DEF IdentityIsSound

(* Time passes.                                                            *)
LEMMA PassStep ==
  ASSUME IdentityIsSound, Pass
  PROVE  IdentityIsSound'
<1>1. UNCHANGED <<bindings, guard, installer, flows, nonces, callback, admitted, sessions, answered>>
  BY DEF Pass
<1>2. tick \in Nat /\ tick' = tick + 1 /\ callback \in [Callbacks -> CallbackState] /\ LoginIsSound
  BY DEF Pass, IdentityIsSound, IdentityTyped
<1>3. IdentityTyped'
  BY <1>1, <1>2 DEF IdentityIsSound, IdentityTyped
<1>4. ReckonedInTime'
  <2> SUFFICES ASSUME NEW c \in Callbacks
               PROVE  /\ callback'[c].pc \in {"consume", "redeem"} => callback'[c].flow \in DOMAIN flows'
                      /\ callback'[c].pc = "redeem" =>
                           Expiry(callback'[c].ticket) <= tick' + callback'[c].ttl
    BY DEF ReckonedInTime, Expiry
  <2>1. CASE callback[c].pc = "redeem"
    <3>1. callback[c].ttl \in Nat /\ Expiry(callback[c].ticket) \in Nat
      BY <1>2, <2>1, TicketsExpire DEF CallbackState
    <3>2. Expiry(callback[c].ticket) <= tick + callback[c].ttl /\ callback[c].flow \in DOMAIN flows
      BY <1>2, <2>1 DEF LoginIsSound, ReckonedInTime
    <3>3. QED
      BY <1>1, <1>2, <2>1, <3>1, <3>2
  <2>2. CASE callback[c].pc # "redeem"
    BY <1>1, <1>2, <2>2 DEF LoginIsSound, ReckonedInTime
  <2>3. QED
    BY <2>1, <2>2
<1>5. UsedAreRemembered' /\ UsedOnce'
  BY <1>1, <1>2 DEF LoginIsSound, UsedAreRemembered, UsedOnce
<1>6. QED
  BY <1>1, <1>3, <1>4, <1>5, LoginStep DEF LoginIsSound

(* A flow begins.                                                          *)
LEMMA BeginStep ==
  ASSUME IdentityIsSound, Begin
  PROVE  IdentityIsSound'
<1>1. UNCHANGED <<tick, bindings, guard, installer, nonces, callback, admitted, sessions, answered>>
  BY DEF Begin
<1>2. flows \in Seq(Nat) /\ tick + FlowTTL \in Nat /\ LoginIsSound
  BY IdentityAssumption DEF IdentityIsSound, IdentityTyped
<1>3. /\ flows' \in Seq(Nat)
      /\ \A f \in DOMAIN flows : f \in DOMAIN flows' /\ flows'[f] = flows[f]
  BY <1>2 DEF Begin
<1>4. IdentityTyped'
  BY <1>1, <1>3 DEF IdentityIsSound, IdentityTyped
<1>5. ReckonedInTime'
  BY <1>1, <1>2, <1>3 DEF LoginIsSound, ReckonedInTime
<1>6. UsedAreRemembered' /\ UsedOnce'
  BY <1>1, <1>2, <1>3 DEF LoginIsSound, UsedAreRemembered, UsedOnce
<1>7. QED
  BY <1>1, <1>4, <1>5, <1>6, LoginStep DEF LoginIsSound

(* What a callback needs that changes nothing else.                        *)
LEMMA CallbackStep ==
  ASSUME LoginIsSound, callback \in [Callbacks -> CallbackState], UNCHANGED <<tick, flows, nonces, admitted>>,
         NEW c \in Callbacks, NEW r, callback' = [callback EXCEPT ![c] = r],
         r.pc \in {"consume", "redeem"} => r.flow \in DOMAIN flows,
         r.pc = "redeem" => Expiry(r.ticket) <= tick + r.ttl
  PROVE  LoginIsSound'
<1>1. ReckonedInTime'
  <2> SUFFICES ASSUME NEW d \in Callbacks
               PROVE  /\ callback'[d].pc \in {"consume", "redeem"} => callback'[d].flow \in DOMAIN flows'
                      /\ callback'[d].pc = "redeem" =>
                           Expiry(callback'[d].ticket) <= tick' + callback'[d].ttl
    BY DEF ReckonedInTime, Expiry
  <2>1. CASE d = c
    BY <2>1
  <2>2. CASE d # c
    BY <2>2 DEF LoginIsSound, ReckonedInTime
  <2>3. QED
    BY <2>1, <2>2
<1>2. UsedAreRemembered' /\ UsedOnce'
  BY DEF LoginIsSound, UsedAreRemembered, UsedOnce
<1>3. QED
  BY <1>1, <1>2 DEF LoginIsSound

(* A request comes back with a ticket, only where the guard was inspected. *)
LEMMA AuthenticateStep ==
  ASSUME IdentityIsSound, NEW c \in Callbacks, NEW f \in DOMAIN flows, NEW t \in Tickets, Authenticate(c, f, t)
  PROVE  IdentityIsSound'
<1>1. UNCHANGED <<tick, bindings, guard, installer, flows, nonces, admitted, sessions, answered>> /\ Serving
  BY DEF Authenticate
<1>2. PICK r : r = [pc |-> "consume", flow |-> f, ticket |-> t]
  OBVIOUS
<1>3. /\ callback \in [Callbacks -> CallbackState] /\ callback' = [callback EXCEPT ![c] = r]
      /\ f \in Nat /\ r \in CallbackState
  BY <1>2 DEF Authenticate, At, CallbackState, IdentityIsSound, IdentityTyped
<1>4. LoginIsSound'
  BY <1>1, <1>2, <1>3, CallbackStep DEF IdentityIsSound
<1>5. IdentityTyped'
  BY <1>1, <1>3 DEF IdentityIsSound, IdentityTyped
<1>6. InUse
  BY <1>1, ObjectsAre DEF Serving, InUse, Inspection
<1>7. QED
  BY <1>1, <1>4, <1>5, <1>6, LoginStep

(* The process reckons with the time it reads.                             *)
LEMMA ConsumeStep ==
  ASSUME IdentityIsSound, NEW c \in Callbacks, Consume(c)
  PROVE  IdentityIsSound'
<1>1. UNCHANGED <<tick, bindings, guard, installer, flows, nonces, admitted, sessions, answered>>
      /\ callback[c].pc = "consume"
  BY DEF Consume
<1>2. PICK t : t = callback[c].ticket
  OBVIOUS
<1>3. PICK f : f = callback[c].flow
  OBVIOUS
<1>4. callback \in [Callbacks -> CallbackState] /\ tick \in Nat /\ LoginIsSound
  BY DEF IdentityIsSound, IdentityTyped
<1>5. t \in Tickets /\ f \in Nat /\ f \in DOMAIN flows
  BY <1>1, <1>2, <1>3, <1>4 DEF CallbackState, LoginIsSound, ReckonedInTime
<1>6. PICK e \in Nat : e = Expiry(t)
  BY <1>5, TicketsExpire
<1>7. PICK r : r = IF Alive(e) THEN [pc |-> "redeem", flow |-> f, ticket |-> t, ttl |-> e - tick]
                   ELSE [pc |-> "idle"]
  OBVIOUS
<1>8. callback' = [callback EXCEPT ![c] = r]
  BY <1>2, <1>3, <1>6, <1>7 DEF Consume, At
<1>9. /\ r \in CallbackState
      /\ r.pc \in {"consume", "redeem"} => r.flow \in DOMAIN flows
      /\ r.pc = "redeem" => Expiry(r.ticket) <= tick + r.ttl
  <2>1. CASE Alive(e)
    <3>1. e - tick \in Nat /\ tick + (e - tick) = e
      BY <1>4, <2>1 DEF Alive
    <3>2. r = [pc |-> "redeem", flow |-> f, ticket |-> t, ttl |-> e - tick]
      BY <1>7, <2>1
    <3>3. r \in CallbackState /\ r.pc = "redeem" /\ r.flow = f /\ r.ticket = t /\ r.ttl = e - tick
      BY <1>5, <3>1, <3>2 DEF CallbackState
    <3>4. QED
      BY <1>5, <1>6, <3>1, <3>3
  <2>2. CASE ~Alive(e)
    BY <1>7, <2>2 DEF CallbackState
  <2>3. QED
    BY <2>1, <2>2
<1>10. LoginIsSound'
  BY <1>1, <1>4, <1>8, <1>9, CallbackStep
<1>11. IdentityTyped'
  BY <1>1, <1>4, <1>8, <1>9 DEF IdentityIsSound, IdentityTyped
<1>12. InUse
  BY <1>1 DEF InUse
<1>13. QED
  BY <1>1, <1>10, <1>11, <1>12, LoginStep

(* Redis accepts a ticket that it does not remember: if it accepted it     *)
(* before, the ticket is over.                                             *)
LEMMA RedeemStep ==
  ASSUME IdentityIsSound, NEW c \in Callbacks, Redeem(c)
  PROVE  IdentityIsSound'
<1>1. UNCHANGED <<tick, bindings, guard, installer, sessions, answered>> /\ callback[c].pc = "redeem"
  BY DEF Redeem
<1>2. PICK t : t = callback[c].ticket
  OBVIOUS
<1>3. PICK f : f = callback[c].flow
  OBVIOUS
<1>4. PICK w : w = callback[c].ttl
  OBVIOUS
<1>5. /\ callback \in [Callbacks -> CallbackState] /\ tick \in Nat /\ flows \in Seq(Nat)
      /\ nonces \in [Tickets -> Nat] /\ admitted \in Seq(Acceptance) /\ LoginIsSound
  BY DEF IdentityIsSound, IdentityTyped
<1>6. t \in Tickets /\ f \in Nat /\ w \in Nat /\ f \in DOMAIN flows /\ Expiry(t) <= tick + w
  BY <1>1, <1>2, <1>3, <1>4, <1>5 DEF CallbackState, LoginIsSound, ReckonedInTime
<1>7. \A z \in Tickets : Expiry(z) \in Nat /\ z.id \in PulseIds
  BY TicketsExpire
<1>8. PICK r \in {[pc |-> "idle"], [pc |-> "signin", id |-> t.id]} : callback' = [callback EXCEPT ![c] = r]
  BY <1>2 DEF Redeem, At
<1>9. r \in CallbackState /\ r.pc \notin {"consume", "redeem"}
  BY <1>6, <1>7, <1>8 DEF CallbackState
<1>10. InUse
  BY <1>1 DEF InUse
<1>11. CASE UNCHANGED <<flows, nonces, admitted>>
  <2>1. LoginIsSound'
    BY <1>1, <1>5, <1>8, <1>9, <1>11, CallbackStep
  <2>2. IdentityTyped'
    BY <1>1, <1>5, <1>8, <1>9, <1>11 DEF IdentityIsSound, IdentityTyped
  <2>3. QED
    BY <1>1, <1>10, <2>1, <2>2, LoginStep
<1>12. CASE /\ Alive(flows[f]) /\ ~Alive(nonces[t])
            /\ flows' = [flows EXCEPT ![f] = 0] /\ nonces' = [nonces EXCEPT ![t] = tick + w]
            /\ admitted' = Append(admitted, [ticket |-> t, flow |-> f, at |-> tick])
  <2>1. PICK x \in Acceptance : x = [ticket |-> t, flow |-> f, at |-> tick]
    BY <1>5, <1>6 DEF Acceptance
  <2>2. x.ticket = t /\ x.flow = f /\ x.at = tick
    BY <2>1
  <2>3. /\ DOMAIN admitted = 1 .. Len(admitted) /\ Len(admitted) \in Nat
        /\ admitted' \in Seq(Acceptance) /\ DOMAIN admitted' = 1 .. Len(admitted) + 1
        /\ \A i \in DOMAIN admitted : admitted'[i] = admitted[i]
        /\ admitted'[Len(admitted) + 1] = x
    BY <1>5, <1>12, <2>1
  <2>4. /\ flows' \in Seq(Nat) /\ DOMAIN flows' = DOMAIN flows /\ flows'[f] = 0
        /\ \A g \in DOMAIN flows : g # f => flows'[g] = flows[g]
    BY <1>5, <1>6, <1>12
  <2>5. /\ nonces' \in [Tickets -> Nat] /\ nonces'[t] = tick + w
        /\ \A z \in Tickets : z # t => nonces'[z] = nonces[z]
    BY <1>5, <1>6, <1>12
  <2>6. ASSUME NEW i \in DOMAIN admitted
        PROVE  /\ admitted[i].ticket \in Tickets /\ admitted[i].flow \in DOMAIN flows
               /\ flows[admitted[i].flow] = 0 /\ admitted[i].flow # f
               /\ Expiry(admitted[i].ticket) <= nonces[admitted[i].ticket]
    <3>1. admitted[i] \in Acceptance
      BY <1>5, <2>6
    <3>2. flows[admitted[i].flow] = 0 /\ flows[f] # 0
      BY <1>5, <1>12, <2>6 DEF LoginIsSound, UsedAreRemembered, Alive
    <3>3. QED
      BY <1>5, <2>6, <3>1, <3>2 DEF LoginIsSound, UsedAreRemembered, Acceptance
  <2>7. ReckonedInTime'
    <3> SUFFICES ASSUME NEW d \in Callbacks
                 PROVE  /\ callback'[d].pc \in {"consume", "redeem"} => callback'[d].flow \in DOMAIN flows'
                        /\ callback'[d].pc = "redeem" =>
                             Expiry(callback'[d].ticket) <= tick' + callback'[d].ttl
      BY DEF ReckonedInTime, Expiry
    <3>1. CASE d = c
      BY <1>5, <1>8, <1>9, <3>1
    <3>2. CASE d # c
      BY <1>1, <1>5, <1>8, <2>4, <3>2 DEF LoginIsSound, ReckonedInTime
    <3>3. QED
      BY <3>1, <3>2
  <2>8. UsedAreRemembered'
    <3> SUFFICES ASSUME NEW i \in DOMAIN admitted'
                 PROVE  /\ Expiry(admitted'[i].ticket) <= nonces'[admitted'[i].ticket]
                        /\ admitted'[i].flow \in DOMAIN flows' /\ flows'[admitted'[i].flow] = 0
      BY DEF UsedAreRemembered, Expiry
    <3>1. CASE i = Len(admitted) + 1
      BY <1>6, <2>2, <2>3, <2>4, <2>5, <3>1
    <3>2. CASE i \in DOMAIN admitted
      <4>1. CASE admitted[i].ticket = t
        BY <1>6, <2>3, <2>4, <2>5, <2>6, <3>2, <4>1
      <4>2. CASE admitted[i].ticket # t
        BY <2>3, <2>4, <2>5, <2>6, <3>2, <4>2
      <4>3. QED
        BY <4>1, <4>2
    <3>3. QED
      BY <2>3, <3>1, <3>2
  <2>9. UsedOnce'
    <3> SUFFICES ASSUME NEW i \in DOMAIN admitted', NEW j \in DOMAIN admitted', i < j
                 PROVE  /\ admitted'[i].flow # admitted'[j].flow
                        /\ admitted'[i].ticket = admitted'[j].ticket =>
                             Expiry(admitted'[j].ticket) <= admitted'[j].at
      BY DEF UsedOnce, Expiry
    <3>1. i \in DOMAIN admitted
      BY <2>3
    <3>2. CASE j = Len(admitted) + 1
      <4>1. admitted'[j] = x /\ admitted'[i] = admitted[i] /\ admitted[i].flow # f
        BY <2>3, <2>6, <3>1, <3>2
      <4>2. admitted[i].ticket = t => Expiry(t) <= tick
        BY <1>5, <1>6, <1>7, <1>12, <2>6, <3>1 DEF Alive
      <4>3. QED
        BY <2>2, <4>1, <4>2
    <3>3. CASE j \in DOMAIN admitted
      BY <1>5, <2>3, <3>1, <3>3 DEF LoginIsSound, UsedOnce
    <3>4. QED
      BY <2>3, <3>2, <3>3
  <2>10. IdentityTyped'
    BY <1>1, <1>5, <1>8, <1>9, <2>3, <2>4, <2>5 DEF IdentityIsSound, IdentityTyped
  <2>11. QED
    BY <1>1, <1>10, <2>7, <2>8, <2>9, <2>10, LoginStep DEF LoginIsSound
<1>13. QED
  BY <1>2, <1>3, <1>4, <1>11, <1>12 DEF Redeem

(* A member is signed in as whom the account is bound to.                  *)
LEMMA SignInStep ==
  ASSUME IdentityIsSound, NEW c \in Callbacks, SignIn(c)
  PROVE  IdentityIsSound'
<1> DEFINE x == callback[c].id
<1>1. UNCHANGED <<tick, guard, installer, flows, nonces, admitted, answered>> /\ callback[c].pc = "signin"
      /\ callback' = [callback EXCEPT ![c] = [pc |-> "idle"]]
  BY DEF SignIn, At
<1>2. x \in PulseIds
  <2>1. callback[c] \in CallbackState
    BY DEF IdentityIsSound, IdentityTyped
  <2>2. QED
    BY <1>1, <2>1 DEF CallbackState
<1>3. Ready /\ Safe /\ IdentityTyped
  BY <1>1 DEF InUse, IdentityIsSound, UsedWhenSafe
<1>4. callback' \in [Callbacks -> CallbackState]
  BY DEF SignIn, At, CallbackState, IdentityIsSound, IdentityTyped
<1> DEFINE InOrder ==
      /\ Safe' /\ bindings \subseteq bindings' /\ bindings' \subseteq BindingRow
      /\ \A s \in sessions' : s \in sessions \/ \E y \in bindings' : s = <<y.member, y.id>>
<1>5. InOrder
  <2>1. CASE UNCHANGED <<bindings, sessions>>
    BY <1>3, <2>1 DEF Safe, IdentityTyped
  <2>2. ASSUME NEW y \in bindings, y.id = x, sessions' = sessions \cup {<<y.member, x>>}, UNCHANGED bindings
        PROVE  InOrder
    BY <1>3, <2>2 DEF Safe, IdentityTyped
  <2>3. ASSUME NEW m \in Members, Put(m, x), sessions' = sessions \cup {<<m, x>>}
        PROVE  InOrder
    BY <1>2, <1>3, <2>3, PutUnderGuard, RowsTyped
  <2>4. \/ UNCHANGED <<bindings, sessions>>
        \/ \E y \in bindings : y.id = x /\ sessions' = sessions \cup {<<y.member, x>>} /\ UNCHANGED bindings
        \/ \E m \in Members : Put(m, x) /\ sessions' = sessions \cup {<<m, x>>}
    BY DEF SignIn
  <2>5. QED
    <3> HIDE DEF InOrder, x
    <3>1. QED
      BY <2>1, <2>2, <2>3, <2>4
<1>6. Ready'
  BY <1>1, <1>3 DEF Ready, Good
<1>7. SpokenIsBound'
  BY <1>1, <1>5 DEF IdentityIsSound, SpokenIsBound
<1>8. LoginIsSound'
  <2>1. PICK r : r = [pc |-> "idle"]
    OBVIOUS
  <2>2. /\ LoginIsSound /\ callback \in [Callbacks -> CallbackState]
        /\ callback' = [callback EXCEPT ![c] = r] /\ r.pc = "idle"
    BY <1>1, <2>1 DEF IdentityIsSound, IdentityTyped
  <2>3. UNCHANGED <<tick, flows, nonces, admitted>>
    BY <1>1
  <2>4. QED
    BY <2>1, <2>2, <2>3, CallbackStep
<1>9. QED
  BY <1>1, <1>4, <1>5, <1>6, <1>7, <1>8
     DEF IdentityIsSound, IdentityTyped, InstalledInOrder, Good, UsedWhenSafe

-----------------------------------------------------------------------------
(* Who is who: the theorem.                                                *)

(* Nothing is in use in the beginning.                                     *)
LEMMA IdentitySoundInit == IdentityInit => IdentityIsSound
<1> SUFFICES ASSUME IdentityInit PROVE IdentityIsSound
  OBVIOUS
<1>1. guard \in [ToSet(Objects) -> {"absent", "good", "odd"}]
  BY DEF IdentityInit, Absent
<1>2. IdentityTyped
  BY <1>1, ObjectsAre DEF IdentityInit, IdentityTyped, CallbackState, Inspection
<1>3. InstalledInOrder
  BY ObjectsAre DEF IdentityInit, InstalledInOrder
<1>4. ~InUse
  BY ObjectsAre DEF IdentityInit, InUse, Inspection
<1>5. LoginIsSound
  BY DEF IdentityInit, LoginIsSound, ReckonedInTime, UsedAreRemembered, UsedOnce
<1>6. QED
  BY <1>2, <1>3, <1>4, <1>5
     DEF IdentityInit, IdentityIsSound, UsedWhenSafe, SpokenIsBound

(* Every step keeps the invariant.                                         *)
LEMMA IdentitySoundStep == IdentityIsSound /\ [IdentityNext]_identityVars => IdentityIsSound'
<1> SUFFICES ASSUME IdentityIsSound, [IdentityNext]_identityVars PROVE IdentityIsSound'
  OBVIOUS
<1>1. CASE UNCHANGED identityVars
  BY <1>1, LoginKeeps DEF identityVars, IdentityIsSound, IdentityTyped, InstalledInOrder, UsedWhenSafe, InUse,
     SpokenIsBound, Ready, Good, Safe
<1>2. CASE IdentityNext
  BY <1>2, RowsStep, EnsureStep, TellStep, PassStep, BeginStep, AuthenticateStep, ConsumeStep, RedeemStep, SignInStep DEF IdentityNext
<1>3. QED
  BY <1>1, <1>2

(* Whatever was written before and while the guard was installed, and      *)
(* however callbacks race: a member is told one account for all time, an   *)
(* account speaks for one member, a flow is accepted once, and a ticket    *)
(* once for as long as it is valid.                                        *)
THEOREM EverybodyIsHimself == IdentitySpec => []IdentityHolds
<1>1. IdentityIsSound => IdentityHolds
  <2> SUFFICES ASSUME IdentityIsSound PROVE IdentityHolds
    OBVIOUS
  <2>1. ASSUME NEW x \in answered \cup sessions, NEW y \in answered \cup sessions
        PROVE  x[1] = y[1] <=> x[2] = y[2]
    <3>1. Safe
      BY <2>1 DEF IdentityIsSound, UsedWhenSafe, InUse
    <3>2. PICK v \in bindings : x = <<v.member, v.id>>
      BY DEF IdentityIsSound, SpokenIsBound
    <3>3. PICK w \in bindings : y = <<w.member, w.id>>
      BY DEF IdentityIsSound, SpokenIsBound
    <3>4. v.member = w.member <=> v.id = w.id
      BY <3>1 DEF Safe, Unique
    <3>5. QED
      BY <3>2, <3>3, <3>4
  <2>2. QED
    BY <2>1 DEF IdentityHolds, OneToOne, IdentityIsSound, LoginIsSound, UsedOnce
<1>2. QED
  BY <1>1, IdentitySoundInit, IdentitySoundStep, PTL DEF IdentitySpec
-----------------------------------------------------------------------------
(* Numbers.                                                                *)

(* The order of the natural numbers, as a relation.                        *)
Smaller == {p \in Nat \X Nat : p[1] < p[2]}

(* A set of positions that is not empty has a last one.                    *)
LEMMA LastPosition ==
  ASSUME NEW n \in Nat, NEW S \in SUBSET (1 .. n), S # {}
  PROVE  \E m \in S : \A l \in S : l <= m
<1> DEFINE D == {n - l : l \in S}
<1>1. D \in SUBSET Nat /\ D # {}
  <2>1. \A l \in S : l \in Int /\ l <= n
    OBVIOUS
  <2>2. \A l \in S : n - l \in Nat
    BY <2>1
  <2>3. QED
    BY <2>2
<1>2. IsWellFoundedOn(Smaller, Nat)
  BY NatLessThanWellFounded DEF OpToRel, Smaller
<1>3. PICK d \in D : \A e \in D : ~(<<e, d>> \in Smaller)
  BY <1>1, <1>2, WFMin
<1>4. PICK m \in S : d = n - m
  OBVIOUS
<1>5. ASSUME NEW l \in S PROVE l <= m
  <2>1. l \in 1 .. n /\ m \in 1 .. n
    OBVIOUS
  <2>2. n - l \in Nat /\ n - m \in Nat /\ n - l \in D
    BY <1>1
  <2>3. <<n - l, n - m>> \in Nat \X Nat /\ <<n - l, n - m>>[1] = n - l /\ <<n - l, n - m>>[2] = n - m
    BY <2>2
  <2>4. ~(n - l < n - m)
    BY <1>3, <1>4, <2>2, <2>3 DEF Smaller
  <2>5. QED
    BY <2>1, <2>4
<1>6. QED
  BY <1>5

(* It is the one that Latest chooses,                                      *)
LEMMA LatestIs ==
  ASSUME NEW n \in Nat, NEW S \in SUBSET (1 .. n), S # {}
  PROVE  Latest(S) \in S /\ \A l \in S : l <= Latest(S)
  BY LastPosition DEF Latest

(* and a position behind all others is the last.                           *)
LEMMA LatestNew ==
  ASSUME NEW n \in Nat, NEW S \in SUBSET (1 .. n)
  PROVE  Latest(S \cup {n + 1}) = n + 1
<1>1. PICK T : T = S \cup {n + 1}
  OBVIOUS
<1>2. n + 1 \in Nat /\ T \in SUBSET (1 .. n + 1) /\ T # {} /\ n + 1 \in T
  BY <1>1
<1>3. Latest(T) \in T /\ \A l \in T : l <= Latest(T)
  BY <1>2, LatestIs
<1>4. Latest(T) \in 1 .. n + 1 /\ n + 1 <= Latest(T)
  BY <1>2, <1>3
<1>5. QED
  BY <1>1, <1>4

-----------------------------------------------------------------------------
(* Events: the inductive invariant.                                        *)

EventsTyped ==
  /\ \A i \in DOMAIN done : done[i].key \in DOMAIN Asks
  /\ \E n \in Nat : DOMAIN done = 1 .. n /\ Len(done) = n
  /\ done \in Seq([key : DOMAIN Asks, at : Nat])
  /\ hour \in Nat
  /\ waiting \in [Senders -> {NoAsk} \cup [key : DOMAIN Asks, now : Nat]]
  /\ meeting \in [status : {"published", "cancelled"}, seats : Int, deadline : Int, count : Int, version : Int]

(* Who waits has asked himself, and was not answered yet.                  *)
WaitingIsNew ==
  \A u \in Senders : waiting[u] # NoAsk =>
    Asks[waiting[u].key].from = u /\ ~Answered(waiting[u].key)
AnsweredOnce == \A i, j \in DOMAIN done : done[i].key = done[j].key => i = j

(* The event is as the requests so far ask for, one after another.         *)
MeetingFollows(i) ==
  /\ joined = JoinedAt(i)
  /\ meeting.seats = TermsAt(i).seats /\ meeting.deadline = TermsAt(i).deadline
  /\ meeting.status = "published" => Before(i, {"cancel"}) = {}
  /\ meeting.version = Cardinality(AdminsAt(i)) + 1

SeatsAreCounted ==
  /\ IsFiniteSet(joined) /\ meeting.count = Cardinality(joined) /\ meeting.count <= meeting.seats

(* What each request found when its turn came.                             *)
FoundFit(i) ==
  /\ Ask(i).op = "join" /\ Ask(i).from \notin JoinedAt(i) =>
       /\ done[i].at < TermsAt(i).deadline /\ Cardinality(JoinedAt(i)) < TermsAt(i).seats
       /\ Before(i, {"cancel"}) = {}
  /\ Ask(i).op \in {"edit", "cancel"} => Ask(i).version = Cardinality(AdminsAt(i)) + 1

EventsAreSound ==
  /\ EventsTyped /\ WaitingIsNew /\ AnsweredOnce
  /\ MeetingFollows(Len(done) + 1) /\ SeatsAreCounted
  /\ \A i \in 1 .. Len(done) : FoundFit(i)

-----------------------------------------------------------------------------
(* What one more request changes of the history.                           *)

(* What came before stays as it was,                                       *)
LEMMA PastIsKept ==
  ASSUME EventsTyped, NEW entry, done' = Append(done, entry), NEW i \in 1 .. Len(done) + 1
  PROVE  /\ \A j \in 1 .. i - 1 : Ask(j)' = Ask(j) /\ done'[j] = done[j]
         /\ \A ops : Before(i, ops)' = Before(i, ops)
         /\ JoinedAt(i)' = JoinedAt(i) /\ TermsAt(i)' = TermsAt(i) /\ AdminsAt(i)' = AdminsAt(i)
<1>1. done \in Seq([key : DOMAIN Asks, at : Nat]) /\ Len(done) \in Nat
  BY DEF EventsTyped
<1>2. \A j \in 1 .. i - 1 : Ask(j)' = Ask(j) /\ done'[j] = done[j]
  BY <1>1 DEF Ask
<1>3. \A ops : Before(i, ops)' = Before(i, ops)
  BY <1>2 DEF Before
<1>4. \A u : OwnBefore(i, u)' = OwnBefore(i, u) /\ OwnBefore(i, u) \in SUBSET (1 .. i - 1)
  BY <1>2, <1>3 DEF OwnBefore, Before
<1>5. i - 1 \in Nat
  BY <1>1
<1>6. JoinedAt(i)' = JoinedAt(i)
  <2>1. ASSUME NEW u, OwnBefore(i, u) # {}
        PROVE  Ask(Latest(OwnBefore(i, u)))' = Ask(Latest(OwnBefore(i, u)))
    <3>1. Latest(OwnBefore(i, u)) \in 1 .. i - 1
      BY <1>4, <1>5, <2>1, LatestIs
    <3>2. Latest(OwnBefore(i, u))' = Latest(OwnBefore(i, u))
      BY <1>4 DEF Latest
    <3>3. QED
      BY <1>2, <3>1, <3>2 DEF Ask
  <2>2. QED
    BY <1>4, <2>1 DEF JoinedAt
<1>7. TermsAt(i)' = TermsAt(i)
  <2>1. CASE Before(i, {"edit"}) = {}
    BY <1>3, <2>1 DEF TermsAt
  <2>2. CASE Before(i, {"edit"}) # {}
    <3>1. Before(i, {"edit"}) \in SUBSET (1 .. i - 1)
      BY DEF Before
    <3>2. Latest(Before(i, {"edit"})) \in 1 .. i - 1
      BY <1>5, <2>2, <3>1, LatestIs
    <3>3. Latest(Before(i, {"edit"}))' = Latest(Before(i, {"edit"}))
      BY <1>3 DEF Latest
    <3>4. QED
      BY <1>2, <1>3, <2>2, <3>2, <3>3 DEF TermsAt, Ask
  <2>3. QED
    BY <2>1, <2>2
<1>8. QED
  BY <1>2, <1>3, <1>6, <1>7 DEF AdminsAt

(* and the new request is the last.                                        *)
LEMMA PresentIsAdded ==
  ASSUME EventsTyped, NEW entry \in [key : DOMAIN Asks, at : Nat], done' = Append(done, entry),
         NEW n, n = Len(done), NEW a, a = Asks[entry.key]
  PROVE  /\ \A ops : Before(n + 2, ops)' = IF a.op \in ops THEN Before(n + 1, ops) \cup {n + 1} ELSE Before(n + 1, ops)
         /\ JoinedAt(n + 2)' = CASE a.op = "join" -> JoinedAt(n + 1) \cup {a.from}
                                 [] a.op = "leave" -> JoinedAt(n + 1) \ {a.from}
                                 [] OTHER -> JoinedAt(n + 1)
         /\ TermsAt(n + 2)' = IF a.op = "edit" THEN a ELSE TermsAt(n + 1)
<1>1. done \in Seq([key : DOMAIN Asks, at : Nat]) /\ n \in Nat
  BY DEF EventsTyped
<1>2. /\ \A j \in 1 .. n : Ask(j)' = Ask(j)
      /\ Ask(n + 1)' = a
  BY <1>1 DEF Ask
<1>3. ASSUME NEW ops
      PROVE  Before(n + 2, ops)' = IF a.op \in ops THEN Before(n + 1, ops) \cup {n + 1} ELSE Before(n + 1, ops)
  <2>1. 1 .. (n + 2) - 1 = (1 .. n) \cup {n + 1} /\ 1 .. (n + 1) - 1 = 1 .. n /\ n + 1 \notin 1 .. n
    BY <1>1
  <2>2. QED
    BY <1>2, <2>1 DEF Before
<1>4. \A ops : Before(n + 1, ops) \in SUBSET (1 .. n)
  BY <1>1 DEF Before
<1>5. JoinedAt(n + 2)' = CASE a.op = "join" -> JoinedAt(n + 1) \cup {a.from}
                           [] a.op = "leave" -> JoinedAt(n + 1) \ {a.from}
                           [] OTHER -> JoinedAt(n + 1)
  <2>1. \A u : OwnBefore(n + 1, u) \in SUBSET (1 .. n)
    BY <1>4 DEF OwnBefore
  <2>2. a.op \in {"join", "leave"} => a.from \in Guests
    BY DEF Guests
  <2>3. ASSUME NEW u, a.op \in {"join", "leave"}, a.from = u
        PROVE  OwnBefore(n + 2, u)' # {} /\ Ask(Latest(OwnBefore(n + 2, u)))' = a
    <3>1. OwnBefore(n + 2, u)' = OwnBefore(n + 1, u) \cup {n + 1}
      BY <1>2, <1>3, <1>4, <2>3 DEF OwnBefore
    <3>2. Latest(OwnBefore(n + 2, u)') = n + 1
      BY <1>1, <2>1, <3>1, LatestNew
    <3>3. Latest(OwnBefore(n + 2, u))' = n + 1
      BY <3>2 DEF Latest
    <3>4. QED
      BY <1>2, <3>1, <3>3 DEF Ask
  <2>4. ASSUME NEW u, ~(a.op \in {"join", "leave"} /\ a.from = u)
        PROVE  /\ OwnBefore(n + 2, u)' = OwnBefore(n + 1, u)
               /\ OwnBefore(n + 1, u) # {} =>
                    Ask(Latest(OwnBefore(n + 2, u)))' = Ask(Latest(OwnBefore(n + 1, u)))
    <3>1. OwnBefore(n + 2, u)' = OwnBefore(n + 1, u)
      <4>1. CASE a.op \notin {"join", "leave"}
        <5>1. Before(n + 2, {"join", "leave"})' = Before(n + 1, {"join", "leave"})
          BY <1>3, <4>1
        <5>2. QED
          BY <1>2, <1>4, <5>1 DEF OwnBefore
      <4>2. CASE a.op \in {"join", "leave"} /\ a.from # u
        <5>1. Before(n + 2, {"join", "leave"})' = Before(n + 1, {"join", "leave"}) \cup {n + 1}
          BY <1>3, <4>2
        <5>2. QED
          BY <1>2, <1>4, <4>2, <5>1 DEF OwnBefore
      <4>3. QED
        BY <2>4, <4>1, <4>2
    <3>2. OwnBefore(n + 1, u) # {} => Latest(OwnBefore(n + 1, u)) \in 1 .. n
      BY <1>1, <2>1, LatestIs
    <3>3. Latest(OwnBefore(n + 2, u))' = Latest(OwnBefore(n + 1, u))
      BY <3>1 DEF Latest
    <3>4. QED
      BY <1>2, <3>1, <3>2, <3>3 DEF Ask
  <2>5. ASSUME NEW u \in Guests
        PROVE  u \in JoinedAt(n + 2)' <=>
                 IF a.op \in {"join", "leave"} /\ a.from = u THEN a.op = "join" ELSE u \in JoinedAt(n + 1)
    BY <2>3, <2>4 DEF JoinedAt
  <2>6. JoinedAt(n + 2)' \subseteq Guests /\ JoinedAt(n + 1) \subseteq Guests
    BY DEF JoinedAt
  <2>7. QED
    BY <2>2, <2>5, <2>6
<1>6. TermsAt(n + 2)' = IF a.op = "edit" THEN a ELSE TermsAt(n + 1)
  <2>1. CASE a.op = "edit"
    <3>1. Before(n + 2, {"edit"})' = Before(n + 1, {"edit"}) \cup {n + 1}
      BY <1>3, <2>1
    <3>2. Latest(Before(n + 2, {"edit"})') = n + 1
      BY <1>1, <1>4, <3>1, LatestNew
    <3>3. QED
      BY <1>2, <2>1, <3>1, <3>2 DEF TermsAt, Latest, Ask
  <2>2. CASE a.op # "edit"
    <3>1. Before(n + 2, {"edit"})' = Before(n + 1, {"edit"})
      BY <1>3, <2>2
    <3>2. Before(n + 1, {"edit"}) # {} => Latest(Before(n + 1, {"edit"})) \in 1 .. n
      BY <1>1, <1>4, LatestIs
    <3>3. QED
      BY <1>2, <2>2, <3>1, <3>2 DEF TermsAt, Latest, Ask
  <2>3. QED
    BY <2>1, <2>2
<1>7. QED
  BY <1>3, <1>5, <1>6

-----------------------------------------------------------------------------
(* The steps of the events.                                                *)

(* A request whose turn has come finds the event as it says, and leaves it *)
(* so.                                                                     *)
LEMMA MeetingStep ==
  ASSUME EventsAreSound, NEW a \in {Asks[k] : k \in DOMAIN Asks}, NEW now \in Nat,
         Edited(a, now) \/ Registration(a, now),
         NEW n, n = Len(done), NEW entry, done' = Append(done, entry), entry.at = now,
         entry \in [key : DOMAIN Asks, at : Nat], a = Asks[entry.key]
  PROVE  /\ MeetingFollows(n + 2)' /\ SeatsAreCounted' /\ FoundFit(n + 1)'
         /\ meeting' \in [status : {"published", "cancelled"}, seats : Int, deadline : Int,
                          count : Int, version : Int]
<1>1. done \in Seq([key : DOMAIN Asks, at : Nat]) /\ n \in Nat /\ EventsTyped
  BY DEF EventsAreSound, EventsTyped
<1>2. /\ JoinedAt(n + 1)' = JoinedAt(n + 1) /\ TermsAt(n + 1)' = TermsAt(n + 1)
      /\ AdminsAt(n + 1)' = AdminsAt(n + 1) /\ \A ops : Before(n + 1, ops)' = Before(n + 1, ops)
  <2>1. n + 1 \in 1 .. Len(done) + 1
    BY <1>1
  <2>2. QED
    BY <1>1, <2>1, PastIsKept
<1>3. Ask(n + 1)' = a /\ done'[n + 1].at = now
  BY <1>1 DEF Ask
<1>4. /\ \A ops : Before(n + 2, ops)' = IF a.op \in ops THEN Before(n + 1, ops) \cup {n + 1} ELSE Before(n + 1, ops)
      /\ JoinedAt(n + 2)' = CASE a.op = "join" -> JoinedAt(n + 1) \cup {a.from}
                              [] a.op = "leave" -> JoinedAt(n + 1) \ {a.from}
                              [] OTHER -> JoinedAt(n + 1)
      /\ TermsAt(n + 2)' = IF a.op = "edit" THEN a ELSE TermsAt(n + 1)
  BY <1>1, PresentIsAdded
<1>5. /\ joined = JoinedAt(n + 1) /\ meeting.seats = TermsAt(n + 1).seats
      /\ meeting.deadline = TermsAt(n + 1).deadline
      /\ meeting.status = "published" => Before(n + 1, {"cancel"}) = {}
      /\ meeting.version = Cardinality(AdminsAt(n + 1)) + 1
  BY DEF EventsAreSound, MeetingFollows
<1>6. /\ IsFiniteSet(joined) /\ meeting.count = Cardinality(joined) /\ meeting.count <= meeting.seats
      /\ Cardinality(joined) \in Nat
  BY FS_CardinalityType DEF EventsAreSound, SeatsAreCounted
<1>7. meeting \in [status : {"published", "cancelled"}, seats : Int, deadline : Int, count : Int, version : Int]
  BY DEF EventsAreSound, EventsTyped
<1>8. /\ Cardinality(AdminsAt(n + 1)) \in Nat
      /\ a.op \in {"edit", "cancel"} => Cardinality(AdminsAt(n + 2)') = Cardinality(AdminsAt(n + 1)) + 1
      /\ a.op \notin {"edit", "cancel"} => AdminsAt(n + 2)' = AdminsAt(n + 1)
  <2>1. PICK S : S = AdminsAt(n + 1)
    OBVIOUS
  <2>2. S \subseteq 1 .. n /\ n + 1 \notin S
    BY <1>1, <2>1 DEF AdminsAt, Before
  <2>3. IsFiniteSet(1 .. n)
    BY <1>1, FS_Interval
  <2>4. IsFiniteSet(S) /\ Cardinality(S) \in Nat
    BY <2>2, <2>3, FS_Subset, FS_CardinalityType
  <2>5. Cardinality(S \cup {n + 1}) = Cardinality(S) + 1
    BY <2>2, <2>4, FS_AddElement
  <2>6. AdminsAt(n + 2)' = IF a.op \in {"edit", "cancel"} THEN S \cup {n + 1} ELSE S
    BY <1>4, <2>1 DEF AdminsAt
  <2>7. QED
    BY <2>1, <2>4, <2>5, <2>6
<1>9. CASE a.op = "cancel" /\ Edited(a, now)
  <2>1. /\ meeting' = [meeting EXCEPT !.status = "cancelled", !.version = @ + 1] /\ joined' = joined
        /\ a.version = meeting.version
    BY <1>9 DEF Edited
  <2>2. /\ meeting'.status = "cancelled" /\ meeting'.version = meeting.version + 1
        /\ meeting'.seats = meeting.seats /\ meeting'.deadline = meeting.deadline
        /\ meeting'.count = meeting.count
    BY <1>7, <2>1
  <2>3. JoinedAt(n + 2)' = joined /\ TermsAt(n + 2)' = TermsAt(n + 1)
    BY <1>4, <1>5, <1>9
  <2>4. MeetingFollows(n + 2)'
    BY <1>5, <1>8, <1>9, <2>1, <2>2, <2>3 DEF MeetingFollows
  <2>5. SeatsAreCounted'
    BY <1>6, <2>1, <2>2 DEF SeatsAreCounted
  <2>6. FoundFit(n + 1)'
    BY <1>2, <1>3, <1>5, <1>9, <2>1 DEF FoundFit
  <2>7. meeting' \in [status : {"published", "cancelled"}, seats : Int, deadline : Int,
                       count : Int, version : Int]
    <3>1. PICK v : v = meeting.version + 1
      OBVIOUS
    <3>2. v \in Int /\ meeting' = [meeting EXCEPT !.status = "cancelled", !.version = v]
      BY <1>7, <2>1, <3>1
    <3>3. QED
      BY <1>7, <3>2
  <2>8. QED
    BY <2>4, <2>5, <2>6, <2>7
<1>10. CASE a.op = "edit" /\ Edited(a, now)
  <2>1. /\ meeting' = [meeting EXCEPT !.seats = a.seats, !.deadline = a.deadline, !.version = @ + 1]
        /\ joined' = joined /\ a.version = meeting.version /\ a.seats >= meeting.count
        /\ meeting.status = "published"
    BY <1>10 DEF Edited, ValidEdit
  <2>2. /\ meeting'.status = meeting.status /\ meeting'.version = meeting.version + 1
        /\ meeting'.seats = a.seats /\ meeting'.deadline = a.deadline
        /\ meeting'.count = meeting.count
    BY <1>7, <2>1
  <2>3. JoinedAt(n + 2)' = joined /\ TermsAt(n + 2)' = a /\ Before(n + 2, {"cancel"})' = Before(n + 1, {"cancel"})
    BY <1>4, <1>5, <1>10
  <2>4. MeetingFollows(n + 2)'
    BY <1>5, <1>8, <1>10, <2>1, <2>2, <2>3 DEF MeetingFollows
  <2>5. a.seats \in Int /\ a.deadline \in Int
    BY <1>10, EventsAssumption
  <2>6. SeatsAreCounted'
    BY <1>6, <2>1, <2>2, <2>5 DEF SeatsAreCounted
  <2>7. FoundFit(n + 1)'
    BY <1>2, <1>3, <1>5, <1>10, <2>1 DEF FoundFit
  <2>8. meeting' \in [status : {"published", "cancelled"}, seats : Int, deadline : Int,
                       count : Int, version : Int]
    <3>1. PICK v : v = meeting.version + 1
      OBVIOUS
    <3>2. v \in Int
          /\ meeting' = [meeting EXCEPT !.seats = a.seats, !.deadline = a.deadline, !.version = v]
      BY <1>7, <2>1, <3>1
    <3>3. QED
      BY <1>7, <2>5, <3>2
  <2>9. QED
    BY <2>4, <2>6, <2>7, <2>8
<1>11. CASE a.op = "join" /\ a.from \notin joined /\ Registration(a, now)
  <2>1. /\ joined' = joined \cup {a.from} /\ meeting' = [meeting EXCEPT !.count = @ + 1]
        /\ meeting.status = "published" /\ now < meeting.deadline /\ meeting.count < meeting.seats
    BY <1>11 DEF Registration, Open
  <2>2. /\ meeting'.status = meeting.status /\ meeting'.version = meeting.version
        /\ meeting'.seats = meeting.seats /\ meeting'.deadline = meeting.deadline
        /\ meeting'.count = meeting.count + 1
    BY <1>7, <2>1
  <2>3. /\ JoinedAt(n + 2)' = joined' /\ TermsAt(n + 2)' = TermsAt(n + 1)
        /\ Before(n + 2, {"cancel"})' = Before(n + 1, {"cancel"})
    BY <1>4, <1>5, <1>11, <2>1
  <2>4. MeetingFollows(n + 2)'
    BY <1>5, <1>8, <1>11, <2>1, <2>2, <2>3 DEF MeetingFollows
  <2>5. IsFiniteSet(joined') /\ Cardinality(joined') = Cardinality(joined) + 1
    BY <1>6, <1>11, <2>1, FS_AddElement
  <2>6. SeatsAreCounted'
    BY <1>6, <1>7, <2>1, <2>2, <2>5 DEF SeatsAreCounted
  <2>7. FoundFit(n + 1)'
    BY <1>2, <1>3, <1>5, <1>6, <1>11, <2>1 DEF FoundFit
  <2>8. QED
    BY <1>7, <2>1, <2>4, <2>6, <2>7
<1>12. CASE a.op = "leave" /\ a.from \in joined /\ Registration(a, now)
  <2>1. joined' = joined \ {a.from} /\ meeting' = [meeting EXCEPT !.count = @ - 1]
    BY <1>12 DEF Registration
  <2>2. /\ meeting'.status = meeting.status /\ meeting'.version = meeting.version
        /\ meeting'.seats = meeting.seats /\ meeting'.deadline = meeting.deadline
        /\ meeting'.count = meeting.count - 1
    BY <1>7, <2>1
  <2>3. /\ JoinedAt(n + 2)' = joined' /\ TermsAt(n + 2)' = TermsAt(n + 1)
        /\ Before(n + 2, {"cancel"})' = Before(n + 1, {"cancel"})
    BY <1>4, <1>5, <1>12, <2>1
  <2>4. MeetingFollows(n + 2)'
    BY <1>5, <1>8, <1>12, <2>1, <2>2, <2>3 DEF MeetingFollows
  <2>5. IsFiniteSet(joined') /\ Cardinality(joined') = Cardinality(joined) - 1
    BY <1>6, <1>12, <2>1, FS_RemoveElement
  <2>6. SeatsAreCounted'
    BY <1>6, <1>7, <2>1, <2>2, <2>5 DEF SeatsAreCounted
  <2>7. FoundFit(n + 1)'
    BY <1>2, <1>3, <1>12 DEF FoundFit
  <2>8. QED
    BY <1>7, <2>1, <2>4, <2>6, <2>7
<1>13. CASE a.op \in {"join", "leave"} /\ (a.op = "join") = (a.from \in joined) /\ UNCHANGED <<joined, meeting>>
  <2>1. /\ JoinedAt(n + 2)' = joined' /\ TermsAt(n + 2)' = TermsAt(n + 1)
        /\ Before(n + 2, {"cancel"})' = Before(n + 1, {"cancel"})
    <3>1. CASE a.op = "join"
      <4>1. a.from \in joined /\ JoinedAt(n + 2)' = JoinedAt(n + 1) \cup {a.from}
        BY <1>4, <1>13, <3>1
      <4>2. JoinedAt(n + 2)' = joined
        BY <1>5, <4>1
      <4>3. QED
        BY <1>4, <1>13, <3>1, <4>2
    <3>2. CASE a.op = "leave"
      BY <1>4, <1>5, <1>13, <3>2
    <3>3. QED
      BY <1>13, <3>1, <3>2
  <2>2. MeetingFollows(n + 2)'
    BY <1>5, <1>8, <1>13, <2>1 DEF MeetingFollows
  <2>3. SeatsAreCounted'
    BY <1>6, <1>13 DEF SeatsAreCounted
  <2>4. FoundFit(n + 1)'
    BY <1>2, <1>3, <1>5, <1>13 DEF FoundFit
  <2>5. QED
    BY <1>7, <1>13, <2>2, <2>3, <2>4
<1>14. QED
  BY <1>9, <1>10, <1>11, <1>12, <1>13 DEF Edited, Registration

(* A request is carried out.                                               *)
LEMMA CommitStep ==
  ASSUME EventsAreSound, NEW u \in Senders, Commit(u)
  PROVE  EventsAreSound'
<1> DEFINE k == waiting[u].key
           now == waiting[u].now
<1>1. done \in Seq([key : DOMAIN Asks, at : Nat]) /\ EventsTyped
  BY DEF EventsAreSound, EventsTyped
<1>2. PICK n : n = Len(done)
  OBVIOUS
<1>3. k \in DOMAIN Asks /\ now \in Nat /\ waiting[u] # NoAsk
  BY <1>1 DEF EventsTyped, Commit
<1>4. PICK entry : entry = [key |-> k, at |-> now]
  OBVIOUS
<1>5. entry \in [key : DOMAIN Asks, at : Nat] /\ done' = Append(done, entry) /\ hour' = hour
  BY <1>3, <1>4 DEF Commit
<1>6. /\ n \in Nat /\ Len(done') = n + 1 /\ done' \in Seq([key : DOMAIN Asks, at : Nat])
      /\ DOMAIN done = 1 .. n /\ DOMAIN done' = 1 .. n + 1
      /\ \A i \in 1 .. n : done'[i] = done[i]
      /\ done'[n + 1] = entry
  BY <1>1, <1>2, <1>5
<1>7. /\ MeetingFollows(n + 2)' /\ SeatsAreCounted' /\ FoundFit(n + 1)'
      /\ meeting' \in [status : {"published", "cancelled"}, seats : Int, deadline : Int,
                       count : Int, version : Int]
  <2>1. Edited(Asks[k], now) \/ Registration(Asks[k], now)
    BY DEF Commit
  <2>2. PICK a : a = Asks[k]
    OBVIOUS
  <2>3. a \in {Asks[j] : j \in DOMAIN Asks} /\ a = Asks[entry.key] /\ entry.at = now
    BY <1>3, <1>4, <2>2
  <2>4. Edited(a, now) \/ Registration(a, now)
    BY <2>1, <2>2
  <2>5. QED
    BY <1>2, <1>3, <1>5, <2>3, <2>4, MeetingStep
<1>8. \A i \in 1 .. n : FoundFit(i)'
  <2> SUFFICES ASSUME NEW i \in 1 .. n PROVE FoundFit(i)'
    OBVIOUS
  <2>1. i \in 1 .. Len(done) + 1 /\ i \in 1 .. Len(done) /\ i + 1 \in 1 .. Len(done) + 1 /\ i \in 1 .. (i + 1) - 1
    BY <1>2, <1>6
  <2>2. /\ JoinedAt(i)' = JoinedAt(i) /\ TermsAt(i)' = TermsAt(i) /\ AdminsAt(i)' = AdminsAt(i)
        /\ \A ops : Before(i, ops)' = Before(i, ops)
    BY <1>1, <1>5, <2>1, PastIsKept
  <2>3. Ask(i)' = Ask(i) /\ done'[i] = done[i]
    BY <1>6 DEF Ask
  <2>4. FoundFit(i)
    BY <2>1 DEF EventsAreSound
  <2>5. QED
    BY <2>2, <2>3, <2>4 DEF FoundFit
<1>9. waiting' = [waiting EXCEPT ![u] = NoAsk]
  BY DEF Commit
<1>10. Asks[k].from = u /\ ~Answered(k)
  BY <1>3 DEF EventsAreSound, WaitingIsNew
<1>11. AnsweredOnce'
  <2>1. \A i \in 1 .. n : done[i].key # k
    BY <1>6, <1>10 DEF Answered
  <2>2. QED
    BY <1>4, <1>6, <2>1 DEF EventsAreSound, AnsweredOnce
<1>12. WaitingIsNew'
  <2> SUFFICES ASSUME NEW v \in Senders, waiting'[v] # NoAsk
               PROVE  Asks[waiting'[v].key].from = v
                      /\ ~\E i \in DOMAIN done' : done'[i].key = waiting'[v].key
    BY DEF WaitingIsNew, Answered
  <2>1. v # u /\ waiting'[v] = waiting[v]
    BY <1>1, <1>9 DEF EventsTyped
  <2>2. Asks[waiting[v].key].from = v /\ ~Answered(waiting[v].key)
    BY <2>1 DEF EventsAreSound, WaitingIsNew
  <2>3. waiting[v].key # k
    BY <1>10, <2>1, <2>2
  <2>4. ~\E i \in DOMAIN done' : done'[i].key = waiting'[v].key
    BY <1>4, <1>6, <2>1, <2>2, <2>3 DEF Answered
  <2>5. QED
    BY <2>1, <2>2, <2>4
<1>13. EventsTyped'
  BY <1>1, <1>5, <1>6, <1>7, <1>9 DEF EventsTyped
<1>14. MeetingFollows(Len(done) + 1)'
  <2>1. Len(done') + 1 = n + 2
    BY <1>6
  <2>2. QED
    BY <1>7, <2>1 DEF MeetingFollows
<1>15. \A i \in 1 .. Len(done') : FoundFit(i)'
  BY <1>6, <1>7, <1>8
<1>16. QED
  BY <1>7, <1>11, <1>12, <1>13, <1>14, <1>15 DEF EventsAreSound

(* Nothing else changes the event or its history.                          *)
LEMMA AskingStep ==
  ASSUME EventsAreSound,
         (\E k \in DOMAIN Asks : Enter(k)) \/ (\E u \in Senders : GiveUp(u)) \/ PassHour \/ UNCHANGED eventVars
  PROVE  EventsAreSound'
<1>1. UNCHANGED <<meeting, joined, done>>
  BY DEF Enter, GiveUp, PassHour, eventVars
<1>2. \A i : /\ Ask(i)' = Ask(i) /\ JoinedAt(i)' = JoinedAt(i) /\ TermsAt(i)' = TermsAt(i)
             /\ AdminsAt(i)' = AdminsAt(i) /\ \A ops : Before(i, ops)' = Before(i, ops)
  BY <1>1 DEF Ask, JoinedAt, TermsAt, AdminsAt, Before, OwnBefore, Latest
<1>3. MeetingFollows(Len(done) + 1)' /\ SeatsAreCounted'
  BY <1>1, <1>2 DEF EventsAreSound, MeetingFollows, SeatsAreCounted
<1>4. \A i \in 1 .. Len(done') : FoundFit(i)'
  BY <1>1, <1>2 DEF EventsAreSound, FoundFit
<1>5. AnsweredOnce'
  BY <1>1 DEF EventsAreSound, AnsweredOnce
<1>6. \A k : Answered(k)' = Answered(k)
  BY <1>1 DEF Answered
<1>7. EventsTyped /\ WaitingIsNew
  BY DEF EventsAreSound
<1>8. EventsTyped' /\ WaitingIsNew'
  <2>1. CASE UNCHANGED waiting /\ hour' \in {hour, hour + 1}
    BY <1>1, <1>6, <1>7, <2>1 DEF EventsTyped, WaitingIsNew
  <2>2. ASSUME NEW u \in Senders, GiveUp(u) PROVE EventsTyped' /\ WaitingIsNew'
    BY <1>1, <1>6, <1>7, <2>2 DEF GiveUp, EventsTyped, WaitingIsNew
  <2>3. ASSUME NEW k \in DOMAIN Asks, Enter(k) PROVE EventsTyped' /\ WaitingIsNew'
    <3>1. [key |-> k, now |-> hour] \in [key : DOMAIN Asks, now : Nat] /\ Asks[k].from \in Senders
      BY <1>7 DEF EventsTyped, Senders
    <3>2. waiting' = [waiting EXCEPT ![Asks[k].from] = [key |-> k, now |-> hour]] /\ hour' = hour
      BY <2>3 DEF Enter
    <3>3. EventsTyped'
      BY <1>1, <1>7, <3>1, <3>2 DEF EventsTyped
    <3>4. ~Answered(k)
      BY <2>3 DEF Enter
    <3>5. WaitingIsNew'
      BY <1>6, <1>7, <3>1, <3>2, <3>4 DEF EventsTyped, WaitingIsNew
    <3>6. QED
      BY <3>3, <3>5
  <2>4. QED
    BY <2>1, <2>2, <2>3 DEF PassHour, eventVars
<1>9. QED
  BY <1>3, <1>4, <1>5, <1>8 DEF EventsAreSound

(* The event as it was created.                                            *)
LEMMA EventsSoundInit == EventsInit => EventsAreSound
<1> SUFFICES ASSUME EventsInit PROVE EventsAreSound
  OBVIOUS
<1>1. EventsTyped
  BY EventsAssumption DEF EventsInit, EventsTyped
<1>2. Len(done) = 0 /\ DOMAIN done = {} /\ joined = {}
  BY DEF EventsInit
<1>3. \A ops : Before(1, ops) = {}
  BY DEF Before
<1>4. JoinedAt(1) = {} /\ TermsAt(1) = Opening /\ AdminsAt(1) = {}
  BY <1>3 DEF JoinedAt, OwnBefore, TermsAt, AdminsAt
<1>5. Cardinality({}) = 0 /\ IsFiniteSet({})
  BY FS_EmptySet
<1>6. MeetingFollows(Len(done) + 1)
  <2>1. Cardinality(AdminsAt(1)) = 0
    BY <1>4, <1>5, Zenon
  <2>2. MeetingFollows(1)
    BY <1>2, <1>3, <1>4, <2>1 DEF EventsInit, MeetingFollows
  <2>3. QED
    BY <1>2, <2>2
<1>7. SeatsAreCounted
  BY <1>5, EventsAssumption DEF EventsInit, SeatsAreCounted
<1>8. QED
  BY <1>1, <1>2, <1>6, <1>7 DEF EventsAreSound, EventsInit, WaitingIsNew, AnsweredOnce

(* Requests that come twice, wait for each other and read an old clock are *)
(* carried out once, within seats, deadline and terms, and are counted.    *)
THEOREM RegistrationsAreKept == EventsSpec => []RegistrationsAreSound
<1>1. EventsAreSound => RegistrationsAreSound
  <2> SUFFICES ASSUME EventsAreSound PROVE RegistrationsAreSound
    OBVIOUS
  <2>1. done \in Seq([key : DOMAIN Asks, at : Nat])
    BY DEF EventsAreSound, EventsTyped
  <2>2. DOMAIN done = 1 .. Len(done)
    BY <2>1
  <2>3. ASSUME NEW i \in DOMAIN done
        PROVE  /\ Ask(i).op = "join" /\ Ask(i).from \notin JoinedAt(i) =>
                    /\ done[i].at < TermsAt(i).deadline /\ Cardinality(JoinedAt(i)) < TermsAt(i).seats
                    /\ Before(i, {"cancel"}) = {}
               /\ i \in AdminsAt(Len(done) + 1) => Ask(i).version = Cardinality(AdminsAt(i)) + 1
    BY <2>2 DEF EventsAreSound, FoundFit, AdminsAt, Before
  <2>4. QED
    BY <2>3 DEF EventsAreSound, RegistrationsAreSound, MeetingFollows, SeatsAreCounted, AnsweredOnce
<1>2. EventsAreSound /\ [EventsNext]_eventVars => EventsAreSound'
  BY CommitStep, AskingStep DEF EventsNext
<1>3. QED
  BY <1>1, <1>2, EventsSoundInit, PTL DEF EventsSpec
-----------------------------------------------------------------------------
(* The marketplace: the inductive invariant.                               *)

MarketStatuses == {"none", "draft", "pending_review", "published", "changes_requested", "archived"}
MarketItems ==
  [status : MarketStatuses, entry : Entries \cup {NoEntry}, live : Entries \cup {NoEntry},
   embed : BOOLEAN, version : Nat]
MarketCommands == AuthorCommands \cup ReviewCommands
TrailEntry == [key : Nat, command : MarketCommands, seen : Nat, after : MarketItems]

MarketTyped == item \in MarketItems /\ trail \in Seq(TrailEntry)

(* Every command was given for the version before it, and left the next.   *)
TrailIsChain ==
  /\ \A i \in 1 .. Len(trail) : trail[i].seen = i - 1 /\ trail[i].after.version = i
  /\ item.version = Len(trail)
  /\ IF trail = <<>> THEN item = NoItem ELSE item = trail[Len(trail)].after

(* What is public was approved by command i, its embedding decided by g.   *)
ApprovedBy(i, g) ==
  /\ Seen(i).entry = item.live /\ Seen(i).status = "pending_review" /\ item.live.complete
  /\ \A j \in Doing({"archive"}) : j < i
  /\ item.embed => /\ item.live.embed /\ item.live.demo /\ trail[g].command.embed
                   /\ item.live = (IF g = i THEN Seen(g).entry ELSE Seen(g).live)

PublicIsTraced ==
  /\ item.live # NoEntry =>
       /\ Doing({"publish"}) # {}
       /\ ApprovedBy(Newest(Doing({"publish"})), Newest(Doing({"publish", "availability"})))
  /\ item.live = NoEntry => ~item.embed

MarketIsSound == MarketTyped /\ TrailIsChain /\ PublicIsTraced

(* The fields of an item.                                                  *)
LEMMA ItemIs ==
  ASSUME NEW T, NEW E, NEW B, NEW x \in [status : T, entry : E, live : E, embed : B, version : Nat]
  PROVE  x.status \in T /\ x.entry \in E /\ x.live \in E /\ x.embed \in B /\ x.version \in Nat
  OBVIOUS

(* Fields of commands.                                                     *)
LEMMA CommandFields ==
  ASSUME NEW B, NEW E,
         NEW c \in ([op : {"save_draft", "submit"}, entry : E] \cup [op : {"archive"}])
                     \cup ([op : {"publish", "availability"}, embed : B] \cup [op : {"changes", "archive"}])
  PROVE  /\ c.op \in {"save_draft", "submit"} => c.entry \in E
         /\ c.op \in {"publish", "availability"} => c.embed \in B
  OBVIOUS

(* Whatever the command is.                                                *)
Does(c) == Save(c) \/ Archive(c) \/ Publish(c) \/ RequestChanges(c) \/ Availability(c)

(* What a command does to the item, by what it was.                        *)
LEMMA CommandEffect ==
  ASSUME MarketTyped, NEW c \in MarketCommands, Does(c)
  PROVE  /\ item' \in MarketItems /\ item'.version = item.version + 1
         /\ \/ /\ c.op \notin {"publish", "availability", "archive"}
               /\ item'.live = item.live /\ item'.embed = item.embed
            \/ c.op = "archive" /\ item'.live = NoEntry /\ item'.embed = FALSE
            \/ /\ c.op = "publish" /\ item.status = "pending_review"
               /\ item'.live = item.entry /\ item.entry.complete
               /\ item'.embed = c.embed /\ (c.embed => item.entry.embed /\ item.entry.demo)
            \/ /\ c.op = "availability" /\ item.live # NoEntry /\ item'.live = item.live
               /\ item'.embed = c.embed /\ (c.embed => item.live.embed /\ item.live.demo)
<1> DEFINE E == Entries \cup {NoEntry}
<1>1. PICK B : B = BOOLEAN
  OBVIOUS
<1>2. item \in [status : MarketStatuses, entry : E, live : E, embed : B, version : Nat]
      /\ MarketItems = [status : MarketStatuses, entry : E, live : E, embed : B, version : Nat]
  BY <1>1, Zenon DEF MarketTyped, MarketItems
<1>3. /\ c.op \in {"save_draft", "submit"} => c.entry \in Entries
      /\ c.op \in {"publish", "availability"} => c.embed \in B
  BY <1>1, CommandFields, Zenon DEF MarketCommands, AuthorCommands, ReviewCommands
<1>4. PICK v : v = item.version + 1
  OBVIOUS
<1>5. item.version \in Nat /\ v \in Nat /\ NoEntry \in E /\ FALSE \in B
      /\ item.entry \in E /\ item.live \in E /\ item.embed \in B /\ item.status \in MarketStatuses
  <2>1. item.version \in Nat /\ item.entry \in E /\ item.live \in E /\ item.embed \in B
        /\ item.status \in MarketStatuses
    <3> HIDE DEF E
    <3>1. QED
      BY <1>2
  <2>2. FALSE \in B
    BY <1>1, Zenon
  <2>3. NoEntry \in E
    OBVIOUS
  <2>4. item.version + 1 \in Nat
    BY <2>1
  <2>5. QED
    BY <1>4, <2>1, <2>2, <2>3, <2>4, Zenon
<1> HIDE DEF E
<1> DEFINE Items == [status : MarketStatuses, entry : E, live : E, embed : B, version : Nat]
<1>13. item \in Items /\ MarketItems = Items
  BY <1>2
<1>6. CASE Save(c)
  <2>1. /\ c.op \in {"save_draft", "submit"} /\ c.entry \in E
        /\ item' = [item EXCEPT !.status = IF c.op = "submit" THEN "pending_review" ELSE "draft",
                                !.entry = c.entry, !.version = @ + 1]
    BY <1>3, <1>6 DEF Save, E
  <2>2. PICK s \in MarketStatuses : s = IF c.op = "submit" THEN "pending_review" ELSE "draft"
    BY DEF MarketStatuses
  <2>3. item' = [item EXCEPT !.status = s, !.entry = c.entry, !.version = v]
    BY <1>2, <1>4, <2>1, <2>2
  <2>4. item' \in MarketItems /\ item'.live = item.live /\ item'.embed = item.embed /\ item'.version = v
    <3>1. item' \in Items
      BY <1>5, <1>13, <2>1, <2>3, Zenon
    <3>2. item'.live = item.live /\ item'.embed = item.embed /\ item'.version = v
      BY <1>13, <2>1, <2>3
    <3>3. QED
      BY <1>13, <3>1, <3>2, Zenon
  <2>5. c.op \notin {"publish", "availability", "archive"}
    BY <2>1
  <2>6. QED
    BY <1>4, <2>4, <2>5, Zenon
<1>7. CASE Archive(c)
  <2>1. c.op = "archive" /\ "archived" \in MarketStatuses
        /\ item' = [item EXCEPT !.status = "archived", !.live = NoEntry, !.embed = FALSE, !.version = @ + 1]
    BY <1>7 DEF Archive, MarketStatuses
  <2>2. PICK b \in B : b = FALSE
    BY <1>5
  <2>3. item' = [item EXCEPT !.status = "archived", !.live = NoEntry, !.embed = b, !.version = v]
    BY <1>2, <1>4, <2>1, <2>2
  <2>4. item' \in MarketItems /\ item'.live = NoEntry /\ item'.embed = b /\ item'.version = v
    <3>1. item' \in Items
      BY <1>5, <1>13, <2>1, <2>3, Zenon
    <3>2. item'.live = NoEntry /\ item'.embed = b /\ item'.version = v
      BY <1>13, <2>1, <2>3
    <3>3. QED
      BY <1>13, <3>1, <3>2, Zenon
  <2>5. QED
    BY <1>4, <2>1, <2>2, <2>4, Zenon
<1>8. CASE Publish(c)
  <2>1. /\ c.op = "publish" /\ item.status = "pending_review" /\ item.entry.complete
        /\ (c.embed => item.entry.embed /\ item.entry.demo) /\ c.embed \in B
        /\ item' = [item EXCEPT !.status = "published", !.live = item.entry, !.embed = c.embed, !.version = @ + 1]
    BY <1>3, <1>8 DEF Publish, Complete, MayEmbed
  <2>2. "published" \in MarketStatuses
    BY DEF MarketStatuses
  <2>3. item' = [item EXCEPT !.status = "published", !.live = item.entry, !.embed = c.embed, !.version = v]
    BY <1>2, <1>4, <2>1
  <2>4. item' \in MarketItems /\ item'.live = item.entry /\ item'.embed = c.embed /\ item'.version = v
    <3>1. item' \in Items
      BY <1>5, <1>13, <2>1, <2>2, <2>3, Zenon
    <3>2. item'.live = item.entry /\ item'.embed = c.embed /\ item'.version = v
      BY <1>13, <2>1, <2>2, <2>3
    <3>3. QED
      BY <1>13, <3>1, <3>2, Zenon
  <2>5. QED
    BY <1>4, <2>1, <2>4, Zenon
<1>9. CASE RequestChanges(c)
  <2>1. c.op = "changes" /\ item' = [item EXCEPT !.status = "changes_requested", !.version = @ + 1]
    BY <1>9 DEF RequestChanges
  <2>2. "changes_requested" \in MarketStatuses /\ c.op \notin {"publish", "availability", "archive"}
    BY <2>1 DEF MarketStatuses
  <2>3. item' = [item EXCEPT !.status = "changes_requested", !.version = v]
    BY <1>2, <1>4, <2>1
  <2>4. item' \in MarketItems /\ item'.live = item.live /\ item'.embed = item.embed /\ item'.version = v
    <3>1. item' \in Items
      BY <1>5, <1>13, <2>2, <2>3, Zenon
    <3>2. item'.live = item.live /\ item'.embed = item.embed /\ item'.version = v
      BY <1>13, <2>2, <2>3
    <3>3. QED
      BY <1>13, <3>1, <3>2, Zenon
  <2>5. QED
    BY <1>4, <2>2, <2>4, Zenon
<1>10. CASE Availability(c)
  <2>1. /\ c.op = "availability" /\ item.live # NoEntry /\ c.embed \in B
        /\ (c.embed => item.live.embed /\ item.live.demo)
        /\ item' = [item EXCEPT !.embed = c.embed, !.version = @ + 1]
    BY <1>3, <1>10 DEF Availability, MayEmbed
  <2>2. item' = [item EXCEPT !.embed = c.embed, !.version = v]
    BY <1>2, <1>4, <2>1
  <2>3. item' \in MarketItems /\ item'.live = item.live /\ item'.embed = c.embed /\ item'.version = v
    <3>1. item' \in Items
      BY <1>5, <1>13, <2>1, <2>2, Zenon
    <3>2. item'.live = item.live /\ item'.embed = c.embed /\ item'.version = v
      BY <1>13, <2>1, <2>2
    <3>3. QED
      BY <1>13, <3>1, <3>2, Zenon
  <2>4. QED
    BY <1>4, <2>1, <2>3, Zenon
<1>11. QED
  BY <1>6, <1>7, <1>8, <1>9, <1>10 DEF Does

-----------------------------------------------------------------------------
(* What one more command changes of the trail.                             *)

(* Newest is the last position, too.                                       *)
LEMMA NewestIs ==
  /\ \A S : Newest(S) = Latest(S)
  BY DEF Newest, Latest

(* In a chain, what somebody had before him is what the command before     *)
(* his left.                                                               *)
LEMMA SeenInChain ==
  ASSUME NEW t, NEW n \in Nat, NEW i \in 1 .. n, NEW none,
         \A j \in 1 .. n : t[j].seen = j - 1 /\ t[j].after.version = j
  PROVE  (IF {j \in 1 .. i - 1 : t[j].after.version = t[i].seen} = {} THEN none
          ELSE t[CHOOSE j \in {j \in 1 .. i - 1 : t[j].after.version = t[i].seen} : TRUE].after)
         = IF i = 1 THEN none ELSE t[i - 1].after
<1> DEFINE V == {j \in 1 .. i - 1 : t[j].after.version = t[i].seen}
<1>1. V = IF i = 1 THEN {} ELSE {i - 1}
  OBVIOUS
<1> HIDE DEF V
<1>2. CASE i = 1
  <2>1. (IF V = {} THEN none ELSE t[CHOOSE j \in V : TRUE].after) = none
    BY <1>1, <1>2
  <2>2. QED
    BY <1>2, <2>1 DEF V
<1>3. CASE i # 1
  <2>1. V # {} /\ (CHOOSE j \in V : TRUE) = i - 1
    BY <1>1, <1>3
  <2>2. (IF V = {} THEN none ELSE t[CHOOSE j \in V : TRUE].after) = t[i - 1].after
    BY <2>1
  <2>3. QED
    BY <1>3, <2>2 DEF V
<1>4. QED
  BY <1>2, <1>3

(* What each command had before it stays as it was; the new command had    *)
(* the item before it.                                                     *)
LEMMA TrailGrows ==
  ASSUME MarketTyped, TrailIsChain, NEW entry \in TrailEntry, trail' = Append(trail, entry),
         NEW n, n = Len(trail), entry.seen = item.version, entry.after = item',
         item'.version = item.version + 1
  PROVE  /\ n \in Nat /\ Len(trail') = n + 1 /\ trail'[n + 1] = entry /\ TrailIsChain'
         /\ \A i \in 1 .. n : trail'[i] = trail[i] /\ Seen(i)' = Seen(i)
         /\ Seen(n + 1)' = item
         /\ \A ops : /\ Doing(ops) \in SUBSET (1 .. n)
                     /\ entry.command.op \in ops => Doing(ops)' = Doing(ops) \cup {n + 1}
                     /\ entry.command.op \notin ops => Doing(ops)' = Doing(ops)
<1>1. /\ trail \in Seq(TrailEntry) /\ n \in Nat /\ Len(trail') = n + 1 /\ trail'[n + 1] = entry
      /\ \A i \in 1 .. n : trail'[i] = trail[i]
      /\ DOMAIN trail = 1 .. n /\ DOMAIN trail' = 1 .. n + 1
  BY DEF MarketTyped
<1>2. \A i \in 1 .. n : trail[i].seen = i - 1 /\ trail[i].after.version = i
  BY DEF TrailIsChain
<1>3. item.version = n /\ item = IF n = 0 THEN NoItem ELSE trail[n].after
  BY <1>1 DEF TrailIsChain
<1>4. \A i \in 1 .. n + 1 : trail'[i].seen = i - 1 /\ trail'[i].after.version = i
  BY <1>1, <1>2, <1>3
<1>5. TrailIsChain'
  <2>1. trail' # <<>> /\ item'.version = n + 1 /\ item' = trail'[n + 1].after
    BY <1>1, <1>3
  <2>2. QED
    BY <1>1, <1>4, <2>1 DEF TrailIsChain
<1>6. \A i \in 1 .. n : Seen(i) = IF i = 1 THEN NoItem ELSE trail[i - 1].after
  <2> TAKE i \in 1 .. n
  <2>1. QED
    BY <1>1, <1>2, SeenInChain DEF Seen
<1>7. \A i \in 1 .. n + 1 : Seen(i)' = IF i = 1 THEN NoItem ELSE trail'[i - 1].after
  <2> TAKE i \in 1 .. n + 1
  <2>1. PICK m \in Nat : m = n + 1
    BY <1>1
  <2>2. i \in 1 .. m /\ \A j \in 1 .. m : trail'[j].seen = j - 1 /\ trail'[j].after.version = j
    BY <1>4, <2>1
  <2>3. PICK t : t = trail'
    OBVIOUS
  <2>4. (IF {j \in 1 .. i - 1 : t[j].after.version = t[i].seen} = {} THEN NoItem
         ELSE t[CHOOSE j \in {j \in 1 .. i - 1 : t[j].after.version = t[i].seen} : TRUE].after)
        = IF i = 1 THEN NoItem ELSE t[i - 1].after
    BY <2>2, <2>3, SeenInChain
  <2>5. QED
    BY <2>3, <2>4 DEF Seen
<1>8. ASSUME NEW i \in 1 .. n PROVE Seen(i)' = Seen(i)
  <2>1. i \in 1 .. n + 1 /\ (i # 1 => i - 1 \in 1 .. n)
    BY <1>1
  <2>2. QED
    BY <1>1, <1>6, <1>7, <2>1
<1>9. Seen(n + 1)' = item
  <2>1. n + 1 \in 1 .. n + 1 /\ (n = 0 <=> n + 1 = 1) /\ (n + 1) - 1 = n /\ (n # 0 => n \in 1 .. n)
    BY <1>1
  <2>2. QED
    BY <1>1, <1>3, <1>7, <2>1
<1>10. ASSUME NEW ops
       PROVE  /\ Doing(ops) \in SUBSET (1 .. n)
              /\ entry.command.op \in ops => Doing(ops)' = Doing(ops) \cup {n + 1}
              /\ entry.command.op \notin ops => Doing(ops)' = Doing(ops)
  <2>1. 1 .. n + 1 = (1 .. n) \cup {n + 1} /\ n + 1 \notin 1 .. n
    BY <1>1
  <2>2. QED
    BY <1>1, <2>1 DEF Doing
<1>11. QED
  BY <1>1, <1>5, <1>8, <1>9, <1>10
-----------------------------------------------------------------------------
(* A command of an author or an administrator.                             *)
LEMMA CommandStep ==
  ASSUME MarketIsSound, NEW key \in 1 .. Len(trail) + 1, NEW c \in MarketCommands,
         Does(c), Keep(key, c, item.version)
  PROVE  MarketIsSound'
<1> DEFINE published == Doing({"publish"})  granted == Doing({"publish", "availability"})
           archived == Doing({"archive"})
<1>1. PICK n : n = Len(trail)
  OBVIOUS
<1>2. PICK entry : entry = [key |-> key, command |-> c, seen |-> item.version, after |-> item']
  OBVIOUS
<1>3. /\ item' \in MarketItems /\ item'.version = item.version + 1 /\ item.version \in Nat
      /\ trail \in Seq(TrailEntry) /\ n \in Nat /\ key \in Nat
  <2>1. item.version \in Nat
    <3>1. PICK B : B = BOOLEAN
      OBVIOUS
    <3>2. item \in [status : MarketStatuses, entry : Entries \cup {NoEntry}, live : Entries \cup {NoEntry},
                    embed : B, version : Nat]
      BY <3>1, Zenon DEF MarketIsSound, MarketTyped, MarketItems
    <3>3. QED
      BY <3>2, ItemIs
  <2>2. trail \in Seq(TrailEntry) /\ n \in Nat
    BY <1>1 DEF MarketIsSound, MarketTyped
  <2>3. key \in Nat
    BY <1>1, <2>2
  <2>4. QED
    BY <2>1, <2>2, <2>3, CommandEffect DEF MarketIsSound
<1>4. /\ entry \in TrailEntry /\ entry.seen = item.version /\ entry.after = item' /\ entry.command = c
      /\ trail' = Append(trail, entry)
  <2>1. entry \in TrailEntry
    BY <1>2, <1>3, Zenon DEF TrailEntry
  <2>2. QED
    BY <1>2, <2>1 DEF Keep
<1>5. /\ Len(trail') = n + 1 /\ trail'[n + 1] = entry /\ TrailIsChain'
      /\ \A i \in 1 .. n : trail'[i] = trail[i] /\ Seen(i)' = Seen(i)
      /\ Seen(n + 1)' = item
      /\ \A ops : /\ Doing(ops) \in SUBSET (1 .. n)
                  /\ c.op \in ops => Doing(ops)' = Doing(ops) \cup {n + 1}
                  /\ c.op \notin ops => Doing(ops)' = Doing(ops)
  BY <1>1, <1>3, <1>4, TrailGrows DEF MarketIsSound
<1>6. MarketTyped'
  <2>1. Append(trail, entry) \in Seq(TrailEntry)
    BY <1>3, <1>4
  <2>2. QED
    BY <1>3, <1>4, <2>1 DEF MarketTyped
<1>7. \/ /\ c.op \notin {"publish", "availability", "archive"}
         /\ item'.live = item.live /\ item'.embed = item.embed
      \/ c.op = "archive" /\ item'.live = NoEntry /\ item'.embed = FALSE
      \/ /\ c.op = "publish" /\ item.status = "pending_review"
         /\ item'.live = item.entry /\ item.entry.complete
         /\ item'.embed = c.embed /\ (c.embed => item.entry.embed /\ item.entry.demo)
      \/ /\ c.op = "availability" /\ item.live # NoEntry /\ item'.live = item.live
         /\ item'.embed = c.embed /\ (c.embed => item.live.embed /\ item.live.demo)
  BY CommandEffect DEF MarketIsSound
<1>8. /\ published \in SUBSET (1 .. n) /\ granted \in SUBSET (1 .. n) /\ archived \in SUBSET (1 .. n)
      /\ published \subseteq granted
  <2>1. published \subseteq granted
    BY DEF Doing
  <2>2. QED
    BY <1>5, <2>1
<1>9. /\ n + 1 \notin 1 .. n
      /\ published # {} => Newest(published) \in 1 .. n
      /\ granted # {} => Newest(granted) \in 1 .. n
      /\ Newest(published \cup {n + 1}) = n + 1 /\ Newest(granted \cup {n + 1}) = n + 1
  <2> HIDE DEF published, granted
  <2>1. /\ published # {} => Newest(published) \in published
        /\ granted # {} => Newest(granted) \in granted
    BY <1>3, <1>8, LatestIs, NewestIs
  <2>2. Newest(published \cup {n + 1}) = n + 1 /\ Newest(granted \cup {n + 1}) = n + 1
    BY <1>3, <1>8, LatestNew, NewestIs
  <2>3. n + 1 \notin 1 .. n
    BY <1>3
  <2>4. QED
    BY <1>8, <2>1, <2>2, <2>3
<1>10. item.live # NoEntry =>
         /\ published # {} /\ granted # {}
         /\ ApprovedBy(Newest(published), Newest(granted))
  BY <1>8 DEF MarketIsSound, PublicIsTraced
<1>11. item.live = NoEntry => ~item.embed
  BY DEF MarketIsSound, PublicIsTraced
<1>12. PublicIsTraced'
  <2>1. CASE /\ c.op \notin {"publish", "availability", "archive"}
             /\ item'.live = item.live /\ item'.embed = item.embed
    <3>1. published' = published /\ granted' = granted /\ archived' = archived
      BY <1>5, <2>1
    <3>2. ASSUME item.live # NoEntry
          PROVE  ApprovedBy(Newest(published), Newest(granted))'
      BY <1>5, <1>9, <1>10, <2>1, <3>1, <3>2 DEF ApprovedBy
    <3>3. QED
      BY <1>10, <1>11, <2>1, <3>1, <3>2 DEF PublicIsTraced
  <2>2. CASE c.op = "archive" /\ item'.live = NoEntry /\ item'.embed = FALSE
    BY <2>2 DEF PublicIsTraced
  <2>3. CASE /\ c.op = "publish" /\ item.status = "pending_review"
             /\ item'.live = item.entry /\ item.entry.complete
             /\ item'.embed = c.embed /\ (c.embed => item.entry.embed /\ item.entry.demo)
    <3>1. /\ published' = published \cup {n + 1} /\ granted' = granted \cup {n + 1}
          /\ archived' = archived
      BY <1>5, <2>3
    <3>2. Newest(published)' = n + 1 /\ Newest(granted)' = n + 1
      BY <1>9, <3>1 DEF Newest
    <3>3. item.entry # NoEntry
      BY <2>3 DEF NoEntry
    <3>4. ApprovedBy(Newest(published), Newest(granted))'
      BY <1>3, <1>4, <1>5, <1>8, <2>3, <3>1, <3>2 DEF ApprovedBy
    <3>5. QED
      BY <2>3, <3>1, <3>3, <3>4 DEF PublicIsTraced
  <2>4. CASE /\ c.op = "availability" /\ item.live # NoEntry /\ item'.live = item.live
             /\ item'.embed = c.embed /\ (c.embed => item.live.embed /\ item.live.demo)
    <3>1. /\ published' = published /\ granted' = granted \cup {n + 1} /\ archived' = archived
      BY <1>5, <2>4
    <3>2. Newest(published)' = Newest(published) /\ Newest(granted)' = n + 1
      BY <1>9, <3>1 DEF Newest
    <3>3. ApprovedBy(Newest(published), Newest(granted))'
      BY <1>4, <1>5, <1>9, <1>10, <2>4, <3>1, <3>2 DEF ApprovedBy
    <3>4. QED
      BY <1>10, <2>4, <3>1, <3>3 DEF PublicIsTraced
  <2>5. QED
    BY <1>7, <2>1, <2>2, <2>3, <2>4
<1>13. QED
  BY <1>5, <1>6, <1>12 DEF MarketIsSound

(* Posts that change leave the item and its trail alone.                   *)
LEMMA MarketUnchanged == MarketIsSound /\ UNCHANGED <<item, trail>> => MarketIsSound'
<1> SUFFICES ASSUME MarketIsSound, item' = item, trail' = trail PROVE MarketIsSound'
  OBVIOUS
<1>1. MarketTyped'
  BY Zenon DEF MarketIsSound, MarketTyped
<1>2. TrailIsChain'
  BY DEF MarketIsSound, TrailIsChain
<1>3. /\ \A i : Seen(i)' = Seen(i)
      /\ \A ops : Doing(ops)' = Doing(ops)
  BY DEF Seen, Doing
<1>4. PublicIsTraced'
  <2>1. \A ops : Newest(Doing(ops))' = Newest(Doing(ops))
    BY <1>3 DEF Newest
  <2>2. \A i, g : ApprovedBy(i, g)' <=> ApprovedBy(i, g)
    BY <1>3 DEF ApprovedBy
  <2>3. QED
    BY <1>3, <2>1, <2>2 DEF MarketIsSound, PublicIsTraced
<1>5. QED
  BY <1>1, <1>2, <1>4 DEF MarketIsSound

(* Every step of the marketplace.                                          *)
LEMMA MarketStep == MarketIsSound /\ [MarketplaceNext]_marketVars => MarketIsSound'
<1> SUFFICES ASSUME MarketIsSound, [MarketplaceNext]_marketVars PROVE MarketIsSound'
  OBVIOUS
<1>1. ASSUME NEW key \in 1 .. Len(trail) + 1, NEW seen, NEW c \in AuthorCommands, SaveItem(key, c, seen)
      PROVE  MarketIsSound'
  <2>1. seen = item.version /\ c \in MarketCommands /\ Does(c) /\ Keep(key, c, seen)
    BY <1>1 DEF SaveItem, Turn, Current, Does, MarketCommands
  <2>2. QED
    BY <2>1, CommandStep
<1>2. ASSUME NEW key \in 1 .. Len(trail) + 1, NEW seen, NEW c \in ReviewCommands, ReviewItem(key, c, seen)
      PROVE  MarketIsSound'
  <2>1. seen = item.version /\ c \in MarketCommands /\ Does(c) /\ Keep(key, c, seen)
    BY <1>2 DEF ReviewItem, Turn, Current, Does, MarketCommands
  <2>2. QED
    BY <2>1, CommandStep
<1>3. ASSUME NEW which, Swing(which) PROVE MarketIsSound'
  BY <1>3, MarketUnchanged DEF Swing
<1>4. CASE UNCHANGED marketVars
  BY <1>4, MarketUnchanged DEF marketVars
<1>5. QED
  BY <1>1, <1>2, <1>3, <1>4 DEF MarketplaceNext

(* An item that nobody has touched.                                        *)
LEMMA MarketSoundInit == MarketplaceInit => MarketIsSound
<1> SUFFICES ASSUME MarketplaceInit PROVE MarketIsSound
  OBVIOUS
<1>1. item = NoItem /\ trail = <<>> /\ trail \in Seq(TrailEntry) /\ Len(trail) = 0
  BY DEF MarketplaceInit
<1>2. NoItem \in MarketItems
  <2>1. "none" \in MarketStatuses /\ NoEntry \in Entries \cup {NoEntry} /\ 0 \in Nat
    BY DEF MarketStatuses
  <2>2. QED
    BY <2>1, Zenon DEF MarketItems, NoItem
<1>3. NoItem.live = NoEntry /\ ~NoItem.embed /\ NoItem.version = 0
  BY DEF NoItem
<1>4. QED
  BY <1>1, <1>2, <1>3 DEF MarketIsSound, MarketTyped, TrailIsChain, PublicIsTraced

(* Whatever order the commands of several people came in, and however old  *)
(* the versions they had before them: what is public is what was approved. *)
THEOREM PublicWasApproved == MarketplaceSpec => []PublicIsApproved
<1>1. MarketIsSound => PublicIsApproved
  BY DEF MarketIsSound, PublicIsTraced, ApprovedBy, PublicIsApproved
<1>2. QED
  BY <1>1, MarketSoundInit, MarketStep, PTL DEF MarketplaceSpec
-----------------------------------------------------------------------------
(* Messages: the inductive invariant.                                      *)

Truth         == BOOLEAN
Bodies        == UNION {[S -> Nat] : S \in SUBSET Nat}
RoomRecord    == [kind : {"none", "direct", "group"}, owner : Chatters \cup {"none"}, version : Nat, closed : Truth]
MemberRecord  == [state : {"none", "active", "invited", "left"}, since : Nat \ {0}, read : Nat, unread : Nat]
MessageRecord == [sender : Chatters, removed : Truth, version : Nat \ {0}, key : Chatters \X Nat]
CopyRecord    == [state : {"none", "clean", "mixed"}, cursor : Nat, from : Nat, held : Bodies]
CallRecord    == [pc : {"none", "sent", "refused", "read"}, at : Nat, next : Nat, from : Nat, rows : Bodies]
CallsRecord   == [Errands -> CallRecord]

ChatTyped ==
  /\ room \in RoomRecord
  /\ member \in [Chatters -> MemberRecord]
  /\ messages \in Seq(MessageRecord)
  /\ reports \subseteq 1 .. LastSeq
  /\ copy \in [Readers -> CopyRecord]
  /\ calls \in [Readers -> CallsRecord]

(* Nobody is in a room that has not been opened, and nothing was said.     *)
SilentBefore ==
  room.kind = "none" => messages = <<>> /\ room.version = 0 /\ \A v \in Chatters : member[v] = Outside

(* The room knows the newest version.                                      *)
RoomIsNewest == \A i \in 1 .. LastSeq : messages[i].version <= room.version

Unseen(u) == {i \in member[u].read + 1 .. LastSeq : messages[i].sender # u}
UnreadCounts(u) ==
  /\ member[u].unread = Cardinality(Unseen(u)) /\ IsFiniteSet(Unseen(u))
  /\ member[u].since - 1 <= member[u].read /\ member[u].read <= LastSeq
UnreadFollows == \A u \in Chatters : Active(u) => UnreadCounts(u)

(* Rows of messages, as some call read them: none is newer than its        *)
(* message, and up to a version those that are held, or lie in what was    *)
(* loaded without a gap, are the messages.                                 *)
HoldsRow(f, i) == i \in DOMAIN f /\ f[i] = messages[i].version
Behind(f) == DOMAIN f \subseteq 1 .. LastSeq /\ \A i \in DOMAIN f : f[i] <= messages[i].version
FollowsTo(u, f, v, first) ==
  /\ v <= room.version
  /\ \A i \in Visible(u) : messages[i].version <= v /\ (i \in DOMAIN f \/ first <= i) => HoldsRow(f, i)

(* A copy, and the calls on their way to it.  A tick asks from the cursor  *)
(* of the copy; older rows are right, or overtaken by what the copy holds. *)
CopySound(u, c) == Behind(c.held) /\ (c.state = "clean" => FollowsTo(u, c.held, c.cursor, c.from))
OpenSound(u, a) == a.pc = "read" => Behind(a.rows) /\ FollowsTo(u, a.rows, a.next, a.from)
TickSound(u, c, a) ==
  /\ a.pc # "none" /\ c.state = "clean" => a.at = c.cursor
  /\ a.pc = "read" =>
       /\ Behind(a.rows) /\ a.next <= room.version /\ \A i \in DOMAIN a.rows : a.at < a.rows[i]
       /\ \A i \in Visible(u) : a.at < messages[i].version /\ messages[i].version <= a.next => HoldsRow(a.rows, i)
OlderSound(u, c, a) ==
  /\ a.at <= LastSeq
  /\ a.pc = "read" =>
       /\ Behind(a.rows) /\ \A i \in Visible(u) : a.from <= i /\ i < a.at => i \in DOMAIN a.rows
       /\ c.state = "clean" =>
            \A i \in Visible(u) : i \in DOMAIN a.rows /\ messages[i].version <= c.cursor =>
              HoldsRow(a.rows, i) \/ HoldsRow(c.held, i)

CopyKnows(u) ==
  /\ CopySound(u, copy[u]) /\ OpenSound(u, calls[u]["open"])
  /\ TickSound(u, copy[u], calls[u]["tick"]) /\ OlderSound(u, copy[u], calls[u]["older"])
CopiesFollow == \A u \in Readers : CopyKnows(u)

RoomIsHeld == IsFiniteSet(Seated) /\ RoomIsRuled /\ (room.kind # "none" => room.owner \in Chatters)

(* A message has the key of a command that was answered.                   *)
KeysWereUsed ==
  /\ replies \in [Chatters -> Seq(UNION {Commands(u) : u \in Chatters})]
  /\ \A i \in 1 .. LastSeq : \E u \in Chatters : \E k \in 1 .. Len(replies[u]) : messages[i].key = <<u, k>>
  /\ SentOnce

RoomIsSound == ChatTyped /\ SilentBefore /\ RoomIsNewest /\ UnreadFollows /\ CopiesFollow /\ RoomIsHeld
ChatIsSound == RoomIsSound /\ KeysWereUsed

-----------------------------------------------------------------------------
(* The members, by what happens to one of them.                            *)
Stays(v) ==
  /\ member'[v].since = member[v].since /\ member'[v].read = member[v].read
  /\ Active(v)' => Active(v) /\ member'[v].unread = member[v].unread
Comes(v) ==
  /\ member'[v].since = LastSeq + 1
  /\ Active(v)' => member'[v].read = LastSeq /\ member'[v].unread = 0
HasRead(v) ==
  /\ member'[v].since = member[v].since /\ Active(v) /\ member[v].read <= member'[v].read
  /\ member'[v].read <= LastSeq
  /\ member'[v].unread = Cardinality({i \in member'[v].read + 1 .. LastSeq : messages[i].sender # v})

(* Fields of members.                                                      *)
LEMMA MemberFields ==
  ASSUME ChatTyped, NEW v \in Chatters
  PROVE  /\ member[v] \in MemberRecord /\ member[v].state \in {"none", "active", "invited", "left"}
         /\ member[v].since \in Nat \ {0} /\ member[v].read \in Nat /\ member[v].unread \in Nat
         /\ LastSeq \in Nat /\ room.version \in Nat
         /\ room.kind \in {"none", "direct", "group"} /\ room.owner \in Chatters \cup {"none"}
<1>1. member[v] \in MemberRecord
  BY DEF ChatTyped
<1>2. /\ member[v].state \in {"none", "active", "invited", "left"}
      /\ member[v].since \in Nat \ {0} /\ member[v].read \in Nat /\ member[v].unread \in Nat
  BY <1>1 DEF MemberRecord
<1>3. LastSeq \in Nat
  BY DEF ChatTyped, LastSeq
<1>4. /\ room.version \in Nat /\ room.kind \in {"none", "direct", "group"}
      /\ room.owner \in Chatters \cup {"none"}
  BY DEF ChatTyped, RoomRecord
<1>5. QED
  BY <1>1, <1>2, <1>3, <1>4

(* Fields of messages and of the room.                                     *)
LEMMA MessageFields ==
  ASSUME ChatTyped
  PROVE  /\ LastSeq \in Nat /\ room.version \in Nat
         /\ \A i \in 1 .. LastSeq : messages[i].sender \in Chatters /\ messages[i].version \in Nat \ {0}
<1>1. LastSeq \in Nat
  BY DEF ChatTyped, LastSeq
<1>2. room.version \in Nat
  BY DEF ChatTyped, RoomRecord
<1>3. ASSUME NEW i \in 1 .. LastSeq
      PROVE  messages[i].sender \in Chatters /\ messages[i].version \in Nat \ {0}
  <2>1. messages[i] \in MessageRecord
    BY DEF ChatTyped, LastSeq
  <2>2. QED
    BY <2>1 DEF MessageRecord
<1>4. QED
  BY <1>1, <1>2, <1>3

(* Messages in an interval are finitely many.                              *)
LEMMA SomeMessages ==
  ASSUME NEW a \in Nat, NEW n \in Nat, NEW S \in SUBSET (a + 1 .. n)
  PROVE  IsFiniteSet(S) /\ Cardinality(S) \in Nat
<1>1. a + 1 \in Int /\ n \in Int
  OBVIOUS
<1>2. IsFiniteSet(a + 1 .. n)
  BY <1>1, FS_Interval
<1>3. IsFiniteSet(S)
  BY <1>2, FS_Subset
<1>4. QED
  BY <1>3, FS_CardinalityType

(* A copy, and the calls on their way.                                     *)
LEMMA CopyFields ==
  ASSUME ChatTyped, NEW u \in Readers
  PROVE  /\ u \in Chatters /\ copy[u] \in CopyRecord /\ calls[u] \in CallsRecord
         /\ \A what \in Errands : calls[u][what] \in CallRecord
<1>1. u \in Chatters
  BY ChatAssumption
<1>2. copy[u] \in CopyRecord /\ calls[u] \in CallsRecord
  BY DEF ChatTyped
<1>3. QED
  BY <1>1, <1>2 DEF CallsRecord

(* Messages are said and removed, members come and go: what browsers hold  *)
(* and wait for is as right as it was, for what changes is behind it.      *)
LEMMA BrowsersKeep ==
  ASSUME ChatTyped, ChatTyped', RoomIsNewest, CopiesFollow, UNCHANGED <<copy, calls>>,
         LastSeq <= LastSeq', room.version <= room'.version,
         \A i \in 1 .. LastSeq' : (i <= LastSeq /\ messages'[i].version = messages[i].version)
                                    \/ room.version < messages'[i].version,
         \A u \in Readers : \A i \in 1 .. LastSeq : i >= member'[u].since => i >= member[u].since
  PROVE  CopiesFollow'
<1> SUFFICES ASSUME NEW u \in Readers PROVE CopyKnows(u)'
  BY DEF CopiesFollow
<1>1. /\ LastSeq \in Nat /\ room.version \in Nat
      /\ \A i \in 1 .. LastSeq : messages[i].version \in Nat /\ messages[i].version <= room.version
  BY MessageFields DEF RoomIsNewest
<1>2. LastSeq' \in Nat /\ room'.version \in Nat /\ \A i \in 1 .. LastSeq' : messages'[i].version \in Nat
  <2>1. LastSeq' \in Nat
    BY DEF ChatTyped, LastSeq
  <2>2. room'.version \in Nat
    BY DEF ChatTyped, RoomRecord
  <2>3. ASSUME NEW i \in 1 .. LastSeq' PROVE messages'[i].version \in Nat
    <3>1. messages'[i] \in MessageRecord
      BY DEF ChatTyped, LastSeq
    <3>2. QED
      BY <3>1 DEF MessageRecord
  <2>4. QED
    BY <2>1, <2>2, <2>3
<1>3. \A i \in Visible(u)' : messages'[i].version <= room.version =>
        i \in Visible(u) /\ messages'[i].version = messages[i].version
  BY <1>1, <1>2 DEF Visible
<1>4. \A i \in 1 .. LastSeq : i \in 1 .. LastSeq' /\ messages[i].version <= messages'[i].version
  BY <1>1, <1>2
<1>5. \A i \in Visible(u)' : i <= LastSeq => i \in Visible(u)
  BY <1>1, <1>2 DEF Visible
<1>6. PICK c : c = copy[u]
  OBVIOUS
<1>7. PICK o : o = calls[u]["open"]
  OBVIOUS
<1>8. PICK t : t = calls[u]["tick"]
  OBVIOUS
<1>9. PICK l : l = calls[u]["older"]
  OBVIOUS
<1>10. c \in CopyRecord /\ o \in CallRecord /\ t \in CallRecord /\ l \in CallRecord
  BY <1>6, <1>7, <1>8, <1>9, CopyFields DEF Errands
<1>11. CopySound(u, c) /\ OpenSound(u, o) /\ TickSound(u, c, t) /\ OlderSound(u, c, l)
  BY <1>6, <1>7, <1>8, <1>9 DEF CopiesFollow, CopyKnows
<1>12. ASSUME NEW f \in Bodies, Behind(f) PROVE Behind(f)'
  <2>1. \A i \in DOMAIN f : f[i] \in Nat
    BY DEF Bodies
  <2>2. QED
    BY <1>1, <1>2, <1>4, <1>12, <2>1 DEF Behind
<1>13. ASSUME NEW f, NEW v \in Nat, NEW first, FollowsTo(u, f, v, first) PROVE FollowsTo(u, f, v, first)'
  <2>1. v <= room.version /\ v <= room'.version
    BY <1>1, <1>2, <1>13 DEF FollowsTo
  <2>2. ASSUME NEW i \in Visible(u)', messages'[i].version <= v, i \in DOMAIN f \/ first <= i
        PROVE  HoldsRow(f, i)'
    <3>1. i \in 1 .. LastSeq' /\ messages'[i].version \in Nat
      BY <1>2 DEF Visible
    <3>2. i \in Visible(u) /\ messages'[i].version = messages[i].version
      BY <1>1, <1>3, <2>1, <2>2, <3>1
    <3>3. QED
      BY <1>13, <2>2, <3>2 DEF FollowsTo, HoldsRow
  <2>3. QED
    BY <2>1, <2>2 DEF FollowsTo
<1>14. CopySound(u, c)'
  BY <1>10, <1>11, <1>12, <1>13 DEF CopySound, CopyRecord
<1>15. OpenSound(u, o)'
  BY <1>10, <1>11, <1>12, <1>13 DEF OpenSound, CallRecord
<1>16. TickSound(u, c, t)'
  <2>1. t.pc = "read" => Behind(t.rows)'
    BY <1>10, <1>11, <1>12 DEF TickSound, CallRecord
  <2>2. ASSUME t.pc = "read", NEW i \in Visible(u)', t.at < messages'[i].version, messages'[i].version <= t.next
        PROVE  HoldsRow(t.rows, i)'
    <3>1. t.next \in Nat /\ t.next <= room.version /\ i \in 1 .. LastSeq'
      BY <1>10, <1>11, <2>2 DEF TickSound, CallRecord, Visible
    <3>2. i \in Visible(u) /\ messages'[i].version = messages[i].version
      BY <1>1, <1>2, <1>3, <2>2, <3>1
    <3>3. QED
      BY <1>11, <2>2, <3>2 DEF TickSound, HoldsRow
  <2>3. t.pc = "read" => t.next <= room'.version
    BY <1>1, <1>2, <1>10, <1>11 DEF TickSound, CallRecord
  <2>4. QED
    BY <1>11, <2>1, <2>2, <2>3 DEF TickSound
<1>17. OlderSound(u, c, l)'
  <2>1. l.at <= LastSeq' /\ (l.pc = "read" => Behind(l.rows)')
    BY <1>1, <1>2, <1>10, <1>11, <1>12 DEF OlderSound, CallRecord
  <2>2. ASSUME l.pc = "read", NEW i \in Visible(u)', l.from <= i, i < l.at PROVE i \in DOMAIN l.rows
    <3>1. i \in 1 .. LastSeq' /\ l.at \in Nat /\ l.at <= LastSeq
      BY <1>10, <1>11 DEF OlderSound, CallRecord, Visible
    <3>2. i \in Visible(u)
      BY <1>1, <1>2, <1>5, <2>2, <3>1
    <3>3. QED
      BY <1>11, <2>2, <3>2 DEF OlderSound
  <2>3. ASSUME l.pc = "read", c.state = "clean", NEW i \in Visible(u)', i \in DOMAIN l.rows, messages'[i].version <= c.cursor
        PROVE  HoldsRow(l.rows, i)' \/ HoldsRow(c.held, i)'
    <3>1. c.cursor \in Nat /\ c.cursor <= room.version /\ i \in 1 .. LastSeq'
      BY <1>10, <1>11, <2>3 DEF CopySound, FollowsTo, CopyRecord, Visible
    <3>2. i \in Visible(u) /\ messages'[i].version = messages[i].version
      BY <1>1, <1>2, <1>3, <2>3, <3>1
    <3>3. QED
      BY <1>11, <2>3, <3>2 DEF OlderSound, HoldsRow
  <2>4. QED
    BY <2>1, <2>2, <2>3 DEF OlderSound
<1>18. copy' = copy /\ calls' = calls
  OBVIOUS
<1>19. QED
  BY <1>6, <1>7, <1>8, <1>9, <1>14, <1>15, <1>16, <1>17, <1>18 DEF CopyKnows

(* Members come, read and go: counts and copies stay right.                *)
LEMMA MembersMove ==
  ASSUME RoomIsSound, ChatTyped', messages' = messages, UNCHANGED <<copy, calls>>, room'.version = room.version,
         \A v \in Chatters : Stays(v) \/ Comes(v) \/ HasRead(v)
  PROVE  RoomIsNewest' /\ UnreadFollows' /\ CopiesFollow'
<1>1. LastSeq' = LastSeq
  BY DEF LastSeq
<1>2. RoomIsNewest'
  BY <1>1 DEF RoomIsSound, RoomIsNewest
<1>3. ASSUME NEW v \in Chatters, Active(v)' PROVE UnreadCounts(v)'
  <2>1. /\ member[v].since \in Nat \ {0} /\ member[v].read \in Nat /\ LastSeq \in Nat
        /\ member[v].unread \in Nat
    BY MemberFields DEF RoomIsSound
  <2>2. CASE Stays(v)
    <3>1. Active(v) /\ member'[v].read = member[v].read
      BY <1>3, <2>2 DEF Stays
    <3>2. Unseen(v)' = Unseen(v)
      BY <1>1, <3>1 DEF Unseen
    <3>3. UnreadCounts(v)
      BY <3>1 DEF RoomIsSound, UnreadFollows
    <3>4. member'[v].unread = member[v].unread /\ member'[v].since = member[v].since
      BY <1>3, <2>2 DEF Stays
    <3>5. QED
      BY <1>1, <3>1, <3>2, <3>3, <3>4 DEF UnreadCounts
  <2>3. CASE Comes(v)
    <3>1. member'[v].read = LastSeq /\ member'[v].unread = 0 /\ member'[v].since = LastSeq + 1
      BY <1>3, <2>3 DEF Comes
    <3>2. Unseen(v)' = {}
      BY <1>1, <2>1, <3>1 DEF Unseen
    <3>3. IsFiniteSet({}) /\ Cardinality({}) = 0
      BY FS_EmptySet
    <3>4. Cardinality(Unseen(v)') = 0 /\ IsFiniteSet(Unseen(v)')
      BY <3>2, <3>3, Zenon
    <3>5. QED
      BY <1>1, <2>1, <3>1, <3>4 DEF UnreadCounts
  <2>4. CASE HasRead(v)
    <3>1. Unseen(v)' = {i \in member'[v].read + 1 .. LastSeq : messages[i].sender # v}
      BY <1>1 DEF Unseen
    <3>2. member'[v].read \in Nat
      <4>1. member'[v] \in MemberRecord
        BY DEF ChatTyped
      <4>2. QED
        BY <4>1 DEF MemberRecord
    <3>3. Unseen(v)' \in SUBSET (member'[v].read + 1 .. LastSeq)
      BY <3>1
    <3>4. IsFiniteSet(Unseen(v)')
      BY <2>1, <3>2, <3>3, SomeMessages
    <3>5. member'[v].unread = Cardinality(Unseen(v)')
      BY <2>4, <3>1, Zenon DEF HasRead
    <3>6. UnreadCounts(v)
      BY <2>4 DEF RoomIsSound, UnreadFollows, HasRead
    <3>7. member'[v].since - 1 <= member'[v].read /\ member'[v].read <= LastSeq'
      BY <1>1, <2>1, <2>4, <3>2, <3>6 DEF UnreadCounts, HasRead
    <3>8. QED
      BY <3>4, <3>5, <3>7 DEF UnreadCounts
  <2>5. QED
    BY <2>2, <2>3, <2>4
<1>4. CopiesFollow'
  <2>1. LastSeq \in Nat /\ room.version \in Nat /\ \A i \in 1 .. LastSeq : messages'[i].version = messages[i].version
    BY MessageFields DEF RoomIsSound
  <2>2. \A v \in Readers : member'[v].since = member[v].since \/ member'[v].since = LastSeq + 1
    BY ChatAssumption DEF Stays, Comes, HasRead
  <2>3. \A v \in Readers : \A i \in 1 .. LastSeq : i >= member'[v].since => i >= member[v].since
    BY <2>1, <2>2
  <2>4. QED
    BY <1>1, <2>1, <2>3, BrowsersKeep DEF RoomIsSound
<1>5. QED
  BY <1>2, <1>3, <1>4 DEF UnreadFollows

(* What is said is unread by those who did not say it, and behind the      *)
(* cursor of every copy.                                                   *)
LEMMA SendMoves ==
  ASSUME RoomIsSound, NEW u \in Chatters, NEW k, Send(u, k), UNCHANGED <<copy, calls>>, ChatTyped'
  PROVE  RoomIsNewest' /\ UnreadFollows' /\ CopiesFollow'
<1>1. PICK n : n = LastSeq
  OBVIOUS
<1>2. PICK w : w = room.version + 1
  OBVIOUS
<1>3. n \in Nat /\ room.version \in Nat
  BY <1>1, MessageFields DEF RoomIsSound
<1>4. /\ LastSeq' = n + 1 /\ messages'[n + 1].version = w /\ messages'[n + 1].sender = u
      /\ \A i \in 1 .. n : messages'[i] = messages[i]
  BY <1>1, <1>2, <1>3 DEF Send, LastSeq, RoomIsSound, ChatTyped
<1>5. room'.version = w
  BY <1>2 DEF Send, RoomIsSound, ChatTyped, RoomRecord
<1>6. \A i \in 1 .. n : messages[i].version <= room.version /\ messages[i].version \in Nat
  BY <1>1, MessageFields DEF RoomIsSound, RoomIsNewest
<1>7. RoomIsNewest'
  BY <1>2, <1>3, <1>4, <1>5, <1>6 DEF RoomIsNewest
<1>8. ASSUME NEW v \in Chatters
      PROVE  /\ member'[v].since = member[v].since /\ member'[v].read = member[v].read
             /\ Active(v)' => Active(v)
             /\ v # u /\ Active(v) => member'[v].unread = member[v].unread + 1
             /\ v = u => member'[v].unread = member[v].unread
  <2>1. PICK m : m = member[v].unread + 1
    OBVIOUS
  <2>2. member[v] \in MemberRecord
    BY MemberFields DEF RoomIsSound
  <2>3. v # u /\ Active(v) => member'[v] = [member[v] EXCEPT !.unread = m]
    BY <2>1, <2>2 DEF Send, MemberRecord
  <2>4. ~(v # u /\ Active(v)) => member'[v] = member[v]
    BY DEF Send
  <2>5. QED
    BY <2>1, <2>2, <2>3, <2>4 DEF MemberRecord, Active
<1>9. ASSUME NEW v \in Chatters, Active(v)' PROVE UnreadCounts(v)'
  <2>1. UnreadCounts(v) /\ Active(v) /\ member[v].read \in Nat /\ member[v].since \in Nat
    BY <1>8, <1>9, MemberFields DEF RoomIsSound, UnreadFollows
  <2>2. PICK r : r = member[v].read
    OBVIOUS
  <2>3. r \in Nat /\ r <= n
    BY <1>1, <2>1, <2>2 DEF UnreadCounts
  <2>4. r + 1 .. n + 1 = (r + 1 .. n) \cup {n + 1} /\ n + 1 \notin r + 1 .. n
    BY <1>3, <2>3
  <2>5. \A i \in r + 1 .. n : messages'[i] = messages[i]
    BY <1>3, <1>4, <2>3
  <2>6. Unseen(v)' = {i \in r + 1 .. n + 1 : messages'[i].sender # v}
    BY <1>4, <1>8, <2>2 DEF Unseen
  <2>7. Unseen(v) = {i \in r + 1 .. n : messages[i].sender # v}
    BY <1>1, <2>2 DEF Unseen
  <2>8. /\ v = u => Unseen(v)' = Unseen(v)
        /\ v # u => Unseen(v)' = Unseen(v) \cup {n + 1}
        /\ n + 1 \notin Unseen(v)
    BY <1>4, <2>4, <2>5, <2>6, <2>7
  <2>9. /\ IsFiniteSet(Unseen(v) \cup {n + 1})
        /\ Cardinality(Unseen(v) \cup {n + 1}) = Cardinality(Unseen(v)) + 1
    BY <2>1, <2>8, FS_AddElement DEF UnreadCounts
  <2>10. CASE v = u
    BY <1>1, <1>3, <1>4, <1>8, <2>1, <2>8, <2>10 DEF UnreadCounts
  <2>11. CASE v # u
    <3>1. IsFiniteSet(Unseen(v)') /\ Cardinality(Unseen(v)') = Cardinality(Unseen(v)) + 1
      BY <2>8, <2>9, <2>11, Zenon
    <3>2. member'[v].unread = member[v].unread + 1
      BY <1>8, <2>1, <2>11
    <3>3. QED
      BY <1>1, <1>3, <1>4, <1>8, <2>1, <3>1, <3>2 DEF UnreadCounts
  <2>12. QED
    BY <2>10, <2>11
<1>10. CopiesFollow'
  <2>1. \A i \in 1 .. n + 1 : i \in 1 .. n \/ i = n + 1
    BY <1>3
  <2>2. \A i \in 1 .. LastSeq' : (i <= LastSeq /\ messages'[i].version = messages[i].version)
                                  \/ room.version < messages'[i].version
    BY <1>1, <1>2, <1>3, <1>4, <2>1
  <2>3. \A v \in Readers : member'[v].since = member[v].since
    BY <1>8, ChatAssumption
  <2>4. LastSeq <= LastSeq' /\ room.version <= room'.version
    BY <1>1, <1>2, <1>3, <1>4, <1>5
  <2>5. QED
    BY <2>2, <2>3, <2>4, BrowsersKeep DEF RoomIsSound
<1>11. QED
  BY <1>7, <1>9, <1>10 DEF UnreadFollows

(* A message that is emptied is a new one to every copy.                   *)
LEMMA RedactMoves ==
  ASSUME RoomIsSound, NEW i \in 1 .. LastSeq, Redact(i), UNCHANGED <<copy, calls>>, member' = member, ChatTyped'
  PROVE  RoomIsNewest' /\ UnreadFollows' /\ CopiesFollow'
<1>1. PICK n : n = LastSeq
  OBVIOUS
<1>2. PICK w : w = room.version + 1
  OBVIOUS
<1>3. n \in Nat /\ room.version \in Nat
  BY <1>1, MessageFields DEF RoomIsSound
<1>4. /\ LastSeq' = n /\ messages'[i].version = w
      /\ \A j \in 1 .. n : messages'[j].sender = messages[j].sender /\ (j # i => messages'[j] = messages[j])
  BY <1>1, <1>2, <1>3 DEF Redact, LastSeq, RoomIsSound, ChatTyped, MessageRecord
<1>5. room'.version = w
  BY <1>2 DEF Redact, RoomIsSound, ChatTyped, RoomRecord
<1>6. \A j \in 1 .. n : messages[j].version <= room.version /\ messages[j].version \in Nat
  BY <1>1, MessageFields DEF RoomIsSound, RoomIsNewest
<1>7. RoomIsNewest'
  BY <1>2, <1>3, <1>4, <1>5, <1>6 DEF RoomIsNewest
<1>8. ASSUME NEW v \in Chatters, Active(v)' PROVE UnreadCounts(v)'
  <2>1. UnreadCounts(v) /\ member[v].read \in Nat
    BY <1>8, MemberFields DEF RoomIsSound, UnreadFollows, Active
  <2>2. Unseen(v)' = Unseen(v)
    <3>1. \A j \in member[v].read + 1 .. n : j \in 1 .. n
      BY <1>3, <2>1
    <3>2. QED
      BY <1>1, <1>4, <3>1 DEF Unseen
  <2>3. QED
    BY <1>1, <1>4, <2>1, <2>2 DEF UnreadCounts
<1>9. CopiesFollow'
  <2>1. \A j \in 1 .. LastSeq' : (j <= LastSeq /\ messages'[j].version = messages[j].version)
                                  \/ room.version < messages'[j].version
    BY <1>1, <1>2, <1>3, <1>4
  <2>2. LastSeq <= LastSeq' /\ room.version <= room'.version
    BY <1>1, <1>2, <1>3, <1>4, <1>5
  <2>3. QED
    BY <2>1, <2>2, BrowsersKeep DEF RoomIsSound
<1>10. QED
  BY <1>7, <1>8, <1>9 DEF UnreadFollows
-----------------------------------------------------------------------------
(* What a page of changes is.                                              *)

(* Of some messages one has the newest version, one the oldest.            *)
LEMMA NewestVersion ==
  ASSUME NEW n \in Nat, NEW r \in Nat, NEW V, \A i \in 1 .. n : V[i] \in 1 .. r,
         NEW C \in SUBSET (1 .. n), C # {}
  PROVE  \E m \in C : \A j \in C : V[j] <= V[m]
<1>1. PICK S : S = {V[i] : i \in C}
  OBVIOUS
<1>2. S \in SUBSET (1 .. r) /\ S # {}
  BY <1>1
<1>3. PICK v \in S : \A w \in S : w <= v
  BY <1>2, LastPosition
<1>4. QED
  BY <1>1, <1>3

(* The oldest is the newest, counted from the other end.                   *)
LEMMA OldestVersion ==
  ASSUME NEW n \in Nat, NEW r \in Nat, NEW V, \A i \in 1 .. n : V[i] \in 1 .. r,
         NEW C \in SUBSET (1 .. n), C # {}
  PROVE  \E m \in C : \A j \in C : V[m] <= V[j]
<1>1. PICK W : W = [i \in 1 .. n |-> (r + 1) - V[i]]
  OBVIOUS
<1>2. \A i \in 1 .. n : W[i] \in 1 .. r
  BY <1>1
<1>3. PICK m \in C : \A j \in C : W[j] <= W[m]
  BY <1>2, NewestVersion
<1>4. ASSUME NEW j \in C PROVE V[m] <= V[j]
  <2>1. m \in 1 .. n /\ j \in 1 .. n /\ V[m] \in Int /\ V[j] \in Int
    OBVIOUS
  <2>2. W[j] = (r + 1) - V[j] /\ W[m] = (r + 1) - V[m] /\ W[j] <= W[m]
    BY <1>1, <1>3, <2>1
  <2>3. QED
    BY <2>1, <2>2
<1>5. QED
  BY <1>4

(* Nothing is between the old cursor and the next one but the page.        *)
LEMMA PageGoesOn ==
  ASSUME RoomIsSound, NEW u \in Chatters, NEW z \in Nat
  PROVE  /\ NextCursor(u, z) \in Nat /\ NextCursor(u, z) <= room.version
         /\ \A i \in Newer(u, z) : messages[i].version <= NextCursor(u, z) => i \in Changes(u, z)
<1>1. PICK n : n = LastSeq
  OBVIOUS
<1>2. PICK r : r = room.version
  OBVIOUS
<1>3. PICK V : V = [i \in 1 .. n |-> messages[i].version]
  OBVIOUS
<1>4. n \in Nat /\ r \in Nat /\ \A i \in 1 .. n : V[i] \in 1 .. r /\ V[i] = messages[i].version
  BY <1>1, <1>2, <1>3, MessageFields DEF RoomIsSound, RoomIsNewest
<1>5. PICK N : N = Newer(u, z)
  OBVIOUS
<1>6. N \in SUBSET (1 .. n) /\ IsFiniteSet(N) /\ Cardinality(N) \in Nat
  <2>1. N \in SUBSET (0 + 1 .. n)
    BY <1>1, <1>5 DEF Newer, Visible
  <2>2. IsFiniteSet(N) /\ Cardinality(N) \in Nat
    BY <1>4, <2>1, SomeMessages
  <2>3. QED
    BY <2>1, <2>2
<1>7. PICK O : O = [i \in 1 .. n |-> {j \in N : V[j] < V[i]}]
  OBVIOUS
<1>8. \A i \in 1 .. n : O[i] = Older(u, z, i)
  BY <1>4, <1>5, <1>6, <1>7 DEF Older
<1>9. \A i \in 1 .. n : O[i] \subseteq N /\ IsFiniteSet(O[i]) /\ Cardinality(O[i]) \in Nat
  BY <1>6, <1>7, FS_Subset, FS_CardinalityType
<1>10. PICK C : C = Changes(u, z)
  OBVIOUS
<1>11. C = {i \in N : Cardinality(O[i]) < ChatPage}
  BY <1>5, <1>6, <1>8, <1>10 DEF Changes
<1>12. ChatPage \in Nat \ {0}
  BY ChatAssumption
<1>13. CASE Cardinality(N) <= ChatPage
  <2>1. NextCursor(u, z) = r
    BY <1>2, <1>5, <1>13 DEF NextCursor
  <2>2. ASSUME NEW i \in N PROVE i \in C
    <3>1. O[i] \subseteq N \ {i} /\ i \in 1 .. n
      BY <1>4, <1>6, <1>7
    <3>2. IsFiniteSet(N \ {i}) /\ Cardinality(N \ {i}) = Cardinality(N) - 1
      BY <1>6, FS_RemoveElement
    <3>3. Cardinality(O[i]) <= Cardinality(N \ {i})
      BY <3>1, <3>2, FS_Subset
    <3>4. Cardinality(O[i]) < ChatPage
      BY <1>6, <1>9, <1>12, <1>13, <3>1, <3>2, <3>3
    <3>5. QED
      BY <1>11, <3>4
  <2>3. QED
    BY <1>2, <1>4, <1>5, <1>10, <2>1, <2>2
<1>14. CASE ~(Cardinality(N) <= ChatPage)
  <2>1. C # {}
    <3>1. N # {}
      BY <1>12, <1>14, FS_EmptySet
    <3>2. PICK i \in N : \A j \in N : V[i] <= V[j]
      BY <1>4, <1>6, <3>1, OldestVersion
    <3>3. O[i] = {}
      <4>1. i \in 1 .. n /\ O[i] = {j \in N : V[j] < V[i]}
        BY <1>6, <1>7, <3>2
      <4>2. \A j \in N : V[j] \in Int /\ V[i] \in Int
        BY <1>4, <1>6, <4>1
      <4>3. \A j \in N : ~(V[j] < V[i])
        BY <3>2, <4>2
      <4>4. QED
        BY <4>1, <4>3, Zenon
    <3>4. Cardinality(O[i]) = 0
      BY <3>3, FS_EmptySet
    <3>5. QED
      BY <1>11, <1>12, <3>2, <3>4
  <2>2. PICK m \in C : \A j \in C : V[j] <= V[m]
    BY <1>4, <1>6, <1>11, <2>1, NewestVersion
  <2>3. NextCursor(u, z) = CHOOSE v \in {V[i] : i \in C} : \A i \in C : V[i] <= v
    BY <1>4, <1>5, <1>6, <1>10, <1>11, <1>14 DEF NextCursor
  <2>4. NextCursor(u, z) \in {V[i] : i \in C} /\ \A i \in C : V[i] <= NextCursor(u, z)
    BY <2>2, <2>3
  <2>5. PICK c \in C : NextCursor(u, z) = V[c]
    BY <2>4
  <2>6. ASSUME NEW i \in N, V[i] <= V[c] PROVE i \in C
    <3>1. O[i] \subseteq O[c] /\ i \in 1 .. n /\ c \in 1 .. n
      <4>1. i \in 1 .. n /\ c \in 1 .. n
        BY <1>6, <1>11
      <4>2. O[i] = {j \in N : V[j] < V[i]} /\ O[c] = {j \in N : V[j] < V[c]}
        BY <1>7, <4>1
      <4>3. \A j \in N : V[j] \in Int /\ V[i] \in Int /\ V[c] \in Int
        BY <1>4, <1>6, <4>1
      <4>4. \A j \in N : V[j] < V[i] => V[j] < V[c]
        BY <2>6, <4>3
      <4>5. QED
        BY <4>1, <4>2, <4>4
    <3>2. Cardinality(O[i]) <= Cardinality(O[c])
      BY <1>9, <3>1, FS_Subset
    <3>3. QED
      BY <1>9, <1>11, <1>12, <3>1, <3>2
  <2>7. QED
    BY <1>2, <1>4, <1>5, <1>6, <1>10, <1>11, <2>5, <2>6
<1>15. QED
  BY <1>13, <1>14
-----------------------------------------------------------------------------
(* Pages of the history, and rows that are merged.                         *)

(* The first place of some.                                                *)
LEMMA OldestIs ==
  ASSUME NEW n \in Nat, NEW S \in SUBSET (1 .. n), S # {}
  PROVE  Oldest(S) \in S /\ \A i \in S : Oldest(S) <= i
<1>1. PICK V : V = [i \in 1 .. n |-> i]
  OBVIOUS
<1>2. \A i \in 1 .. n : V[i] = i /\ V[i] \in 1 .. n
  BY <1>1
<1>3. PICK m \in S : \A j \in S : V[m] <= V[j]
  BY <1>2, OldestVersion
<1>4. \A j \in S : m <= j
  BY <1>2, <1>3
<1>5. QED
  BY <1>3, <1>4 DEF Oldest

(* The newest of some: whatever is newer than one of them is one of them.  *)
LEMMA TopIs ==
  ASSUME NEW n \in Nat, NEW S \in SUBSET (1 .. n), NEW k \in Nat \ {0}
  PROVE  /\ Top(S, k) \in SUBSET S /\ (S # {} => Top(S, k) # {})
         /\ \A i \in Top(S, k), j \in S : i <= j => j \in Top(S, k)
<1>1. PICK A : A = [i \in 1 .. n |-> {j \in S : j > i}]
  OBVIOUS
<1>2. IsFiniteSet(S)
  <2>1. S \in SUBSET (0 + 1 .. n)
    OBVIOUS
  <2>2. QED
    BY <2>1, SomeMessages
<1>3. \A i \in 1 .. n : A[i] \subseteq S /\ IsFiniteSet(A[i]) /\ Cardinality(A[i]) \in Nat
  BY <1>1, <1>2, FS_Subset, FS_CardinalityType
<1>4. Top(S, k) = {i \in S : Cardinality(A[i]) < k}
  <2>1. \A i \in S : A[i] = {j \in S : j > i}
    BY <1>1
  <2>2. QED
    BY <2>1 DEF Top
<1>5. ASSUME NEW i \in Top(S, k), NEW j \in S, i <= j PROVE j \in Top(S, k)
  <2>1. i \in S /\ i \in 1 .. n /\ j \in 1 .. n
    BY <1>4
  <2>2. A[i] = {l \in S : l > i} /\ A[j] = {l \in S : l > j}
    BY <1>1, <2>1
  <2>3. A[j] \subseteq A[i]
    <3>1. ASSUME NEW l \in A[j] PROVE l \in A[i]
      <4>1. l \in S /\ l \in 1 .. n /\ l > j
        BY <2>2, <3>1
      <4>2. l > i
        BY <1>5, <2>1, <4>1
      <4>3. QED
        BY <2>2, <4>1, <4>2
    <3>2. QED
      BY <3>1
  <2>4. Cardinality(A[j]) <= Cardinality(A[i])
    BY <1>3, <2>1, <2>3, FS_Subset
  <2>5. QED
    BY <1>3, <1>4, <2>1, <2>4
<1>6. ASSUME S # {} PROVE Top(S, k) # {}
  <2>1. PICK m \in S : \A l \in S : l <= m
    BY <1>6, LastPosition
  <2>2. m \in 1 .. n /\ \A l \in S : ~(l > m)
    BY <2>1
  <2>3. A[m] = {}
    BY <1>1, <2>2
  <2>4. Cardinality(A[m]) = 0
    BY <2>3, FS_EmptySet
  <2>5. QED
    BY <1>4, <2>1, <2>4
<1>7. QED
  BY <1>4, <1>5, <1>6

(* From its start on, a page has all.                                      *)
LEMMA StartIs ==
  ASSUME NEW n \in Nat, NEW S \in SUBSET (1 .. n), NEW k \in Nat \ {0}
  PROVE  Start(S, k) \in Nat /\ \A i \in S : Start(S, k) <= i => i \in Top(S, k)
<1>1. PICK T : T = Top(S, k)
  OBVIOUS
<1>2. T \in SUBSET S /\ (S # {} => T # {}) /\ \A i \in T, j \in S : i <= j => j \in T
  BY <1>1, TopIs
<1>3. CASE T = S
  BY <1>1, <1>3 DEF Start
<1>4. CASE T # S
  <2>1. T # {} /\ T \in SUBSET (1 .. n)
    BY <1>2, <1>4
  <2>2. Oldest(T) \in T
    BY <2>1, OldestIs
  <2>3. Start(S, k) = Oldest(T)
    BY <1>1, <1>4 DEF Start
  <2>4. QED
    BY <1>1, <1>2, <2>1, <2>2, <2>3
<1>5. QED
  BY <1>3, <1>4

(* Rows are versions at places.                                            *)
LEMMA BodyIs ==
  ASSUME NEW f \in Bodies
  PROVE  DOMAIN f \in SUBSET Nat /\ \A i \in DOMAIN f : f[i] \in Nat
<1>1. PICK S \in SUBSET Nat : f \in [S -> Nat]
  BY DEF Bodies
<1>2. QED
  BY <1>1

(* The rows of a page are the messages.                                    *)
LEMMA RowsAre ==
  ASSUME RoomIsSound, NEW S \in SUBSET (1 .. LastSeq)
  PROVE  /\ Versions(S) \in Bodies /\ DOMAIN Versions(S) = S /\ Behind(Versions(S))
         /\ \A i \in S : HoldsRow(Versions(S), i) /\ Versions(S)[i] = messages[i].version
<1>1. LastSeq \in Nat /\ \A i \in 1 .. LastSeq : messages[i].version \in Nat
  BY MessageFields DEF RoomIsSound
<1>2. PICK f : f = Versions(S)
  OBVIOUS
<1>3. DOMAIN f = S /\ \A i \in S : f[i] = messages[i].version
  BY <1>2 DEF Versions
<1>4. f \in [S -> Nat] /\ S \in SUBSET Nat
  BY <1>1, <1>2, <1>3 DEF Versions
<1>5. f \in Bodies
  BY <1>4 DEF Bodies
<1>6. Behind(f) /\ \A i \in S : HoldsRow(f, i) /\ f[i] = messages[i].version
  <2>1. ASSUME NEW i \in S
        PROVE  i \in 1 .. LastSeq /\ i \in DOMAIN f /\ f[i] = messages[i].version /\ f[i] <= messages[i].version
    <3>1. messages[i].version \in Nat /\ i \in 1 .. LastSeq
      BY <1>1
    <3>2. QED
      BY <1>3, <3>1
  <2>2. DOMAIN f \subseteq 1 .. LastSeq
    BY <1>3
  <2>3. QED
    BY <1>3, <2>1, <2>2 DEF Behind, HoldsRow
<1>7. QED
  BY <1>2, <1>3, <1>5, <1>6, Zenon

(* Of what two calls read, the newer is kept.                              *)
LEMMA MergedIs ==
  ASSUME RoomIsSound, NEW f \in Bodies, NEW g \in Bodies, Behind(f), Behind(g)
  PROVE  /\ Merged(f, g) \in Bodies /\ Behind(Merged(f, g)) /\ DOMAIN Merged(f, g) = DOMAIN f \cup DOMAIN g
         /\ \A i \in 1 .. LastSeq : HoldsRow(f, i) \/ HoldsRow(g, i) => HoldsRow(Merged(f, g), i)
<1>1. PICK P : P = DOMAIN f
  OBVIOUS
<1>2. PICK Q : Q = DOMAIN g
  OBVIOUS
<1>3. P \in SUBSET Nat /\ Q \in SUBSET Nat /\ (\A i \in P : f[i] \in Nat) /\ \A i \in Q : g[i] \in Nat
  BY <1>1, <1>2, BodyIs
<1>4. PICK h : h = Merged(f, g)
  OBVIOUS
<1>5. h = [i \in P \cup Q |-> IF i \notin Q \/ (i \in P /\ f[i] > g[i]) THEN f[i] ELSE g[i]]
  BY <1>1, <1>2, <1>4 DEF Merged
<1>6. DOMAIN h = P \cup Q /\ h \in [P \cup Q -> Nat]
  BY <1>3, <1>5
<1>7. h \in Bodies
  <2>1. P \cup Q \in SUBSET Nat
    BY <1>3
  <2>2. QED
    BY <1>6, <2>1 DEF Bodies
<1>8. /\ \A i \in P : i \in 1 .. LastSeq /\ f[i] <= messages[i].version
      /\ \A i \in Q : i \in 1 .. LastSeq /\ g[i] <= messages[i].version
  BY <1>1, <1>2 DEF Behind
<1>9. \A i \in P \cup Q : i \in 1 .. LastSeq /\ h[i] <= messages[i].version
  BY <1>5, <1>8
<1>10. \A i \in 1 .. LastSeq : messages[i].version \in Nat
  BY MessageFields DEF RoomIsSound
<1>11. ASSUME NEW i \in 1 .. LastSeq, HoldsRow(f, i) \/ HoldsRow(g, i) PROVE HoldsRow(h, i)
  <2>1. CASE i \in P /\ f[i] = messages[i].version
    <3>1. i \in Q => g[i] <= f[i] /\ g[i] \in Nat /\ f[i] \in Nat
      BY <1>3, <1>8, <2>1
    <3>2. h[i] = f[i]
      BY <1>5, <2>1, <3>1
    <3>3. QED
      BY <1>6, <2>1, <3>2 DEF HoldsRow
  <2>2. CASE i \in Q /\ g[i] = messages[i].version
    <3>1. i \in P => f[i] <= g[i] /\ g[i] \in Nat /\ f[i] \in Nat
      BY <1>3, <1>8, <2>2
    <3>2. h[i] = g[i]
      BY <1>5, <2>2, <3>1
    <3>3. QED
      BY <1>6, <2>2, <3>2 DEF HoldsRow
  <2>3. QED
    BY <1>1, <1>2, <1>11, <2>1, <2>2 DEF HoldsRow
<1>12. QED
  BY <1>1, <1>2, <1>4, <1>6, <1>7, <1>9, <1>11 DEF Behind
-----------------------------------------------------------------------------
(* What a browser does.                                                    *)

(* One browser moves, and is right; the room stays as it is.               *)
LEMMA OneBrowser ==
  ASSUME RoomIsSound, NEW u \in Readers, UNCHANGED <<room, member, messages, reports>>,
         NEW c \in CopyRecord, NEW d \in CallsRecord,
         copy' = [copy EXCEPT ![u] = c], calls' = [calls EXCEPT ![u] = d],
         CopySound(u, c), OpenSound(u, d["open"]), TickSound(u, c, d["tick"]), OlderSound(u, c, d["older"])
  PROVE  RoomIsSound'
<1>1. LastSeq' = LastSeq /\ Seated' = Seated /\ \A v \in Readers : Visible(v)' = Visible(v)
  BY DEF LastSeq, Seated, Visible
<1>2. copy \in [Readers -> CopyRecord] /\ calls \in [Readers -> CallsRecord]
  BY DEF RoomIsSound, ChatTyped
<1>3. /\ copy' \in [Readers -> CopyRecord] /\ calls' \in [Readers -> CallsRecord]
      /\ copy'[u] = c /\ calls'[u] = d
      /\ \A v \in Readers \ {u} : copy'[v] = copy[v] /\ calls'[v] = calls[v]
  BY <1>2
<1>4. ChatTyped'
  BY <1>1, <1>3 DEF RoomIsSound, ChatTyped
<1>5. ASSUME NEW v \in Readers, NEW x, NEW o, NEW t, NEW l,
             CopySound(v, x), OpenSound(v, o), TickSound(v, x, t), OlderSound(v, x, l)
      PROVE  CopySound(v, x)' /\ OpenSound(v, o)' /\ TickSound(v, x, t)' /\ OlderSound(v, x, l)'
  <2>1. \A f : Behind(f) => Behind(f)'
    BY <1>1 DEF Behind
  <2>2. \A f, i : HoldsRow(f, i)' <=> HoldsRow(f, i)
    BY DEF HoldsRow
  <2>3. \A f, y, first : FollowsTo(v, f, y, first) => FollowsTo(v, f, y, first)'
    BY <1>1, <2>2 DEF FollowsTo
  <2>4. CopySound(v, x)' /\ OpenSound(v, o)'
    BY <1>5, <2>1, <2>3 DEF CopySound, OpenSound
  <2>5. TickSound(v, x, t)'
    BY <1>1, <1>5, <2>1, <2>2 DEF TickSound
  <2>6. OlderSound(v, x, l)'
    BY <1>1, <1>5, <2>1, <2>2 DEF OlderSound
  <2>7. QED
    BY <2>4, <2>5, <2>6
<1>6. CopiesFollow'
  <2> SUFFICES ASSUME NEW v \in Readers PROVE CopyKnows(v)'
    BY DEF CopiesFollow
  <2>1. CASE v = u
    BY <1>3, <1>5, <2>1 DEF CopyKnows
  <2>2. CASE v # u
    BY <1>3, <1>5, <2>2 DEF RoomIsSound, CopiesFollow, CopyKnows
  <2>3. QED
    BY <2>1, <2>2
<1>7. SilentBefore' /\ RoomIsNewest'
  BY <1>1 DEF RoomIsSound, SilentBefore, RoomIsNewest
<1>8. UnreadFollows'
  BY <1>1 DEF RoomIsSound, UnreadFollows, UnreadCounts, Unseen, Active
<1>9. RoomIsHeld'
  BY <1>1 DEF RoomIsSound, RoomIsHeld, RoomIsRuled, Active
<1>10. QED
  BY <1>4, <1>6, <1>7, <1>8, <1>9 DEF RoomIsSound

(* No call is no call, and a copy that is not shown is right.              *)
LEMMA NothingAsked ==
  ASSUME RoomIsSound, NEW u \in Readers
  PROVE  /\ NoCall \in CallRecord /\ NoCall.pc = "none" /\ NoCall.at = 0 /\ Quiet \in CallsRecord
         /\ \A what \in Errands : Quiet[what] = NoCall
         /\ OpenSound(u, NoCall) /\ \A c : TickSound(u, c, NoCall) /\ OlderSound(u, c, NoCall)
<1>1. LastSeq \in Nat
  BY MessageFields DEF RoomIsSound
<1>2. <<>> \in Bodies
  <2>1. <<>> \in [{} -> Nat]
    OBVIOUS
  <2>2. QED
    BY <2>1 DEF Bodies
<1>3. NoCall \in CallRecord /\ NoCall.pc = "none" /\ NoCall.at = 0
  BY <1>2 DEF NoCall, CallRecord
<1>4. Quiet \in CallsRecord /\ \A what \in Errands : Quiet[what] = NoCall
  BY <1>3 DEF Quiet, CallsRecord
<1>5. QED
  BY <1>1, <1>3, <1>4 DEF OpenSound, TickSound, OlderSound

(* A call that is sent.                                                    *)
LEMMA CallIs ==
  ASSUME NEW at \in Nat
  PROVE  CallAt(at) \in CallRecord /\ CallAt(at).pc = "sent" /\ CallAt(at).at = at
<1>1. <<>> \in Bodies
  <2>1. <<>> \in [{} -> Nat]
    OBVIOUS
  <2>2. QED
    BY <2>1 DEF Bodies
<1>2. CallAt(at) = [pc |-> "sent", at |-> at, next |-> 0, from |-> 1, rows |-> <<>>]
  BY DEF CallAt, NoCall
<1>3. QED
  BY <1>1, <1>2 DEF CallRecord

(* One call of a browser changes.                                          *)
LEMMA OneCall ==
  ASSUME RoomIsSound, NEW u \in Readers, NEW what \in Errands, NEW a \in CallRecord
  PROVE  \E d \in CallsRecord :
           /\ SetCall(u, what, a) = [calls EXCEPT ![u] = d]
           /\ d[what] = a /\ \A w \in Errands \ {what} : d[w] = calls[u][w]
<1>1. PICK d : d = [calls[u] EXCEPT ![what] = a]
  OBVIOUS
<1>2. calls[u] \in CallsRecord
  BY CopyFields DEF RoomIsSound
<1>3. d \in CallsRecord /\ d[what] = a /\ \A w \in Errands \ {what} : d[w] = calls[u][w]
  BY <1>1, <1>2 DEF CallsRecord
<1>4. SetCall(u, what, a) = [calls EXCEPT ![u] = d]
  BY <1>1 DEF SetCall
<1>5. QED
  BY <1>3, <1>4

(* The server answers.                                                     *)
LEMMA ReplyIs ==
  ASSUME RoomIsSound, NEW u \in Readers, NEW what \in Errands, NEW at \in Nat, at <= LastSeq \/ what # "older"
  PROVE  /\ Reply(u, what, at) \in CallRecord /\ Reply(u, what, at).pc = "read" /\ Reply(u, what, at).at = at
         /\ what = "open" => OpenSound(u, Reply(u, what, at))
         /\ what = "tick" => \A c : (c.state = "clean" => at = c.cursor) => TickSound(u, c, Reply(u, what, at))
         /\ what = "older" => \A c : OlderSound(u, c, Reply(u, what, at))
<1>1. /\ LastSeq \in Nat /\ room.version \in Nat /\ u \in Chatters /\ ChatPage \in Nat \ {0}
      /\ \A i \in 1 .. LastSeq : messages[i].version \in Nat /\ messages[i].version <= room.version
  BY MessageFields, ChatAssumption DEF RoomIsSound, RoomIsNewest
<1>2. CASE what = "tick"
  <2>1. PICK C : C = Changes(u, at)
    OBVIOUS
  <2>2. PICK v : v = NextCursor(u, at)
    OBVIOUS
  <2>3. PICK f : f = Versions(C)
    OBVIOUS
  <2>4. v \in Nat /\ v <= room.version /\ \A i \in Newer(u, at) : messages[i].version <= v => i \in C
    BY <1>1, <2>1, <2>2, PageGoesOn
  <2>5. C \in SUBSET (1 .. LastSeq) /\ \A i \in C : at < messages[i].version
    BY <1>1, <2>1 DEF Changes, Newer, Visible
  <2>6. /\ f \in Bodies /\ DOMAIN f = C /\ Behind(f)
        /\ \A i \in C : HoldsRow(f, i) /\ f[i] = messages[i].version
    BY <2>3, <2>5, RowsAre
  <2>7. PICK r : r = [pc |-> "read", at |-> at, next |-> v, from |-> 1, rows |-> f]
    OBVIOUS
  <2>8. Reply(u, what, at) = r
    BY <1>2, <2>1, <2>2, <2>3, <2>7 DEF Reply
  <2>9. r \in CallRecord
    BY <2>4, <2>6, <2>7 DEF CallRecord
  <2>10. \A i \in Visible(u) : at < messages[i].version /\ messages[i].version <= v => HoldsRow(f, i)
    BY <1>1, <2>4, <2>6 DEF Newer, Visible
  <2>11. \A c : (c.state = "clean" => at = c.cursor) => TickSound(u, c, r)
    BY <2>4, <2>5, <2>6, <2>7, <2>10 DEF TickSound
  <2>12. QED
    BY <1>2, <2>7, <2>8, <2>9, <2>11
<1>3. CASE what # "tick"
  <2>1. PICK S : S = IF what = "open" THEN Visible(u) ELSE {i \in Visible(u) : i < at}
    OBVIOUS
  <2>2. PICK T : T = Top(S, ChatPage)
    OBVIOUS
  <2>3. PICK z : z = Start(S, ChatPage)
    OBVIOUS
  <2>4. PICK f : f = Versions(T)
    OBVIOUS
  <2>5. S \in SUBSET (1 .. LastSeq)
    BY <2>1 DEF Visible
  <2>6. T \in SUBSET S /\ z \in Nat /\ \A i \in S : z <= i => i \in T
    BY <1>1, <2>2, <2>3, <2>5, TopIs, StartIs
  <2>7. T \in SUBSET (1 .. LastSeq)
    BY <2>5, <2>6
  <2>8. /\ f \in Bodies /\ DOMAIN f = T /\ Behind(f)
        /\ \A i \in T : HoldsRow(f, i)
    BY <2>4, <2>7, RowsAre
  <2>9. PICK r : r = [pc |-> "read", at |-> at, next |-> room.version, from |-> z, rows |-> f]
    OBVIOUS
  <2>10. Reply(u, what, at) = r
    BY <1>3, <2>1, <2>2, <2>3, <2>4, <2>9 DEF Reply
  <2>11. r \in CallRecord
    BY <1>1, <2>6, <2>8, <2>9 DEF CallRecord
  <2>12. CASE what = "open"
    <3>1. \A i \in Visible(u) : i \in T \/ z <= i => HoldsRow(f, i)
      BY <2>1, <2>6, <2>8, <2>12
    <3>2. OpenSound(u, r)
      BY <1>1, <2>8, <2>9, <3>1 DEF OpenSound, FollowsTo
    <3>3. QED
      BY <2>9, <2>10, <2>11, <2>12, <3>2
  <2>13. CASE what = "older"
    <3>1. \A i \in Visible(u) : z <= i /\ i < at => i \in T
      BY <2>1, <2>6, <2>13
    <3>2. \A c : OlderSound(u, c, r)
      BY <2>8, <2>9, <2>13, <3>1 DEF OlderSound
    <3>3. QED
      BY <2>9, <2>10, <2>11, <2>13, <3>2
  <2>14. QED
    BY <1>3, <2>12, <2>13 DEF Errands
<1>4. QED
  BY <1>2, <1>3

(* A browser as it is.                                                     *)
LEMMA BrowserIs ==
  ASSUME RoomIsSound, NEW u \in Readers
  PROVE  /\ copy[u] \in CopyRecord /\ calls[u] \in CallsRecord
         /\ \A what \in Errands : calls[u][what] \in CallRecord
         /\ CopySound(u, copy[u]) /\ OpenSound(u, calls[u]["open"])
         /\ TickSound(u, copy[u], calls[u]["tick"]) /\ OlderSound(u, copy[u], calls[u]["older"])
         /\ copy = [copy EXCEPT ![u] = copy[u]] /\ calls = [calls EXCEPT ![u] = calls[u]]
<1>1. copy[u] \in CopyRecord /\ calls[u] \in CallsRecord /\ \A what \in Errands : calls[u][what] \in CallRecord
  BY CopyFields DEF RoomIsSound
<1>2. copy = [copy EXCEPT ![u] = copy[u]] /\ calls = [calls EXCEPT ![u] = calls[u]]
  BY DEF RoomIsSound, ChatTyped
<1>3. QED
  BY <1>1, <1>2 DEF RoomIsSound, CopiesFollow, CopyKnows

(* Another state of a call, that is as right.                              *)
LEMMA CallStep ==
  ASSUME RoomIsSound, NEW u \in Readers, UNCHANGED <<room, member, messages, reports, copy>>,
         NEW what \in Errands, NEW a \in CallRecord, calls' = SetCall(u, what, a),
         what = "open" => OpenSound(u, a), what = "tick" => TickSound(u, copy[u], a),
         what = "older" => OlderSound(u, copy[u], a)
  PROVE  RoomIsSound'
<1>1. PICK d \in CallsRecord : /\ SetCall(u, what, a) = [calls EXCEPT ![u] = d]
                               /\ d[what] = a /\ \A w \in Errands \ {what} : d[w] = calls[u][w]
  BY OneCall
<1>2. OpenSound(u, d["open"]) /\ TickSound(u, copy[u], d["tick"]) /\ OlderSound(u, copy[u], d["older"])
  BY <1>1, BrowserIs DEF Errands
<1>3. PICK c \in CopyRecord : c = copy[u]
  BY BrowserIs
<1>4. calls' = [calls EXCEPT ![u] = d] /\ copy' = [copy EXCEPT ![u] = c]
  BY <1>1, <1>3, BrowserIs
<1>5. CopySound(u, c)
  BY <1>3, BrowserIs
<1>6. QED
  BY <1>2, <1>3, <1>4, <1>5, OneBrowser

(* Something is asked of the server.                                       *)
LEMMA AskStep ==
  ASSUME RoomIsSound, NEW u \in Readers, UNCHANGED <<room, member, messages, reports>>,
         AskOpen(u) \/ AskTick(u) \/ AskOlder(u)
  PROVE  RoomIsSound'
<1>1. PICK n : n = LastSeq
  OBVIOUS
<1>2. n \in Nat
  BY <1>1, MessageFields DEF RoomIsSound
<1>3. CASE AskOpen(u)
  <2>1. PICK a \in CallRecord : a = CallAt(0) /\ a.pc = "sent"
    BY CallIs
  <2>2. PICK d : d = [Quiet EXCEPT !["open"] = a]
    OBVIOUS
  <2>3. /\ d \in CallsRecord /\ d["open"] = a /\ d["tick"] = NoCall /\ d["older"] = NoCall
    BY <2>1, <2>2, NothingAsked DEF CallsRecord, Errands
  <2>4. OpenSound(u, d["open"]) /\ TickSound(u, copy[u], d["tick"]) /\ OlderSound(u, copy[u], d["older"])
    BY <2>1, <2>3, NothingAsked DEF OpenSound
  <2>5. calls' = [calls EXCEPT ![u] = d] /\ copy' = copy
    BY <1>3, <2>1, <2>2 DEF AskOpen
  <2>6. PICK c \in CopyRecord : c = copy[u] /\ CopySound(u, c)
    BY BrowserIs
  <2>7. copy' = [copy EXCEPT ![u] = c]
    BY <2>5, <2>6, BrowserIs
  <2>8. QED
    BY <2>3, <2>4, <2>5, <2>6, <2>7, OneBrowser
<1>4. CASE AskTick(u)
  <2>1. PICK z \in Nat : z = copy[u].cursor
    BY BrowserIs DEF CopyRecord
  <2>2. PICK a \in CallRecord : a = CallAt(z) /\ a.pc = "sent" /\ a.at = z
    BY CallIs
  <2>3. TickSound(u, copy[u], a)
    BY <2>1, <2>2 DEF TickSound
  <2>4. calls' = SetCall(u, "tick", a) /\ copy' = copy
    BY <1>4, <2>1, <2>2 DEF AskTick
  <2>5. QED
    BY <2>3, <2>4, CallStep DEF Errands
<1>5. CASE AskOlder(u)
  <2>1. PICK S : S = DOMAIN copy[u].held
    OBVIOUS
  <2>2. S \in SUBSET (1 .. n) /\ S # {}
    BY <1>1, <1>5, <2>1, BrowserIs DEF AskOlder, CopySound, Behind
  <2>3. PICK z \in S : z = Oldest(S)
    BY <1>2, <2>2, OldestIs
  <2>4. z \in Nat /\ z <= n
    BY <1>2, <2>2
  <2>5. PICK a \in CallRecord : a = CallAt(z) /\ a.pc = "sent" /\ a.at = z
    BY <2>4, CallIs
  <2>6. OlderSound(u, copy[u], a)
    BY <1>1, <2>4, <2>5 DEF OlderSound
  <2>7. calls' = SetCall(u, "older", a) /\ copy' = copy
    BY <1>5, <2>1, <2>3, <2>5 DEF AskOlder
  <2>8. QED
    BY <2>6, <2>7, CallStep DEF Errands
<1>6. QED
  BY <1>3, <1>4, <1>5

(* The server answers, or refuses.                                         *)
LEMMA LookStep ==
  ASSUME RoomIsSound, NEW u \in Readers, UNCHANGED <<room, member, messages, reports>>,
         NEW what \in Errands, Look(u, what)
  PROVE  RoomIsSound'
<1>1. PICK b \in CallRecord : b = calls[u][what]
  BY BrowserIs
<1>2. b.pc = "sent" /\ b.at \in Nat /\ copy' = copy
  BY <1>1 DEF Look, CallRecord
<1>3. CASE Active(u)
  <2>1. b.at <= LastSeq \/ what # "older"
    BY <1>1, BrowserIs DEF OlderSound
  <2>2. what = "tick" => (copy[u].state = "clean" => b.at = copy[u].cursor)
    BY <1>1, <1>2, BrowserIs DEF TickSound
  <2>3. PICK a : a = Reply(u, what, b.at)
    OBVIOUS
  <2>4. /\ a \in CallRecord
        /\ what = "open" => OpenSound(u, a)
        /\ what = "tick" => TickSound(u, copy[u], a)
        /\ what = "older" => OlderSound(u, copy[u], a)
    BY <1>2, <2>1, <2>2, <2>3, ReplyIs
  <2>5. calls' = SetCall(u, what, a)
    BY <1>1, <1>3, <2>3 DEF Look
  <2>6. QED
    BY <1>2, <2>4, <2>5, CallStep
<1>4. CASE ~Active(u)
  <2>1. PICK a : a = [b EXCEPT !.pc = "refused"]
    OBVIOUS
  <2>2. a \in CallRecord /\ a.pc = "refused" /\ a.at = b.at
    BY <2>1 DEF CallRecord
  <2>3. calls' = SetCall(u, what, a)
    BY <1>1, <1>4, <2>1 DEF Look
  <2>4. what = "open" => OpenSound(u, a)
    BY <2>2 DEF OpenSound
  <2>5. what = "tick" => TickSound(u, copy[u], a)
    BY <1>1, <1>2, <2>2, BrowserIs DEF TickSound
  <2>6. what = "older" => OlderSound(u, copy[u], a)
    BY <1>1, <2>2, BrowserIs DEF OlderSound
  <2>7. QED
    BY <1>2, <2>2, <2>3, <2>4, <2>5, <2>6, CallStep
<1>5. QED
  BY <1>3, <1>4

(* A copy that is not shown, or mixed, need only be behind.                *)
LEMMA LoseStep ==
  ASSUME RoomIsSound, NEW u \in Readers, UNCHANGED <<room, member, messages, reports>>,
         NEW what \in Errands, Lose(u, what)
  PROVE  RoomIsSound'
<1>1. CASE what # "open"
  <2>1. copy' = copy /\ calls' = SetCall(u, what, NoCall)
    BY <1>1 DEF Lose
  <2>2. QED
    BY <1>1, <2>1, NothingAsked, CallStep
<1>2. CASE what = "open"
  <2>1. PICK c : c = [copy[u] EXCEPT !.state = "none"]
    OBVIOUS
  <2>2. c \in CopyRecord /\ c.state = "none" /\ c.held = copy[u].held
    BY <2>1, BrowserIs DEF CopyRecord
  <2>3. copy' = [copy EXCEPT ![u] = c] /\ calls' = SetCall(u, "open", NoCall)
    BY <1>2, <2>1 DEF Lose
  <2>4. PICK d \in CallsRecord : /\ SetCall(u, "open", NoCall) = [calls EXCEPT ![u] = d]
                                 /\ d["open"] = NoCall /\ \A w \in Errands \ {"open"} : d[w] = calls[u][w]
    BY NothingAsked, OneCall DEF Errands
  <2>5. d["tick"] = calls[u]["tick"] /\ d["older"] = calls[u]["older"]
    BY <2>4 DEF Errands
  <2>6. CopySound(u, c)
    BY <2>2, BrowserIs DEF CopySound
  <2>7. OpenSound(u, d["open"])
    BY <2>4, NothingAsked
  <2>8. TickSound(u, c, d["tick"])
    BY <2>2, <2>5, BrowserIs DEF TickSound
  <2>9. OlderSound(u, c, d["older"])
    BY <2>2, <2>5, BrowserIs DEF OlderSound
  <2>10. calls' = [calls EXCEPT ![u] = d]
    BY <2>3, <2>4
  <2>11. QED
    BY <2>2, <2>3, <2>6, <2>7, <2>8, <2>9, <2>10, OneBrowser
<1>3. QED
  BY <1>1, <1>2

(* The room opens.                                                         *)
LEMMA ReceiveOpenStep ==
  ASSUME RoomIsSound, NEW u \in Readers, UNCHANGED <<room, member, messages, reports>>, ReceiveOpen(u)
  PROVE  RoomIsSound'
<1>1. PICK a \in CallRecord : a = calls[u]["open"]
  BY BrowserIs DEF Errands
<1>2. a.pc = "read" /\ OpenSound(u, a)
  BY <1>1, BrowserIs DEF ReceiveOpen
<1>3. PICK s : s = IF calls[u]["tick"].pc = "none" /\ calls[u]["older"].pc = "none" THEN "clean" ELSE "mixed"
  OBVIOUS
<1>4. PICK c : c = [state |-> s, cursor |-> a.next, from |-> a.from, held |-> a.rows]
  OBVIOUS
<1>5. c \in CopyRecord /\ s \in {"clean", "mixed"}
  BY <1>3, <1>4 DEF CallRecord, CopyRecord
<1>6. copy' = [copy EXCEPT ![u] = c] /\ calls' = SetCall(u, "open", NoCall)
  BY <1>1, <1>3, <1>4 DEF ReceiveOpen, Shown
<1>7. PICK d \in CallsRecord : /\ SetCall(u, "open", NoCall) = [calls EXCEPT ![u] = d]
                               /\ d["open"] = NoCall /\ \A w \in Errands \ {"open"} : d[w] = calls[u][w]
  BY NothingAsked, OneCall DEF Errands
<1>8. d["tick"] = calls[u]["tick"] /\ d["older"] = calls[u]["older"]
  BY <1>7 DEF Errands
<1>9. CopySound(u, c)
  BY <1>2, <1>4 DEF CopySound, OpenSound
<1>10. OpenSound(u, d["open"])
  BY <1>7, NothingAsked
<1>11. TickSound(u, c, d["tick"])
  BY <1>3, <1>4, <1>8, BrowserIs DEF TickSound
<1>12. OlderSound(u, c, d["older"])
  BY <1>3, <1>4, <1>8, BrowserIs DEF OlderSound
<1>13. calls' = [calls EXCEPT ![u] = d]
  BY <1>6, <1>7
<1>14. QED
  BY <1>5, <1>6, <1>9, <1>10, <1>11, <1>12, <1>13, OneBrowser

(* With what a tick brings, a copy is right up to the new cursor.          *)
LEMMA TickBrings ==
  ASSUME RoomIsSound, NEW u \in Readers, NEW a, a = calls[u]["tick"], a.pc = "read", NEW f,
         f = Merged(copy[u].held, a.rows)
  PROVE  /\ f \in Bodies /\ Behind(f) /\ DOMAIN f \in SUBSET (1 .. LastSeq)
         /\ copy[u].state = "clean" => FollowsTo(u, f, a.next, copy[u].from)
         /\ copy[u].state = "clean" /\ calls[u]["older"].pc = "read" =>
              \A i \in Visible(u) : i \in DOMAIN calls[u]["older"].rows /\ messages[i].version <= a.next =>
                HoldsRow(calls[u]["older"].rows, i) \/ HoldsRow(f, i)
<1>1. PICK c \in CopyRecord : c = copy[u] /\ CopySound(u, c)
  BY BrowserIs
<1>2. PICK l \in CallRecord : l = calls[u]["older"] /\ OlderSound(u, c, l)
  BY <1>1, BrowserIs DEF Errands
<1>3. a \in CallRecord /\ TickSound(u, c, a)
  BY <1>1, BrowserIs DEF Errands
<1>4. c.held \in Bodies /\ a.rows \in Bodies /\ Behind(c.held) /\ Behind(a.rows) /\ a.at \in Nat /\ a.next \in Nat
  BY <1>1, <1>3 DEF CopyRecord, CallRecord, CopySound, TickSound
<1>5. /\ f \in Bodies /\ Behind(f) /\ DOMAIN f = DOMAIN c.held \cup DOMAIN a.rows
      /\ \A i \in 1 .. LastSeq : HoldsRow(c.held, i) \/ HoldsRow(a.rows, i) => HoldsRow(f, i)
  BY <1>1, <1>4, MergedIs
<1>6. \A i \in 1 .. LastSeq : messages[i].version \in Nat
  BY MessageFields DEF RoomIsSound
<1>7. \A i \in Visible(u) : i \in 1 .. LastSeq
  BY DEF Visible
<1>8. ASSUME c.state = "clean", NEW i \in Visible(u), messages[i].version <= a.next,
             i \in DOMAIN f \/ c.from <= i
      PROVE  HoldsRow(f, i)
  <2>1. CASE a.at < messages[i].version
    BY <1>3, <1>5, <1>7, <1>8, <2>1 DEF TickSound
  <2>2. CASE ~(a.at < messages[i].version)
    <3>1. messages[i].version <= c.cursor /\ a.at = c.cursor
      BY <1>3, <1>4, <1>6, <1>7, <1>8, <2>2 DEF TickSound
    <3>2. i \notin DOMAIN a.rows
      <4>1. ASSUME i \in DOMAIN a.rows PROVE FALSE
        <5>1. a.rows[i] \in Nat
          BY <1>4, <4>1, BodyIs
        <5>2. a.at < a.rows[i] /\ a.rows[i] <= messages[i].version
          BY <1>3, <4>1 DEF TickSound, Behind
        <5>3. QED
          BY <1>4, <1>6, <1>7, <2>2, <5>1, <5>2
      <4>2. QED
        BY <4>1
    <3>3. i \in DOMAIN c.held \/ c.from <= i
      BY <1>5, <1>8, <3>2
    <3>4. HoldsRow(c.held, i)
      BY <1>1, <1>8, <3>1, <3>3 DEF CopySound, FollowsTo
    <3>5. QED
      BY <1>5, <1>7, <3>4
  <2>3. QED
    BY <2>1, <2>2
<1>9. ASSUME c.state = "clean", l.pc = "read", NEW i \in Visible(u), i \in DOMAIN l.rows, messages[i].version <= a.next
      PROVE  HoldsRow(l.rows, i) \/ HoldsRow(f, i)
  <2>1. CASE a.at < messages[i].version
    BY <1>3, <1>5, <1>7, <1>9, <2>1 DEF TickSound
  <2>2. CASE ~(a.at < messages[i].version)
    <3>1. messages[i].version <= c.cursor
      BY <1>3, <1>4, <1>6, <1>7, <1>9, <2>2 DEF TickSound
    <3>2. QED
      BY <1>2, <1>5, <1>7, <1>9, <3>1 DEF OlderSound
  <2>3. QED
    BY <2>1, <2>2
<1>10. a.next <= room.version
  BY <1>3 DEF TickSound
<1>11. QED
  BY <1>1, <1>2, <1>5, <1>8, <1>9, <1>10 DEF FollowsTo, Behind

(* Changes arrive, and the copy may be trimmed.                            *)
LEMMA ReceiveTickStep ==
  ASSUME RoomIsSound, NEW u \in Readers, UNCHANGED <<room, member, messages, reports>>, ReceiveTick(u)
  PROVE  RoomIsSound'
<1>1. PICK a \in CallRecord : a = calls[u]["tick"]
  BY BrowserIs DEF Errands
<1>2. PICK c \in CopyRecord : c = copy[u]
  BY BrowserIs
<1>3. PICK l \in CallRecord : l = calls[u]["older"] /\ OlderSound(u, c, l)
  BY <1>2, BrowserIs DEF Errands
<1>4. PICK f : f = Merged(c.held, a.rows)
  OBVIOUS
<1>5. PICK S : S = Top(DOMAIN f, CopyLimit)
  OBVIOUS
<1>6. a.pc = "read" /\ calls' = SetCall(u, "tick", NoCall)
  BY <1>1 DEF ReceiveTick
<1>7. /\ f \in Bodies /\ Behind(f) /\ DOMAIN f \in SUBSET (1 .. LastSeq)
      /\ c.state = "clean" => FollowsTo(u, f, a.next, c.from)
      /\ c.state = "clean" /\ l.pc = "read" =>
           \A i \in Visible(u) : i \in DOMAIN l.rows /\ messages[i].version <= a.next =>
             HoldsRow(l.rows, i) \/ HoldsRow(f, i)
  BY <1>1, <1>2, <1>3, <1>4, <1>6, TickBrings
<1>8. PICK d \in CallsRecord : /\ SetCall(u, "tick", NoCall) = [calls EXCEPT ![u] = d]
                               /\ d["tick"] = NoCall /\ \A w \in Errands \ {"tick"} : d[w] = calls[u][w]
  BY NothingAsked, OneCall DEF Errands
<1>9. d["open"] = calls[u]["open"] /\ d["older"] = l
  BY <1>3, <1>8 DEF Errands
<1>10. calls' = [calls EXCEPT ![u] = d] /\ OpenSound(u, d["open"]) /\ \A x : TickSound(u, x, d["tick"])
  BY <1>6, <1>8, <1>9, BrowserIs, NothingAsked
<1>11. a.next \in Nat /\ c.from \in Nat
  BY DEF CallRecord, CopyRecord
<1>12. CASE copy' = [copy EXCEPT ![u] = Shown(c.state = "clean", a.next, c.from, f)]
  <2>1. PICK s : s = IF c.state = "clean" THEN "clean" ELSE "mixed"
    OBVIOUS
  <2>2. PICK x : x = [state |-> s, cursor |-> a.next, from |-> c.from, held |-> f]
    OBVIOUS
  <2>3. x \in CopyRecord /\ (s = "clean" => c.state = "clean")
    BY <1>7, <1>11, <2>1, <2>2 DEF CopyRecord
  <2>4. copy' = [copy EXCEPT ![u] = x]
    BY <1>12, <2>1, <2>2 DEF Shown
  <2>5. CopySound(u, x)
    BY <1>7, <2>2, <2>3 DEF CopySound
  <2>6. OlderSound(u, x, l)
    BY <1>3, <1>7, <2>2, <2>3 DEF OlderSound
  <2>7. QED
    BY <1>9, <1>10, <2>3, <2>4, <2>5, <2>6, OneBrowser
<1>13. CASE /\ S # DOMAIN f
            /\ copy' = [copy EXCEPT ![u] =
                 Shown(c.state = "clean" /\ l.pc = "none", a.next,
                       IF c.from < Oldest(S) THEN Oldest(S) ELSE c.from, [i \in S |-> f[i]])]
  <2>1. PICK n : n = LastSeq
    OBVIOUS
  <2>2. n \in Nat /\ CopyLimit \in Nat \ {0} /\ DOMAIN f \in SUBSET (1 .. n)
    BY <1>7, <2>1, MessageFields, ChatAssumption DEF RoomIsSound
  <2>3. /\ S \in SUBSET DOMAIN f /\ (DOMAIN f # {} => S # {})
        /\ \A i \in S, j \in DOMAIN f : i <= j => j \in S
    BY <1>5, <2>2, TopIs
  <2>4. S # {} /\ S \in SUBSET (1 .. n)
    BY <1>13, <2>2, <2>3
  <2>5. PICK m \in S : m = Oldest(S) /\ \A i \in S : m <= i
    BY <2>2, <2>4, OldestIs
  <2>6. PICK z : z = IF c.from < m THEN m ELSE c.from
    OBVIOUS
  <2>7. PICK g : g = [i \in S |-> f[i]]
    OBVIOUS
  <2>8. PICK s : s = IF c.state = "clean" /\ l.pc = "none" THEN "clean" ELSE "mixed"
    OBVIOUS
  <2>9. PICK x : x = [state |-> s, cursor |-> a.next, from |-> z, held |-> g]
    OBVIOUS
  <2>10. DOMAIN g = S /\ (\A i \in S : g[i] = f[i]) /\ g \in Bodies
    <3>1. \A i \in S : f[i] \in Nat
      BY <1>7, <2>3 DEF Bodies
    <3>2. g \in [S -> Nat] /\ S \in SUBSET Nat
      BY <2>4, <2>7, <3>1
    <3>3. QED
      BY <2>7, <3>2 DEF Bodies
  <2>11. m \in Nat /\ z \in Nat /\ m <= z /\ c.from <= z
    BY <1>11, <2>2, <2>4, <2>6
  <2>12. x \in CopyRecord /\ (s = "clean" => c.state = "clean" /\ l.pc = "none")
    BY <1>11, <2>8, <2>9, <2>10, <2>11 DEF CopyRecord
  <2>13. copy' = [copy EXCEPT ![u] = x]
    BY <1>13, <2>5, <2>6, <2>7, <2>8, <2>9 DEF Shown
  <2>14. Behind(g)
    BY <1>7, <2>3, <2>10 DEF Behind
  <2>15. ASSUME s = "clean", NEW i \in Visible(u), messages[i].version <= a.next, i \in S \/ z <= i
         PROVE  HoldsRow(g, i)
    <3>1. i \in DOMAIN f \/ c.from <= i
      BY <1>11, <2>3, <2>11, <2>15 DEF Visible
    <3>2. HoldsRow(f, i)
      BY <1>7, <2>12, <2>15, <3>1 DEF FollowsTo
    <3>3. i \in S
      BY <2>1, <2>2, <2>3, <2>5, <2>11, <2>15, <3>2 DEF HoldsRow, Visible
    <3>4. QED
      BY <2>10, <3>2, <3>3 DEF HoldsRow
  <2>16. s = "clean" => a.next <= room.version
    BY <1>7, <2>12 DEF FollowsTo
  <2>17. CopySound(u, x)
    BY <2>9, <2>10, <2>14, <2>15, <2>16 DEF CopySound, FollowsTo
  <2>18. OlderSound(u, x, l)
    BY <1>3, <2>9, <2>12 DEF OlderSound
  <2>19. QED
    BY <1>9, <1>10, <2>12, <2>13, <2>17, <2>18, OneBrowser
<1>14. QED
  BY <1>1, <1>2, <1>3, <1>4, <1>5, <1>12, <1>13 DEF ReceiveTick

(* An older page arrives; where the copy began, it now begins earlier.     *)
LEMMA ReceiveOlderStep ==
  ASSUME RoomIsSound, NEW u \in Readers, UNCHANGED <<room, member, messages, reports>>, ReceiveOlder(u)
  PROVE  RoomIsSound'
<1>1. PICK c \in CopyRecord : c = copy[u] /\ CopySound(u, c)
  BY BrowserIs
<1>2. PICK a \in CallRecord : a = calls[u]["older"] /\ OlderSound(u, c, a)
  BY <1>1, BrowserIs DEF Errands
<1>3. PICK f : f = Merged(a.rows, c.held)
  OBVIOUS
<1>4. PICK z : z = IF c.from <= a.at /\ a.from < c.from THEN a.from ELSE c.from
  OBVIOUS
<1>5. PICK x : x = [c EXCEPT !.held = f, !.from = z]
  OBVIOUS
<1>6. a.pc = "read" /\ calls' = SetCall(u, "older", NoCall) /\ copy' = [copy EXCEPT ![u] = x]
  BY <1>1, <1>2, <1>3, <1>4, <1>5 DEF ReceiveOlder
<1>7. /\ a.rows \in Bodies /\ c.held \in Bodies /\ Behind(a.rows) /\ Behind(c.held)
      /\ a.at \in Nat /\ a.from \in Nat /\ c.from \in Nat /\ c.cursor \in Nat
  BY <1>1, <1>2, <1>6 DEF CopyRecord, CallRecord, CopySound, OlderSound
<1>8. /\ f \in Bodies /\ Behind(f) /\ DOMAIN f = DOMAIN a.rows \cup DOMAIN c.held
      /\ \A i \in 1 .. LastSeq : HoldsRow(a.rows, i) \/ HoldsRow(c.held, i) => HoldsRow(f, i)
  BY <1>3, <1>7, MergedIs
<1>9. x \in CopyRecord /\ x.state = c.state /\ x.cursor = c.cursor /\ x.from = z /\ x.held = f
  BY <1>4, <1>5, <1>7, <1>8 DEF CopyRecord
<1>10. ASSUME c.state = "clean", NEW i \in Visible(u), messages[i].version <= c.cursor, i \in DOMAIN f \/ z <= i
       PROVE  HoldsRow(f, i)
  <2>1. i \in 1 .. LastSeq /\ i \in Nat
    BY MessageFields DEF Visible, RoomIsSound
  <2>2. i \in DOMAIN a.rows \/ i \in DOMAIN c.held \/ c.from <= i
    <3>1. CASE z = c.from
      BY <1>8, <1>10, <3>1
    <3>2. CASE z # c.from
      <4>1. c.from <= a.at /\ z = a.from
        BY <1>4, <3>2
      <4>2. \A j \in Visible(u) : a.from <= j /\ j < a.at => j \in DOMAIN a.rows
        BY <1>2, <1>6 DEF OlderSound
      <4>3. z <= i => i \in DOMAIN a.rows \/ c.from <= i
        BY <1>7, <2>1, <4>1, <4>2
      <4>4. QED
        BY <1>8, <1>10, <4>3
    <3>3. QED
      BY <3>1, <3>2
  <2>3. CASE i \in DOMAIN a.rows
    BY <1>2, <1>6, <1>8, <1>10, <2>1, <2>3 DEF OlderSound
  <2>4. CASE i \in DOMAIN c.held \/ c.from <= i
    BY <1>1, <1>8, <1>10, <2>1, <2>4 DEF CopySound, FollowsTo
  <2>5. QED
    BY <2>2, <2>3, <2>4
<1>11. CopySound(u, x)
  BY <1>1, <1>8, <1>9, <1>10 DEF CopySound, FollowsTo
<1>12. PICK d \in CallsRecord : /\ SetCall(u, "older", NoCall) = [calls EXCEPT ![u] = d]
                                /\ d["older"] = NoCall /\ \A w \in Errands \ {"older"} : d[w] = calls[u][w]
  BY NothingAsked, OneCall DEF Errands
<1>13. d["open"] = calls[u]["open"] /\ d["tick"] = calls[u]["tick"] /\ calls' = [calls EXCEPT ![u] = d]
  BY <1>6, <1>12 DEF Errands
<1>14. OpenSound(u, d["open"]) /\ OlderSound(u, x, d["older"])
  BY <1>12, <1>13, BrowserIs, NothingAsked
<1>15. TickSound(u, x, d["tick"])
  BY <1>1, <1>9, <1>13, BrowserIs DEF TickSound
<1>16. QED
  BY <1>6, <1>9, <1>11, <1>13, <1>14, <1>15, OneBrowser

(* The room is shown no more.                                              *)
LEMMA ForgetStep ==
  ASSUME RoomIsSound, NEW u \in Readers, UNCHANGED <<room, member, messages, reports>>, Forget(u)
  PROVE  RoomIsSound'
<1>1. PICK c : c = NoCopy
  OBVIOUS
<1>2. c \in CopyRecord /\ c.state = "none" /\ DOMAIN c.held = {}
  <2>1. <<>> \in [{} -> Nat] /\ DOMAIN <<>> = {}
    OBVIOUS
  <2>2. <<>> \in Bodies
    BY <2>1 DEF Bodies
  <2>3. QED
    BY <1>1, <2>1, <2>2 DEF NoCopy, CopyRecord
<1>3. copy' = [copy EXCEPT ![u] = c] /\ CopySound(u, c)
  BY <1>1, <1>2 DEF Forget, CopySound, Behind
<1>4. \A t : TickSound(u, copy[u], t) => TickSound(u, c, t)
  BY <1>2 DEF TickSound
<1>5. \A l : OlderSound(u, copy[u], l) => OlderSound(u, c, l)
  BY <1>2 DEF OlderSound
<1>6. CASE calls' = [calls EXCEPT ![u] = Quiet]
  <2>1. PICK d \in CallsRecord : d = Quiet
    BY NothingAsked
  <2>2. OpenSound(u, d["open"]) /\ TickSound(u, c, d["tick"]) /\ OlderSound(u, c, d["older"])
    BY <2>1, NothingAsked DEF Errands
  <2>3. QED
    BY <1>2, <1>3, <1>6, <2>1, <2>2, OneBrowser
<1>7. CASE calls' = calls
  <2>1. PICK d \in CallsRecord : d = calls[u]
    BY BrowserIs
  <2>2. OpenSound(u, d["open"]) /\ TickSound(u, c, d["tick"]) /\ OlderSound(u, c, d["older"])
    BY <1>4, <1>5, <2>1, BrowserIs
  <2>3. calls' = [calls EXCEPT ![u] = d]
    BY <1>7, <2>1, BrowserIs
  <2>4. QED
    BY <1>2, <1>3, <2>2, <2>3, OneBrowser
<1>8. CASE calls' = SetCall(u, "tick", NoCall)
  <2>1. PICK d \in CallsRecord : /\ SetCall(u, "tick", NoCall) = [calls EXCEPT ![u] = d]
                                 /\ d["tick"] = NoCall /\ \A w \in Errands \ {"tick"} : d[w] = calls[u][w]
    BY NothingAsked, OneCall DEF Errands
  <2>2. d["open"] = calls[u]["open"] /\ d["older"] = calls[u]["older"] /\ calls' = [calls EXCEPT ![u] = d]
    BY <1>8, <2>1 DEF Errands
  <2>3. OpenSound(u, d["open"]) /\ TickSound(u, c, d["tick"]) /\ OlderSound(u, c, d["older"])
    BY <1>5, <2>1, <2>2, BrowserIs, NothingAsked
  <2>4. QED
    BY <1>2, <1>3, <2>2, <2>3, OneBrowser
<1>9. QED
  BY <1>6, <1>7, <1>8 DEF Forget

(* Whatever a browser does.                                                *)
LEMMA BrowseStep == ASSUME RoomIsSound, NEW u \in Readers, Browse(u) PROVE RoomIsSound'
<1>1. UNCHANGED <<room, member, messages, reports>>
  BY DEF Browse
<1>2. CASE AskOpen(u) \/ AskTick(u) \/ AskOlder(u)
  BY <1>1, <1>2, AskStep
<1>3. CASE \E what \in Errands : Look(u, what) \/ Lose(u, what)
  BY <1>1, <1>3, LookStep, LoseStep
<1>4. QED
  BY <1>1, <1>2, <1>3, ReceiveOpenStep, ReceiveTickStep, ReceiveOlderStep, ForgetStep DEF Browse
-----------------------------------------------------------------------------
(* Commands that move members, but seat nobody.                            *)
LEMMA CalmStep ==
  ASSUME RoomIsSound, ChatTyped', messages' = messages, UNCHANGED <<copy, calls>>, room'.version = room.version,
         \A v \in Chatters : Stays(v) \/ Comes(v) \/ HasRead(v),
         Seated' \subseteq Seated, room'.kind = room.kind, room.kind # "none", room'.owner \in Chatters,
         room.kind = "group" =>
           /\ ~room'.closed => member'[room'.owner].state = "active"
           /\ room'.closed => \A v \in Chatters : member'[v].state # "invited"
  PROVE  RoomIsSound'
<1>1. RoomIsNewest' /\ UnreadFollows' /\ CopiesFollow'
  BY MembersMove
<1>2. SilentBefore'
  BY DEF SilentBefore
<1>3. IsFiniteSet(Seated') /\ Cardinality(Seated') <= Cardinality(Seated)
      /\ Cardinality(Seated') \in Nat /\ Cardinality(Seated) \in Nat
  BY FS_Subset, FS_CardinalityType DEF RoomIsSound, RoomIsHeld
<1>4. RoomIsHeld'
  <2>1. room.kind = "group" => Cardinality(Seated) <= Seats
    BY DEF RoomIsSound, RoomIsHeld, RoomIsRuled
  <2>2. room.kind = "group" => Cardinality(Seated') <= Seats
    BY <1>3, <2>1, ChatAssumption
  <2>3. QED
    BY <1>3, <2>2 DEF RoomIsHeld, RoomIsRuled, Active
<1>5. QED
  BY <1>1, <1>2, <1>4 DEF RoomIsSound

(* Commands that leave room, members and messages alone.                   *)
LEMMA StillStep ==
  ASSUME RoomIsSound, UNCHANGED <<room, member, messages, copy, calls>>, reports' \subseteq 1 .. LastSeq
  PROVE  RoomIsSound'
<1>1. LastSeq' = LastSeq /\ Seated' = Seated
  BY DEF LastSeq, Seated
<1>2. ChatTyped'
  BY <1>1 DEF RoomIsSound, ChatTyped
<1>3. SilentBefore' /\ RoomIsNewest'
  BY <1>1 DEF RoomIsSound, SilentBefore, RoomIsNewest
<1>4. UnreadFollows'
  BY <1>1 DEF RoomIsSound, UnreadFollows, UnreadCounts, Unseen, Active
<1>5. CopiesFollow'
  BY <1>1, <1>2, MessageFields, BrowsersKeep DEF RoomIsSound
<1>6. RoomIsHeld'
  BY <1>1 DEF RoomIsSound, RoomIsHeld, RoomIsRuled, Active
<1>7. QED
  BY <1>2, <1>3, <1>4, <1>5, <1>6 DEF RoomIsSound

(* Whoever is somebody is in a room.                                       *)
LEMMA InARoom ==
  ASSUME RoomIsSound
  PROVE  /\ \A v \in Chatters : member[v].state # "none" => room.kind # "none"
         /\ \A i \in 1 .. LastSeq : room.kind # "none"
<1>1. \A v \in Chatters : member[v].state # "none" => room.kind # "none"
  BY DEF RoomIsSound, SilentBefore, Outside
<1>2. ASSUME NEW i \in 1 .. LastSeq PROVE room.kind # "none"
  <2>1. messages = <<>> => LastSeq = 0
    BY DEF LastSeq
  <2>2. QED
    BY <1>2, <2>1 DEF RoomIsSound, SilentBefore
<1>3. QED
  BY <1>1, <1>2

(* A message that is emptied.                                              *)
LEMMA RedactStep ==
  ASSUME RoomIsSound, NEW i \in 1 .. LastSeq, Redact(i), member' = member, UNCHANGED <<copy, calls>>,
         reports' \subseteq 1 .. LastSeq
  PROVE  RoomIsSound'
<1>1. PICK w : w = room.version + 1
  OBVIOUS
<1>2. room \in RoomRecord /\ messages \in Seq(MessageRecord) /\ LastSeq \in Nat /\ w \in Nat \ {0}
  BY <1>1, MessageFields DEF RoomIsSound, ChatTyped
<1>3. room' \in RoomRecord /\ room'.kind = room.kind /\ room'.owner = room.owner /\ room'.closed = room.closed
  <2>1. room' = [room EXCEPT !.version = w]
    BY <1>1, <1>2 DEF Redact, RoomRecord
  <2>2. QED
    BY <1>2, <2>1 DEF RoomRecord
<1>4. messages' \in Seq(MessageRecord) /\ LastSeq' = LastSeq
  <2>1. PICK t \in Truth : t = TRUE
    BY Zenon DEF Truth
  <2>2. messages[i] \in MessageRecord
    BY <1>2 DEF LastSeq
  <2>3. messages' = [messages EXCEPT ![i] = [messages[i] EXCEPT !.removed = t, !.version = w]]
    BY <1>1, <1>2, <2>1, <2>2 DEF Redact, LastSeq, MessageRecord
  <2>4. [messages[i] EXCEPT !.removed = t, !.version = w] \in MessageRecord
    BY <1>2, <2>1, <2>2 DEF MessageRecord
  <2>5. QED
    BY <1>2, <2>3, <2>4 DEF LastSeq
<1>5. ChatTyped'
  BY <1>3, <1>4 DEF RoomIsSound, ChatTyped
<1>6. RoomIsNewest' /\ UnreadFollows' /\ CopiesFollow'
  BY <1>5, RedactMoves
<1>7. SilentBefore'
  BY <1>3, InARoom DEF SilentBefore
<1>8. RoomIsHeld'
  <2>1. Seated' = Seated
    BY DEF Seated
  <2>2. QED
    BY <1>3, <2>1 DEF RoomIsSound, RoomIsHeld, RoomIsRuled, Active
<1>9. QED
  BY <1>5, <1>6, <1>7, <1>8 DEF RoomIsSound

(* A message that is sent.                                                 *)
LEMMA SendStep ==
  ASSUME RoomIsSound, NEW u \in Chatters, NEW k \in Chatters \X Nat, Send(u, k), UNCHANGED <<copy, calls>>
  PROVE  RoomIsSound'
<1>1. PICK w : w = room.version + 1
  OBVIOUS
<1>2. room \in RoomRecord /\ messages \in Seq(MessageRecord) /\ LastSeq \in Nat /\ w \in Nat \ {0}
  BY <1>1, MessageFields DEF RoomIsSound, ChatTyped
<1>3. room' \in RoomRecord /\ room'.kind = room.kind /\ room'.owner = room.owner /\ room'.closed = room.closed
  <2>1. room' = [room EXCEPT !.version = w]
    BY <1>1, <1>2 DEF Send, RoomRecord
  <2>2. QED
    BY <1>2, <2>1 DEF RoomRecord
<1>4. messages' \in Seq(MessageRecord) /\ LastSeq' = LastSeq + 1
  <2>1. PICK t \in Truth : t = FALSE
    BY Zenon DEF Truth
  <2>2. PICK m : m = [sender |-> u, removed |-> t, version |-> w, key |-> k]
    OBVIOUS
  <2>3. messages' = Append(messages, m)
    BY <1>1, <2>1, <2>2, Zenon DEF Send
  <2>4. m \in MessageRecord
    BY <1>2, <2>1, <2>2 DEF MessageRecord
  <2>5. QED
    BY <1>2, <2>3, <2>4 DEF LastSeq
<1>5. ASSUME NEW v \in Chatters
      PROVE  member'[v] \in MemberRecord /\ member'[v].state = member[v].state
  <2>1. PICK m : m = member[v].unread + 1
    OBVIOUS
  <2>2. member[v] \in MemberRecord /\ m \in Nat
    BY <2>1, MemberFields DEF RoomIsSound
  <2>3. member'[v] = [member[v] EXCEPT !.unread = m] \/ member'[v] = member[v]
    BY <2>1, <2>2 DEF Send, MemberRecord
  <2>4. QED
    BY <2>2, <2>3 DEF MemberRecord
<1>6. ChatTyped'
  <2>1. member' \in [Chatters -> MemberRecord]
    <3>1. PICK f : f = member'
      OBVIOUS
    <3>2. f = [v \in Chatters |-> f[v]]
      BY <3>1 DEF Send
    <3>3. QED
      BY <1>5, <3>1, <3>2
  <2>2. reports' \subseteq 1 .. LastSeq'
    BY <1>2, <1>4 DEF RoomIsSound, ChatTyped, Send
  <2>3. QED
    BY <1>3, <1>4, <2>1, <2>2 DEF RoomIsSound, ChatTyped
<1>7. RoomIsNewest' /\ UnreadFollows' /\ CopiesFollow'
  BY <1>6, SendMoves
<1>8. SilentBefore'
  <2>1. room.kind # "none"
    BY InARoom DEF Send, Active
  <2>2. QED
    BY <1>3, <2>1 DEF SilentBefore
<1>9. RoomIsHeld'
  <2>1. Seated' = Seated
    BY <1>5 DEF Seated
  <2>2. QED
    BY <1>3, <1>5, <2>1 DEF RoomIsSound, RoomIsHeld, RoomIsRuled, Active
<1>10. QED
  BY <1>6, <1>7, <1>8, <1>9 DEF RoomIsSound

(* A member as one command leaves him, and the others as they were.        *)
LEMMA OneMember ==
  ASSUME RoomIsSound, NEW u \in Chatters, NEW m \in MemberRecord, member' = [member EXCEPT ![u] = m],
         UNCHANGED <<messages, reports, copy, calls>>, room' \in RoomRecord
  PROVE  /\ ChatTyped' /\ member'[u] = m
         /\ \A v \in Chatters \ {u} : member'[v] = member[v] /\ Stays(v)
<1>1. member \in [Chatters -> MemberRecord] /\ LastSeq' = LastSeq
  BY DEF RoomIsSound, ChatTyped, LastSeq
<1>2. member' \in [Chatters -> MemberRecord] /\ member'[u] = m
      /\ \A v \in Chatters \ {u} : member'[v] = member[v]
  BY <1>1
<1>3. ChatTyped'
  BY <1>1, <1>2 DEF RoomIsSound, ChatTyped
<1>4. \A v \in Chatters \ {u} : Stays(v)
  BY <1>2 DEF Stays, Active
<1>5. QED
  BY <1>2, <1>3, <1>4

(* Reading, for ever further.                                              *)
LEMMA ReadStep ==
  ASSUME RoomIsSound, NEW u \in Chatters, NEW seq \in 1 .. LastSeq, Read(u, seq), UNCHANGED <<copy, calls>>
  PROVE  RoomIsSound'
<1>1. room' = room /\ messages' = messages /\ reports' = reports /\ reports \subseteq 1 .. LastSeq
  BY DEF Read, RoomIsSound, ChatTyped
<1>2. CASE seq <= member[u].read
  <2>1. member' = member
    BY <1>2 DEF Read
  <2>2. QED
    BY <1>1, <2>1, StillStep
<1>3. CASE ~(seq <= member[u].read)
  <2>1. PICK q : q = Cardinality({i \in seq + 1 .. LastSeq : messages[i].sender # u})
    OBVIOUS
  <2>2. PICK m : m = [member[u] EXCEPT !.read = seq, !.unread = q]
    OBVIOUS
  <2>3. /\ member[u] \in MemberRecord /\ member[u].read \in Nat /\ LastSeq \in Nat /\ Active(u)
        /\ member \in [Chatters -> MemberRecord] /\ room \in RoomRecord
    BY MemberFields DEF RoomIsSound, Read, ChatTyped
  <2>4. q \in Nat
    <3>1. PICK S : S = {i \in seq + 1 .. LastSeq : messages[i].sender # u}
      OBVIOUS
    <3>2. S \in SUBSET (seq + 1 .. LastSeq) /\ seq \in Nat
      BY <2>3, <3>1
    <3>3. Cardinality(S) \in Nat
      BY <2>3, <3>2, SomeMessages
    <3>4. QED
      BY <2>1, <3>1, <3>3, Zenon
  <2>5. m \in MemberRecord
    <3>1. seq \in Nat
      BY <2>3
    <3>2. QED
      BY <2>2, <2>3, <2>4, <3>1, Zenon DEF MemberRecord
  <2>6. member' = [member EXCEPT ![u] = m]
    BY <1>3, <2>1, <2>2, <2>3 DEF Read, MemberRecord
  <2>7. ChatTyped' /\ member'[u] = m /\ \A v \in Chatters \ {u} : member'[v] = member[v] /\ Stays(v)
    BY <1>1, <2>3, <2>5, <2>6, OneMember
  <2>8. /\ m.since = member[u].since /\ m.state = member[u].state /\ m.read = seq /\ m.unread = q
    BY <2>2, <2>3 DEF MemberRecord
  <2>9. HasRead(u)
    BY <1>3, <2>1, <2>3, <2>7, <2>8 DEF HasRead
  <2>10. \A v \in Chatters : member'[v].state = member[v].state
    BY <2>7, <2>8
  <2>11. Seated' \subseteq Seated
    BY <2>10 DEF Seated
  <2>12. room.kind # "none"
    BY <2>3, InARoom DEF Active
  <2>13. /\ room.owner \in Chatters
         /\ room.kind = "group" =>
              /\ ~room.closed => member'[room.owner].state = "active"
              /\ room.closed => \A v \in Chatters : member'[v].state # "invited"
    BY <2>10, <2>12 DEF RoomIsSound, RoomIsHeld, RoomIsRuled, Active
  <2>14. QED
    BY <1>1, <2>7, <2>9, <2>11, <2>12, <2>13, CalmStep
<1>4. QED
  BY <1>2, <1>3

(* Coming in.                                                              *)
LEMMA AcceptStep ==
  ASSUME RoomIsSound, NEW u \in Chatters, Accept(u), UNCHANGED <<copy, calls>>
  PROVE  RoomIsSound'
<1>1. room' = room /\ messages' = messages /\ reports' = reports
  BY DEF Accept
<1>2. PICK m : m = [state |-> "active", since |-> LastSeq + 1, read |-> LastSeq, unread |-> 0]
  OBVIOUS
<1>3. LastSeq \in Nat /\ room \in RoomRecord
  BY MessageFields DEF RoomIsSound, ChatTyped
<1>4. m \in MemberRecord
  BY <1>2, <1>3 DEF MemberRecord
<1>5. member' = [member EXCEPT ![u] = m]
  BY <1>2 DEF Accept
<1>6. ChatTyped' /\ member'[u] = m /\ \A v \in Chatters \ {u} : member'[v] = member[v] /\ Stays(v)
  BY <1>1, <1>3, <1>4, <1>5, OneMember
<1>7. Comes(u) /\ member[u].state = "invited" /\ ~room.closed
  BY <1>2, <1>6 DEF Comes, Accept
<1>8. Seated' \subseteq Seated
  BY <1>6, <1>7 DEF Seated
<1>9. room.kind # "none"
  BY <1>7, InARoom
<1>10. room.owner \in Chatters /\ (room.kind = "group" => member'[room.owner].state = "active")
  BY <1>2, <1>6, <1>7, <1>9 DEF RoomIsSound, RoomIsHeld, RoomIsRuled, Active
<1>11. QED
  BY <1>1, <1>6, <1>7, <1>8, <1>9, <1>10, CalmStep

(* Going.                                                                  *)
LEMMA LeaveStep ==
  ASSUME RoomIsSound, NEW u \in Chatters, NEW w \in Chatters, Leave(u, w), UNCHANGED <<copy, calls>>
  PROVE  RoomIsSound'
<1>1. room' = room /\ messages' = messages /\ reports' = reports /\ room.kind = "group"
  BY DEF Leave
<1>2. PICK s : s = IF member[w].state = "none" THEN "none" ELSE "left"
  OBVIOUS
<1>3. PICK m : m = [member[w] EXCEPT !.state = s]
  OBVIOUS
<1>4. /\ member[w] \in MemberRecord /\ room \in RoomRecord /\ member \in [Chatters -> MemberRecord]
      /\ s \in {"none", "left"}
  BY <1>2, MemberFields DEF RoomIsSound, ChatTyped
<1>5. m \in MemberRecord
  BY <1>3, <1>4 DEF MemberRecord
<1>6. member' = [member EXCEPT ![w] = m]
  BY <1>2, <1>3, <1>4 DEF Leave, MemberRecord
<1>7. ChatTyped' /\ member'[w] = m /\ \A v \in Chatters \ {w} : member'[v] = member[v] /\ Stays(v)
  BY <1>1, <1>4, <1>5, <1>6, OneMember
<1>8. m.since = member[w].since /\ m.read = member[w].read /\ m.unread = member[w].unread /\ m.state = s
  BY <1>3, <1>4 DEF MemberRecord
<1>9. Stays(w)
  BY <1>4, <1>7, <1>8 DEF Stays, Active
<1>10. Seated' \subseteq Seated
  BY <1>4, <1>7, <1>8 DEF Seated
<1>11. room.owner \in Chatters /\ (~room.closed => w # room.owner)
  BY <1>1 DEF RoomIsSound, RoomIsHeld, RoomIsRuled, Leave, Manages, Active
<1>12. /\ ~room.closed => member'[room.owner].state = "active"
       /\ room.closed => \A v \in Chatters : member'[v].state # "invited"
  BY <1>1, <1>4, <1>7, <1>8, <1>11 DEF RoomIsSound, RoomIsHeld, RoomIsRuled, Active
<1>13. QED
  BY <1>1, <1>7, <1>9, <1>10, <1>11, <1>12, CalmStep

(* A new owner.                                                            *)
LEMMA TransferStep ==
  ASSUME RoomIsSound, NEW u \in Chatters, NEW w \in Chatters, Transfer(u, w), UNCHANGED <<copy, calls>>
  PROVE  RoomIsSound'
<1>1. messages' = messages /\ reports' = reports /\ member' = member
      /\ room.kind = "group" /\ ~room.closed /\ member[w].state = "active"
  BY DEF Transfer, Manages, Active
<1>2. room \in RoomRecord
  BY DEF RoomIsSound, ChatTyped
<1>3. /\ room' \in RoomRecord /\ room'.kind = room.kind /\ room'.version = room.version
      /\ room'.owner = w /\ room'.closed = room.closed
  BY <1>2 DEF Transfer, RoomRecord
<1>4. ChatTyped' /\ Seated' = Seated
  BY <1>1, <1>3 DEF RoomIsSound, ChatTyped, LastSeq, Seated
<1>5. \A v \in Chatters : Stays(v)
  BY <1>1 DEF Stays, Active
<1>6. QED
  BY <1>1, <1>3, <1>4, <1>5, CalmStep

(* The end: nobody is invited any more.                                    *)
LEMMA CloseStep ==
  ASSUME RoomIsSound, NEW u \in Chatters, Close(u), UNCHANGED <<copy, calls>>
  PROVE  RoomIsSound'
<1>1. messages' = messages /\ reports' = reports /\ room.kind = "group"
  BY DEF Close, Manages
<1>2. room \in RoomRecord /\ LastSeq' = LastSeq
  BY <1>1 DEF RoomIsSound, ChatTyped, LastSeq
<1>3. /\ room' \in RoomRecord /\ room'.kind = room.kind /\ room'.version = room.version
      /\ room'.owner = room.owner /\ room'.closed
  <2>1. PICK t \in Truth : t = TRUE
    BY Zenon DEF Truth
  <2>2. room' = [room EXCEPT !.closed = t]
    BY <2>1 DEF Close
  <2>3. QED
    BY <1>2, <2>1, <2>2 DEF RoomRecord
<1>4. ASSUME NEW v \in Chatters
      PROVE  /\ member'[v] \in MemberRecord /\ Stays(v) /\ member'[v].state # "invited"
             /\ member'[v].state \in {"active", "invited"} => member[v].state \in {"active", "invited"}
  <2>1. member[v] \in MemberRecord
    BY MemberFields DEF RoomIsSound
  <2>2. CASE member[v].state = "invited"
    <3>1. member'[v] = [member[v] EXCEPT !.state = "left", !.unread = 0]
      BY <2>2 DEF Close
    <3>2. member'[v] \in MemberRecord
      <4>1. 0 \in Nat /\ "left" \in {"none", "active", "invited", "left"}
        OBVIOUS
      <4>2. QED
        BY <2>1, <3>1, <4>1, Zenon DEF MemberRecord
    <3>3. member'[v].state = "left" /\ member'[v].since = member[v].since /\ member'[v].read = member[v].read
      BY <2>1, <3>1 DEF MemberRecord
    <3>4. QED
      BY <2>2, <3>2, <3>3 DEF Stays, Active
  <2>3. CASE member[v].state # "invited"
    BY <2>1, <2>3 DEF Close, Stays, Active
  <2>4. QED
    BY <2>2, <2>3
<1>5. ChatTyped'
  <2>1. PICK f : f = member'
    OBVIOUS
  <2>2. f = [v \in Chatters |-> f[v]]
    BY <2>1 DEF Close
  <2>3. member' \in [Chatters -> MemberRecord]
    BY <1>4, <2>1, <2>2
  <2>4. QED
    BY <1>1, <1>2, <1>3, <2>3 DEF RoomIsSound, ChatTyped
<1>6. Seated' \subseteq Seated
  BY <1>4 DEF Seated
<1>7. room.owner \in Chatters
  BY <1>1 DEF RoomIsSound, RoomIsHeld
<1>8. QED
  BY <1>1, <1>3, <1>4, <1>5, <1>6, <1>7, CalmStep

(* An invitation takes a seat that is free.                                *)
LEMMA InviteStep ==
  ASSUME RoomIsSound, NEW u \in Chatters, NEW w \in Chatters, Invite(u, w), UNCHANGED <<copy, calls>>
  PROVE  RoomIsSound'
<1>1. /\ room' = room /\ messages' = messages /\ reports' = reports /\ reports \subseteq 1 .. LastSeq
      /\ room.kind = "group" /\ ~room.closed /\ room.owner = u /\ member[u].state = "active"
  BY DEF Invite, Manages, Active, RoomIsSound, ChatTyped
<1>2. CASE w \in Seated
  BY <1>1, <1>2, StillStep DEF Invite
<1>3. CASE w \notin Seated
  <2>1. PICK n : n = LastSeq
    OBVIOUS
  <2>2. PICK a : a = n + 1
    OBVIOUS
  <2>3. PICK m : m = [member[w] EXCEPT !.state = "invited", !.since = a, !.read = n, !.unread = 0]
    OBVIOUS
  <2>4. /\ member[w] \in MemberRecord /\ room \in RoomRecord /\ member \in [Chatters -> MemberRecord]
        /\ n \in Nat /\ a \in Nat \ {0} /\ LastSeq' = n
    BY <1>1, <2>1, <2>2, MemberFields DEF RoomIsSound, ChatTyped, LastSeq
  <2>5. m \in MemberRecord
    <3>1. 0 \in Nat /\ "invited" \in {"none", "active", "invited", "left"}
      OBVIOUS
    <3>2. QED
      BY <2>3, <2>4, <3>1, Zenon DEF MemberRecord
  <2>6. member' = [member EXCEPT ![w] = m]
    BY <1>3, <2>1, <2>2, <2>3 DEF Invite, Invited
  <2>7. ChatTyped' /\ member'[w] = m /\ \A v \in Chatters \ {w} : member'[v] = member[v] /\ Stays(v)
    BY <1>1, <2>4, <2>5, <2>6, OneMember
  <2>8. m.since = a /\ m.state = "invited"
    BY <2>3, <2>4 DEF MemberRecord
  <2>9. Comes(w)
    BY <2>1, <2>2, <2>7, <2>8 DEF Comes, Active
  <2>10. RoomIsNewest' /\ UnreadFollows' /\ CopiesFollow'
    BY <1>1, <2>7, <2>9, MembersMove
  <2>11. SilentBefore'
    BY <1>1 DEF SilentBefore
  <2>12. Seated' = Seated \cup {w}
    BY <2>7, <2>8 DEF Seated
  <2>13. IsFiniteSet(Seated) /\ Cardinality(Seated) < Seats /\ Cardinality(Seated) \in Nat
    BY <1>3, FS_CardinalityType DEF Invite, RoomIsSound, RoomIsHeld
  <2>14. IsFiniteSet(Seated \cup {w}) /\ Cardinality(Seated \cup {w}) = Cardinality(Seated) + 1
    BY <1>3, <2>13, FS_AddElement
  <2>15. IsFiniteSet(Seated') /\ Cardinality(Seated') = Cardinality(Seated) + 1
    BY <2>12, <2>14, Zenon
  <2>16. Cardinality(Seated') <= Seats
    BY <2>13, <2>15, ChatAssumption
  <2>17. w # u
    BY <1>1, <1>3 DEF Seated
  <2>18. RoomIsHeld'
    BY <1>1, <2>7, <2>15, <2>16, <2>17 DEF RoomIsHeld, RoomIsRuled, Active
  <2>19. QED
    BY <2>7, <2>10, <2>11, <2>18 DEF RoomIsSound
<1>4. QED
  BY <1>2, <1>3

(* A room is opened.                                                       *)
LEMMA CreateStep ==
  ASSUME RoomIsSound, NEW u, NEW kind \in {"direct", "group"}, Create(u, kind), UNCHANGED <<copy, calls>>
  PROVE  RoomIsSound'
<1>1. /\ messages' = messages /\ reports' = reports /\ reports \subseteq 1 .. LastSeq
      /\ u = Owner1 /\ (kind = "group" => Seats > 1)
  BY DEF Create, RoomIsSound, ChatTyped
<1>2. CASE UNCHANGED <<room, member>>
  BY <1>1, <1>2, StillStep
<1>3. CASE /\ room = NoRoom
           /\ room' = [NoRoom EXCEPT !.kind = kind, !.owner = u]
           /\ member' = [member EXCEPT ![u].state = "active",
                ![Guest] = IF kind = "direct" THEN [member[Guest] EXCEPT !.state = "active"] ELSE Invited(member[Guest], 0)]
  <2>1. u \in Chatters /\ Guest \in Chatters /\ Guest # u
    BY <1>1, ChatAssumption
  <2>2. room.kind = "none" /\ room.version = 0
    BY <1>3 DEF NoRoom
  <2>3. messages = <<>> /\ LastSeq = 0 /\ LastSeq' = 0 /\ \A v \in Chatters : member[v] = Outside
    BY <1>1, <2>2 DEF RoomIsSound, SilentBefore, LastSeq
  <2>4. PICK s : s = IF kind = "direct" THEN "active" ELSE "invited"
    OBVIOUS
  <2>5. PICK p : p = [state |-> "active", since |-> 1, read |-> 0, unread |-> 0]
    OBVIOUS
  <2>6. PICK q : q = [state |-> s, since |-> 1, read |-> 0, unread |-> 0]
    OBVIOUS
  <2>7. p \in MemberRecord /\ q \in MemberRecord
    BY <2>4, <2>5, <2>6 DEF MemberRecord
  <2>8. member \in [Chatters -> MemberRecord]
    BY DEF RoomIsSound, ChatTyped
  <2>9. member' = [member EXCEPT ![u] = p, ![Guest] = q]
    <3>1. [member[u] EXCEPT !.state = "active"] = p
      BY <2>1, <2>3, <2>5 DEF Outside
    <3>2. (IF kind = "direct" THEN [member[Guest] EXCEPT !.state = "active"] ELSE Invited(member[Guest], 0)) = q
      <4>1. [Outside EXCEPT !.state = "active"] = [state |-> "active", since |-> 1, read |-> 0, unread |-> 0]
        BY DEF Outside
      <4>2. Invited(Outside, 0) = [state |-> "invited", since |-> 1, read |-> 0, unread |-> 0]
        <5>1. 0 + 1 = 1
          OBVIOUS
        <5>2. [Outside EXCEPT !.state = "invited", !.since = 1, !.read = 0, !.unread = 0] =
                [state |-> "invited", since |-> 1, read |-> 0, unread |-> 0]
          <6>1. PICK o : o = Outside
            OBVIOUS
          <6>2. o \in MemberRecord
            BY <6>1 DEF Outside, MemberRecord
          <6>3. PICK i : i = [o EXCEPT !.state = "invited", !.since = 1, !.read = 0, !.unread = 0]
            OBVIOUS
          <6>4. i.state = "invited" /\ i.since = 1 /\ i.read = 0 /\ i.unread = 0
            BY <6>2, <6>3 DEF MemberRecord
          <6>5. i = [state |-> i.state, since |-> i.since, read |-> i.read, unread |-> i.unread]
            BY <6>2, <6>3 DEF MemberRecord
          <6>6. QED
            BY <6>1, <6>3, <6>4, <6>5
        <5>3. QED
          BY <5>1, <5>2, Zenon DEF Invited
      <4>3. CASE kind = "direct"
        BY <2>1, <2>3, <2>4, <2>6, <4>1, <4>3
      <4>4. CASE kind # "direct"
        BY <2>1, <2>3, <2>4, <2>6, <4>2, <4>4
      <4>5. QED
        BY <4>3, <4>4
    <3>3. QED
      BY <1>3, <3>1, <3>2
  <2>10. /\ member' \in [Chatters -> MemberRecord] /\ member'[u] = p /\ member'[Guest] = q
         /\ \A v \in Chatters \ {u, Guest} : member'[v] = Outside
    BY <2>1, <2>3, <2>7, <2>8, <2>9
  <2>11. /\ room'.kind = kind /\ room'.owner = u /\ room'.version = 0 /\ ~room'.closed
         /\ room' \in RoomRecord
    <3>1. PICK t \in Truth : t = FALSE
      BY Zenon DEF Truth
    <3>2. room' = [kind |-> kind, owner |-> u, version |-> 0, closed |-> t]
      BY <1>3, <3>1 DEF NoRoom
    <3>3. QED
      BY <2>1, <3>1, <3>2 DEF RoomRecord
  <2>12. ChatTyped'
    BY <1>1, <2>3, <2>10, <2>11 DEF RoomIsSound, ChatTyped
  <2>13. ASSUME NEW v \in Chatters PROVE Comes(v)
    BY <2>3, <2>5, <2>6, <2>10 DEF Comes, Outside
  <2>14. RoomIsNewest' /\ UnreadFollows' /\ CopiesFollow'
    BY <1>1, <2>2, <2>11, <2>12, <2>13, MembersMove
  <2>15. SilentBefore'
    BY <2>11 DEF SilentBefore
  <2>16. Seated' = {u, Guest}
    BY <2>1, <2>4, <2>5, <2>6, <2>10 DEF Seated, Outside
  <2>17. IsFiniteSet({u, Guest}) /\ Cardinality({u, Guest}) = 2
    <3>1. IsFiniteSet({u}) /\ Cardinality({u}) = 1
      BY FS_Singleton
    <3>2. {u, Guest} = {u} \cup {Guest} /\ Guest \notin {u}
      BY <2>1
    <3>3. IsFiniteSet({u} \cup {Guest}) /\ Cardinality({u} \cup {Guest}) = Cardinality({u}) + 1
      BY <3>1, <3>2, FS_AddElement
    <3>4. QED
      BY <3>1, <3>2, <3>3
  <2>18. IsFiniteSet(Seated') /\ (kind = "group" => Cardinality(Seated') <= Seats)
    BY <1>1, <2>16, <2>17, ChatAssumption
  <2>19. RoomIsHeld'
    BY <2>1, <2>5, <2>10, <2>11, <2>18 DEF RoomIsHeld, RoomIsRuled, Active
  <2>20. QED
    BY <2>12, <2>14, <2>15, <2>19 DEF RoomIsSound
<1>4. QED
  BY <1>2, <1>3 DEF Create

-----------------------------------------------------------------------------
(* Every command.                                                          *)

(* Fields of commands.                                                     *)
LEMMA ChatCommandFields ==
  ASSUME NEW u, NEW c \in Commands(u)
  PROVE  /\ c.op \in {"create", "send", "accept", "close", "block", "unblock", "invite", "transfer", "leave",
                       "recall", "report", "read", "resolve"}
         /\ c.op = "create" => c.kind \in {"direct", "group"}
         /\ c.op \in {"block", "unblock", "invite", "transfer", "leave"} => c.who \in Chatters
<1>1. PICK B : B = BOOLEAN
  OBVIOUS
<1>2. PICK P : P = Places
  OBVIOUS
<1>3. PICK W : W = Others(u) /\ W \subseteq Chatters
  BY DEF Others
<1>4. c \in [op : {"create"}, kind : {"direct", "group"}] \cup [op : {"send", "accept", "close"}]
             \cup [op : {"block", "unblock", "invite", "transfer"}, who : W] \cup [op : {"leave"}, who : Chatters]
             \cup [op : {"recall", "report", "read"}, seq : P] \cup [op : {"resolve"}, seq : P, remove : B]
  BY <1>1, <1>2, <1>3, Zenon DEF Commands
<1>5. QED
  BY <1>3, <1>4

(* Whatever the command is.                                                *)
LEMMA CommandMoves ==
  ASSUME RoomIsSound, NEW u \in Chatters, NEW k \in Chatters \X Nat, NEW c \in Commands(u),
         Command(u, k, c), UNCHANGED <<copy, calls>>
  PROVE  RoomIsSound'
<1>1. /\ c.op \in {"create", "send", "accept", "close", "block", "unblock", "invite", "transfer", "leave",
                    "recall", "report", "read", "resolve"}
      /\ c.op = "create" => c.kind \in {"direct", "group"}
      /\ c.op \in {"block", "unblock", "invite", "transfer", "leave"} => c.who \in Chatters
  BY ChatCommandFields
<1>2. reports \subseteq 1 .. LastSeq
  BY DEF RoomIsSound, ChatTyped
<1>3. CASE c.op = "create"
  BY <1>1, <1>3, CreateStep DEF Command
<1>4. CASE c.op \in {"block", "unblock"}
  BY <1>2, <1>4, StillStep DEF Command, Block, Unblock
<1>5. CASE c.op = "send"
  BY <1>5, SendStep DEF Command
<1>6. CASE c.op = "recall"
  BY <1>2, <1>6, RedactStep DEF Command, Recall
<1>7. CASE c.op = "report"
  BY <1>2, <1>7, StillStep DEF Command, Report
<1>8. CASE c.op = "resolve"
  <2>1. ResolveReport(u, c.seq, c.remove)
    BY <1>8 DEF Command
  <2>2. c.seq \in 1 .. LastSeq /\ reports' \subseteq 1 .. LastSeq
    BY <1>2, <2>1 DEF ResolveReport
  <2>3. CASE Redact(c.seq) /\ member' = member
    BY <2>2, <2>3, RedactStep
  <2>4. CASE UNCHANGED <<room, messages, member>>
    BY <2>2, <2>4, StillStep
  <2>5. QED
    BY <2>1, <2>3, <2>4 DEF ResolveReport
<1>9. CASE c.op = "read"
  BY <1>9, ReadStep DEF Command
<1>10. CASE c.op = "invite"
  BY <1>1, <1>10, InviteStep DEF Command
<1>11. CASE c.op = "accept"
  BY <1>11, AcceptStep DEF Command
<1>12. CASE c.op = "leave"
  BY <1>1, <1>12, LeaveStep DEF Command
<1>13. CASE c.op = "transfer"
  BY <1>1, <1>13, TransferStep DEF Command
<1>14. CASE c.op = "close"
  BY <1>14, CloseStep DEF Command
<1>15. QED
  BY <1>1, <1>3, <1>4, <1>5, <1>6, <1>7, <1>8, <1>9, <1>10, <1>11, <1>12, <1>13, <1>14

(* Only a message that is sent has a key, that of its command.             *)
LEMMA KeysMove ==
  ASSUME RoomIsSound, NEW u \in Chatters, NEW k \in Chatters \X Nat, NEW c \in Commands(u), Command(u, k, c)
  PROVE  \/ LastSeq' = LastSeq /\ \A i \in 1 .. LastSeq : messages'[i].key = messages[i].key
         \/ /\ LastSeq' = LastSeq + 1 /\ messages'[LastSeq + 1].key = k
            /\ \A i \in 1 .. LastSeq : messages'[i].key = messages[i].key
<1>1. c.op \in {"create", "send", "accept", "close", "block", "unblock", "invite", "transfer", "leave",
                "recall", "report", "read", "resolve"}
  BY ChatCommandFields
<1>2. messages \in Seq(MessageRecord) /\ reports \subseteq 1 .. LastSeq
  BY DEF RoomIsSound, ChatTyped
<1>3. CASE Send(u, k)
  BY <1>2, <1>3 DEF Send, LastSeq
<1>4. ASSUME NEW i \in 1 .. LastSeq, Redact(i)
      PROVE  LastSeq' = LastSeq /\ \A j \in 1 .. LastSeq : messages'[j].key = messages[j].key
  BY <1>2, <1>4 DEF Redact, LastSeq, MessageRecord
<1>5. Send(u, k) \/ messages' = messages \/ \E i \in 1 .. LastSeq : Redact(i)
  BY <1>1, <1>2 DEF Command, Create, Block, Unblock, Recall, Report, ResolveReport, Read, Invite, Accept, Leave,
                    Transfer, Close
<1>6. CASE messages' = messages
  BY <1>6 DEF LastSeq
<1>7. QED
  BY <1>3, <1>4, <1>5, <1>6

(* A command and its answer.                                               *)
LEMMA ExecuteStep ==
  ASSUME ChatIsSound, NEW u \in Chatters, NEW k \in 1 .. Len(replies[u]) + 1, NEW c \in Commands(u),
         Execute(u, k, c)
  PROVE  ChatIsSound'
<1> DEFINE A == UNION {Commands(v) : v \in Chatters}
<1>1. replies \in [Chatters -> Seq(A)] /\ c \in A
  BY DEF ChatIsSound, KeysWereUsed
<1>2. PICK n : n = Len(replies[u])
  OBVIOUS
<1> HIDE DEF A
<1>3. n \in Nat /\ k = n + 1 /\ DOMAIN replies[u] = 1 .. n /\ k \notin DOMAIN replies[u]
  BY <1>1, <1>2 DEF Execute, Replied
<1>4. replies' = [replies EXCEPT ![u] = Append(replies[u], c)]
  BY <1>3 DEF Execute
<1>5. /\ replies' \in [Chatters -> Seq(A)] /\ Len(replies'[u]) = n + 1
      /\ \A v \in Chatters \ {u} : replies'[v] = replies[v]
  BY <1>1, <1>2, <1>4
<1>6. <<u, k>> \in Chatters \X Nat
  BY <1>3
<1>7. Command(u, <<u, k>>, c) /\ UNCHANGED <<copy, calls>>
  BY DEF Execute, browserVars
<1>8. RoomIsSound'
  BY <1>6, <1>7, CommandMoves DEF ChatIsSound
<1>9. PICK l : l = LastSeq
  OBVIOUS
<1>10. l \in Nat /\ \A i \in 1 .. l : messages'[i].key = messages[i].key
  BY <1>6, <1>7, <1>9, KeysMove, MessageFields DEF ChatIsSound, RoomIsSound
<1>10a. LastSeq' = l \/ (LastSeq' = l + 1 /\ messages'[l + 1].key = <<u, k>>)
  BY <1>6, <1>7, <1>9, KeysMove DEF ChatIsSound
<1>11. \A i \in 1 .. l : \E v \in Chatters : \E j \in 1 .. Len(replies[v]) : messages[i].key = <<v, j>>
  BY <1>9 DEF ChatIsSound, KeysWereUsed
<1>12. \A v \in Chatters : \A j \in 1 .. Len(replies[v]) : j \in 1 .. Len(replies'[v])
  <2> TAKE v \in Chatters
  <2>1. CASE v = u
    BY <1>2, <1>3, <1>5, <2>1
  <2>2. CASE v # u
    BY <1>5, <2>2
  <2>3. QED
    BY <2>1, <2>2
<1>13. \A i \in 1 .. l : \E v \in Chatters : \E j \in 1 .. Len(replies'[v]) : messages'[i].key = <<v, j>>
  BY <1>10, <1>11, <1>12
<1>14. \A i \in 1 .. l : messages'[i].key # <<u, k>>
  BY <1>2, <1>3, <1>10, <1>11
<1>15. \A i \in 1 .. LastSeq' : i \in 1 .. l \/ (i = l + 1 /\ messages'[i].key = <<u, k>>)
  <2>1. CASE LastSeq' = l
    BY <2>1
  <2>2. CASE LastSeq' = l + 1 /\ messages'[l + 1].key = <<u, k>>
    <3>1. \A i \in 1 .. l + 1 : i \in 1 .. l \/ i = l + 1
      BY <1>10
    <3>2. QED
      BY <2>2, <3>1
  <2>3. QED
    BY <1>10a, <2>1, <2>2
<1>16. \A i \in 1 .. LastSeq' : \E v \in Chatters : \E j \in 1 .. Len(replies'[v]) : messages'[i].key = <<v, j>>
  <2>1. k \in 1 .. Len(replies'[u])
    BY <1>3, <1>5
  <2>3. QED
    BY <1>13, <1>15, <2>1
<1>17. SentOnce'
  <2>1. \A i, j \in 1 .. l : messages'[i].key = messages'[j].key => i = j
    BY <1>9, <1>10 DEF ChatIsSound, KeysWereUsed, SentOnce
  <2>3. \A i, j \in 1 .. LastSeq' : messages'[i].key = messages'[j].key => i = j
    BY <1>14, <1>15, <2>1
  <2>4. QED
    BY <2>3 DEF SentOnce
<1>18. KeysWereUsed'
  BY <1>5, <1>16, <1>17 DEF KeysWereUsed, A
<1>19. QED
  BY <1>8, <1>18 DEF ChatIsSound

(* Every step of the messages.                                             *)
LEMMA ChatStep == ChatIsSound /\ [ChatNext]_chatVars => ChatIsSound'
<1> SUFFICES ASSUME ChatIsSound, [ChatNext]_chatVars PROVE ChatIsSound'
  OBVIOUS
<1>1. ASSUME UNCHANGED <<messages, replies>> PROVE KeysWereUsed'
  BY <1>1 DEF ChatIsSound, KeysWereUsed, SentOnce, LastSeq
<1>2. ASSUME NEW u \in Readers, Browse(u) PROVE ChatIsSound'
  BY <1>1, <1>2, BrowseStep DEF ChatIsSound, Browse
<1>3. CASE UNCHANGED chatVars
  <2>1. reports' \subseteq 1 .. LastSeq
    BY <1>3 DEF ChatIsSound, RoomIsSound, ChatTyped, chatVars
  <2>2. RoomIsSound'
    BY <1>3, <2>1, StillStep DEF ChatIsSound, chatVars, browserVars
  <2>3. QED
    BY <1>1, <1>3, <2>2 DEF ChatIsSound, chatVars
<1>4. QED
  BY <1>2, <1>3, ExecuteStep DEF ChatNext

(* Before anybody has said anything.                                       *)
LEMMA ChatSoundInit == ChatInit => ChatIsSound
<1> SUFFICES ASSUME ChatInit PROVE ChatIsSound
  OBVIOUS
<1>1. /\ room = NoRoom /\ member = [u \in Chatters |-> Outside] /\ messages = <<>> /\ reports = {}
      /\ replies = [u \in Chatters |-> <<>>] /\ LastSeq = 0
      /\ copy = [u \in Readers |-> NoCopy] /\ calls = [u \in Readers |-> Quiet]
  BY DEF ChatInit, LastSeq
<1>2. room \in RoomRecord /\ room.kind = "none" /\ room.version = 0
  <2>1. PICK t \in Truth : t = FALSE
    BY Zenon DEF Truth
  <2>2. room = [kind |-> "none", owner |-> "none", version |-> 0, closed |-> t]
    BY <1>1, <2>1, Zenon DEF NoRoom
  <2>3. QED
    BY <2>1, <2>2 DEF RoomRecord
<1>3. Outside \in MemberRecord /\ Outside.state = "none"
  BY DEF Outside, MemberRecord
<1>4. /\ NoCopy \in CopyRecord /\ NoCopy.state = "none" /\ DOMAIN NoCopy.held = {}
      /\ NoCall \in CallRecord /\ NoCall.pc = "none" /\ NoCall.at = 0
  <2>1. <<>> \in [{} -> Nat]
    OBVIOUS
  <2>2. <<>> \in Bodies /\ DOMAIN <<>> = {}
    BY <2>1 DEF Bodies
  <2>3. QED
    BY <2>2 DEF NoCopy, CopyRecord, NoCall, CallRecord
<1>4a. Quiet \in CallsRecord /\ \A what \in Errands : Quiet[what] = NoCall
  BY <1>4 DEF Quiet, CallsRecord
<1>5. ChatTyped
  BY <1>1, <1>2, <1>3, <1>4, <1>4a DEF ChatTyped
<1>6. SilentBefore /\ RoomIsNewest /\ UnreadFollows
  BY <1>1, <1>2, <1>3 DEF SilentBefore, RoomIsNewest, UnreadFollows, Active
<1>7. ASSUME NEW u \in Readers PROVE CopyKnows(u)
  <2>1. copy[u] = NoCopy /\ \A what \in Errands : calls[u][what] = NoCall
    BY <1>1, <1>4a
  <2>2. Behind(NoCopy.held)
    BY <1>4 DEF Behind
  <2>3. QED
    BY <1>1, <1>4, <2>1, <2>2 DEF CopyKnows, CopySound, OpenSound, TickSound, OlderSound, Errands
<1>8. RoomIsHeld
  <2>1. Seated = {}
    BY <1>1, <1>3 DEF Seated
  <2>2. QED
    BY <1>2, <2>1, FS_EmptySet DEF RoomIsHeld, RoomIsRuled
<1>9. KeysWereUsed
  BY <1>1 DEF KeysWereUsed, SentOnce
<1>10. QED
  BY <1>5, <1>6, <1>7, <1>8, <1>9 DEF ChatIsSound, RoomIsSound, CopiesFollow

(* Whatever members send, read, remove, leave and come back for: counts    *)
(* are exact, browsers that caught up are right, and rooms are held.       *)
THEOREM ConversationsStaySound == ChatSpec => []ConversationsAreSound
<1>1. ChatIsSound => ConversationsAreSound
  <2> SUFFICES ASSUME ChatIsSound PROVE ConversationsAreSound
    OBVIOUS
  <2>1. UnreadIsExact
    <3> SUFFICES ASSUME NEW u \in Chatters, Active(u)
                 PROVE  /\ member[u].unread = Cardinality({i \in member[u].read + 1 .. LastSeq : messages[i].sender # u})
                        /\ member[u].read >= member[u].since - 1
      BY DEF UnreadIsExact
    <3>1. UnreadCounts(u) /\ member[u].read \in Nat /\ member[u].since \in Nat
      BY MemberFields DEF ChatIsSound, RoomIsSound, UnreadFollows
    <3>2. QED
      BY <3>1 DEF UnreadCounts, Unseen
  <2>2. CopiesCatchUp
    <3> SUFFICES ASSUME NEW u \in Readers, copy[u].state = "clean", copy[u].cursor = room.version,
                        NEW i \in Visible(u), i \in DOMAIN copy[u].held \/ i >= copy[u].from
                 PROVE  HoldsRow(copy[u].held, i)
      BY DEF CopiesCatchUp, HoldsRow
    <3>1. i \in 1 .. LastSeq /\ messages[i].version <= room.version
      BY DEF ChatIsSound, RoomIsSound, RoomIsNewest, Visible
    <3>2. FollowsTo(u, copy[u].held, copy[u].cursor, copy[u].from)
      BY DEF ChatIsSound, RoomIsSound, CopiesFollow, CopyKnows, CopySound
    <3>3. copy[u].from <= i
          \/ i \in DOMAIN copy[u].held
      BY <3>1, CopyFields DEF ChatIsSound, RoomIsSound, CopyRecord
    <3>4. QED
      BY <3>1, <3>2, <3>3 DEF FollowsTo
  <2>3. QED
    BY <2>1, <2>2 DEF ChatIsSound, RoomIsSound, RoomIsHeld, KeysWereUsed, ConversationsAreSound
<1>2. QED
  BY <1>1, ChatSoundInit, ChatStep, PTL DEF ChatSpec

-----------------------------------------------------------------------------
(* Experience: the inductive invariant.                                    *)

EventStatuses == {"pending", "awarded", "capped", "revoked"}
EventRow ==
  [kind : Kinds \cup {"adjustment"}, user : People, post : Posts \cup {"none"}, actor : People \cup {"none"},
   due : Int, status : EventStatuses, amount : Nat \ {0}, cap : Nat, count : Nat, total : Nat]
EntryKinds      == {"award", "reversal", "adjustment"}
EntryRow(keys)  == [key : keys, user : People, kind : EntryKinds, delta : Int, at : Int]
AccountRow      == [balance : Int, last : Int, streak : Nat]
FactRow         == [kind : {"answer", "like"}, post : Posts, actor : People, at : Int]
Batches ==
  {Idle, Down} \cup [pc : {"row", "next"}, set : AllRules, page : SUBSET Nat] \cup [pc : {"event"}, page : SUBSET Nat]

BooksTyped ==
  /\ account \in [People -> AccountRow]
  /\ events \in [DOMAIN events -> EventRow]
  /\ order \in Seq(DOMAIN events)
  /\ history \in Seq(EntryRow(DOMAIN events))

(* An event has one entry of a kind.                                       *)
UniqueEntries ==
  \A i, j \in DOMAIN history : history[i].key = history[j].key /\ history[i].kind = history[j].kind => i = j

(* The status of an event says what was booked for it.                     *)
Has(k, kind) == \E i \in DOMAIN history : history[i].key = k /\ history[i].kind = kind
StatusIsBooked(k) ==
  events[k].kind # "adjustment" =>
    /\ events[k].status = "awarded" <=> Has(k, "award") /\ ~Has(k, "reversal")
    /\ Has(k, "reversal") => Has(k, "award")
StatusFollows == \A k \in DOMAIN events : StatusIsBooked(k)

BalancesAdd == \A u \in People : account[u].balance = TotalOf(history, EntriesOf(u))

(* The key of an event says where it comes from: a command that is in the  *)
(* audit, or the check-in of its member.                                   *)
KeyTells(k, e) ==
  /\ k[1] = "admin" <=> e.kind = "adjustment"
  /\ k[1] = "admin" => k[2] \in {a.key : a \in audited}
  /\ k[1] = "checkin" => e.user = k[2]
KeysTell == \A k \in DOMAIN events : KeyTells(k, events[k])

BooksAreSound == BooksTyped /\ UniqueEntries /\ StatusFollows /\ BalancesAdd /\ KeysTell /\ LimitsHold /\ StreaksAreReal

CollectTyped ==
  /\ today \in Nat /\ facts \in Seq(FactRow) /\ rules \in [version : Nat, set : AllRules]
  /\ place \in [rows : Nat, reconcile : Nat]
  /\ work \in [Collectors -> Batches]
  /\ asked \subseteq People \X Int /\ audited \subseteq AdminRequests

(* What a collector has yet to do exists, and no reconciler has an         *)
(* adjustment before it.                                                   *)
BatchIsSound(b) ==
  /\ b.pc \in {"row", "next"} => b.page # {} /\ b.page \subseteq DOMAIN facts
  /\ b.pc = "event" =>
       /\ b.page # {} /\ b.page \subseteq DOMAIN order
       /\ \A i \in b.page : events[order[i]].kind # "adjustment"

GrowthIsSound == BooksAreSound /\ CollectTyped /\ \A c \in Collectors : BatchIsSound(work[c])

-----------------------------------------------------------------------------
(* What entries add up to.                                                 *)

UnitsGrow(c, d, amount) ==
  /\ amount > 0 => Cardinality(Units(c)) = Cardinality(Units(d)) + amount
  /\ amount <= 0 => Cardinality(Units(c)) = Cardinality(Units(d))

(* One more amount adds its units, if it has any.                          *)
LEMMA UnitsMore ==
  ASSUME NEW S, IsFiniteSet(S), NEW n, n \notin S,
         NEW T, T = S \cup {n}, NEW d \in [S -> Int], NEW c \in [T -> Int], \A i \in S : c[i] = d[i],
         IsFiniteSet(Units(d))
  PROVE  UnitsGrow(c, d, c[n])
<1> DEFINE new == {n} \X (1 .. c[n])
<1>1. Units(c) = Units(d) \cup new
  <2>1. DOMAIN c = S \cup {n} /\ DOMAIN d = S
    OBVIOUS
  <2>2. \A x : x \in Units(c) <=> \E i \in S \cup {n} : x \in {i} \X (1 .. c[i])
    BY <2>1 DEF Units
  <2>3. \A x : x \in Units(d) <=> \E i \in S : x \in {i} \X (1 .. d[i])
    BY <2>1 DEF Units
  <2>4. QED
    BY <2>2, <2>3
<1>2. Units(d) \cap new = {}
  BY DEF Units
<1>3. c[n] \in Int
  OBVIOUS
<1>4. IsFiniteSet(1 .. c[n]) /\ Cardinality(1 .. c[n]) = (IF c[n] > 0 THEN c[n] ELSE 0)
  <2>1. 1 \in Int
    OBVIOUS
  <2>2. IsFiniteSet(1 .. c[n]) /\ Cardinality(1 .. c[n]) = IF 1 > c[n] THEN 0 ELSE c[n] - 1 + 1
    BY <1>3, <2>1, FS_Interval, Zenon
  <2>3. QED
    BY <1>3, <2>2
<1>5. IsFiniteSet(new) /\ Cardinality(new) = (IF c[n] > 0 THEN c[n] ELSE 0)
  <2>1. IsFiniteSet({n}) /\ Cardinality({n}) = 1
    BY FS_Singleton
  <2>2. IsFiniteSet(new) /\ Cardinality(new) = 1 * Cardinality(1 .. c[n])
    BY <1>4, <2>1, FS_Product, Zenon
  <2>3. QED
    BY <1>3, <1>4, <2>2
<1> HIDE DEF new
<1>6. /\ IsFiniteSet(Units(d) \cup new)
      /\ Cardinality(Units(d) \cup new) = Cardinality(Units(d)) + Cardinality(new) - Cardinality({})
  BY <1>2, <1>5, FS_Union
<1>7. Cardinality({}) = 0 /\ Cardinality(Units(d)) \in Nat
  BY FS_EmptySet, FS_CardinalityType
<1>8. QED
  BY <1>1, <1>3, <1>5, <1>6, <1>7 DEF UnitsGrow

(* The units of finitely many amounts are finitely many.                   *)
LEMMA UnitsFinite ==
  ASSUME NEW S, IsFiniteSet(S), NEW d \in [S -> Int]
  PROVE  IsFiniteSet(Units(d)) /\ Cardinality(Units(d)) \in Nat
<1> DEFINE bar(i) == {i} \X (1 .. d[i])
           bars == {bar(i) : i \in S}
<1>1. \A i \in S : IsFiniteSet(bar(i))
  <2> TAKE i \in S
  <2>1. d[i] \in Int /\ 1 \in Int
    OBVIOUS
  <2>2. IsFiniteSet(1 .. d[i])
    BY <2>1, FS_Interval, Zenon
  <2>3. QED
    BY <2>2, FS_Singleton, FS_Product, Zenon
<1> HIDE DEF bar
<1>2. IsFiniteSet(bars)
  <2>1. [i \in S |-> bar(i)] \in Surjection(S, bars)
    BY DEF Surjection
  <2>2. QED
    BY <2>1, FS_Surjection
<1>3. IsFiniteSet(UNION bars)
  BY <1>1, <1>2, FS_UNION
<1>4. Units(d) = UNION bars
  BY DEF Units, bar
<1>5. QED
  BY <1>3, <1>4, FS_CardinalityType

TotalsMove(es, e, S) ==
  /\ Cardinality(S) \in Nat /\ TotalOf(es, S) \in Int
  /\ Cardinality(S \cup {Len(es) + 1}) = Cardinality(S) + 1
  /\ TotalOf(Append(es, e), S) = TotalOf(es, S)
  /\ TotalOf(Append(es, e), S \cup {Len(es) + 1}) = TotalOf(es, S) + e.delta

(* An entry that is appended leaves what those before it add up to, and    *)
(* adds its own.                                                           *)
LEMMA TotalMoves ==
  ASSUME NEW R, \A r \in R : r.delta \in Int, NEW es \in Seq(R), NEW e \in R, NEW S \in SUBSET (DOMAIN es)
  PROVE  TotalsMove(es, e, S)
<1> DEFINE n == Len(es) + 1
           more == Append(es, e)
           up(s, T) == [i \in T |-> s[i].delta]
           down(s, T) == [i \in T |-> -s[i].delta]
<1>1. Len(es) \in Nat /\ DOMAIN es = 1 .. Len(es) /\ n \notin S
  OBVIOUS
<1>2. IsFiniteSet(S)
  <2>1. 1 \in Int /\ Len(es) \in Int
    BY <1>1
  <2>2. IsFiniteSet(1 .. Len(es))
    BY <2>1, FS_Interval, Zenon
  <2>3. QED
    BY <1>1, <2>2, FS_Subset
<1>3. \A i \in S : more[i] = es[i] /\ es[i] \in R
  OBVIOUS
<1>4. more[n] = e
  OBVIOUS
<1> HIDE DEF n, more
<1>5. up(es, S) \in [S -> Int] /\ down(es, S) \in [S -> Int]
  BY <1>3
<1>6. up(more, S) = up(es, S) /\ down(more, S) = down(es, S)
  BY <1>3
<1>7. e.delta \in Int
  OBVIOUS
<1>8. up(more, S \cup {n}) \in [S \cup {n} -> Int] /\ down(more, S \cup {n}) \in [S \cup {n} -> Int]
  BY <1>3, <1>4, <1>7
<1>9. /\ \A i \in S : up(more, S \cup {n})[i] = up(es, S)[i] /\ down(more, S \cup {n})[i] = down(es, S)[i]
      /\ up(more, S \cup {n})[n] = e.delta /\ down(more, S \cup {n})[n] = -e.delta
  BY <1>3, <1>4
<1>10. /\ TotalOf(es, S) = Cardinality(Units(up(es, S))) - Cardinality(Units(down(es, S)))
       /\ TotalOf(more, S) = Cardinality(Units(up(more, S))) - Cardinality(Units(down(more, S)))
       /\ TotalOf(more, S \cup {n}) = Cardinality(Units(up(more, S \cup {n}))) - Cardinality(Units(down(more, S \cup {n})))
  BY DEF TotalOf
<1> HIDE DEF up, down
<1>11. /\ IsFiniteSet(Units(up(es, S))) /\ Cardinality(Units(up(es, S))) \in Nat
       /\ IsFiniteSet(Units(down(es, S))) /\ Cardinality(Units(down(es, S))) \in Nat
  BY <1>2, <1>5, UnitsFinite
<1>12. UnitsGrow(up(more, S \cup {n}), up(es, S), e.delta)
  <2>1. \A i \in S : up(more, S \cup {n})[i] = up(es, S)[i]
    BY <1>9
  <2>2. PICK d \in [S -> Int] : d = up(es, S)
    BY <1>5
  <2>3. PICK T : T = S \cup {n}
    OBVIOUS
  <2>4. PICK c \in [T -> Int] : c = up(more, S \cup {n})
    BY <1>8, <2>3
  <2>5. \A i \in S : c[i] = d[i]
    BY <2>1, <2>2, <2>4
  <2>6. c[n] = e.delta
    BY <1>9, <2>4
  <2>7. IsFiniteSet(Units(d))
    BY <1>11, <2>2
  <2>8. UnitsGrow(c, d, c[n])
    BY <1>1, <1>2, <2>3, <2>5, <2>7, UnitsMore, Zenon
  <2>9. QED
    BY <2>2, <2>3, <2>4, <2>6, <2>8
<1>13. UnitsGrow(down(more, S \cup {n}), down(es, S), -e.delta)
  <2>1. \A i \in S : down(more, S \cup {n})[i] = down(es, S)[i]
    BY <1>9
  <2>2. PICK d \in [S -> Int] : d = down(es, S)
    BY <1>5
  <2>3. PICK T : T = S \cup {n}
    OBVIOUS
  <2>4. PICK c \in [T -> Int] : c = down(more, S \cup {n})
    BY <1>8, <2>3
  <2>5. \A i \in S : c[i] = d[i]
    BY <2>1, <2>2, <2>4
  <2>6. c[n] = -e.delta
    BY <1>9, <2>4
  <2>7. IsFiniteSet(Units(d))
    BY <1>11, <2>2
  <2>8. UnitsGrow(c, d, c[n])
    BY <1>1, <1>2, <2>3, <2>5, <2>7, UnitsMore, Zenon
  <2>9. QED
    BY <2>2, <2>3, <2>4, <2>6, <2>8
<1>14. Cardinality(S) \in Nat /\ Cardinality(S \cup {n}) = Cardinality(S) + 1
  BY <1>1, <1>2, FS_CardinalityType, FS_AddElement DEF n
<1>15. TotalOf(es, S) \in Int /\ TotalOf(more, S) = TotalOf(es, S)
  BY <1>6, <1>10, <1>11
<1>16. TotalOf(more, S \cup {n}) = TotalOf(es, S) + e.delta
  BY <1>7, <1>10, <1>11, <1>12, <1>13 DEF UnitsGrow
<1>17. QED
  BY <1>14, <1>15, <1>16 DEF n, more, TotalsMove

(* Nothing adds up to nothing.                                             *)
LEMMA TotalOfNone == ASSUME NEW es PROVE TotalOf(es, {}) = 0
<1>1. \A d : DOMAIN d = {} => Units(d) = {}
  BY DEF Units
<1>2. DOMAIN [i \in {} |-> es[i].delta] = {} /\ DOMAIN [i \in {} |-> -es[i].delta] = {}
  OBVIOUS
<1>3. Units([i \in {} |-> es[i].delta]) = {} /\ Units([i \in {} |-> -es[i].delta]) = {}
  BY <1>1, <1>2
<1>4. Cardinality({}) = 0
  BY FS_EmptySet
<1>5. TotalOf(es, {}) = Cardinality({}) - Cardinality({})
  BY <1>3, Zenon DEF TotalOf
<1>6. QED
  BY <1>4, <1>5

-----------------------------------------------------------------------------
(* An entry of the books.                                                  *)

(* What a change of an event may be: nothing is booked, an award that is   *)
(* not over a limit, the reversal of an award, or an adjustment.           *)
Fits(e, change) ==
  /\ change.status \in EventStatuses /\ change.kind \in EntryKinds \cup {"none"} /\ change.delta \in Int
  /\ change.kind = "none" => change.delta = 0 /\ (change.status = "awarded" <=> e.status = "awarded")
  /\ change.kind = "award" => e.status = "pending" /\ change.status = "awarded" /\ change.delta = e.amount /\ ~Capped(e)
  /\ change.kind = "reversal" => e.status = "awarded" /\ change.status = "revoked"
  /\ change.kind = "adjustment" => e.kind = "adjustment"

(* Two states of an event.                                                 *)
SamePromise(e, f) ==
  /\ e.kind = f.kind /\ e.user = f.user /\ e.actor = f.actor /\ e.due = f.due
  /\ e.amount = f.amount /\ e.cap = f.cap /\ e.count = f.count /\ e.total = f.total

EntryOf(key, e, change) == [key |-> key, user |-> e.user, kind |-> change.kind, delta |-> change.delta, at |-> today]
EventsMove(key, e, change) ==
  /\ DOMAIN events' = DOMAIN events \cup {key} /\ events' \in [DOMAIN events' -> EventRow]
  /\ \A k \in DOMAIN events : k # key => events'[k] = events[k]
  /\ \A k \in DOMAIN events : SamePromise(events'[k], events[k])
  /\ SamePromise(events'[key], e) /\ events'[key].status = change.status
HistoryMoves(key, e, change) ==
  /\ history \in Seq(EntryRow(DOMAIN events')) /\ history' \in Seq(EntryRow(DOMAIN events'))
  /\ change.kind = "none" => history' = history
  /\ change.kind # "none" =>
       /\ EntryOf(key, e, change) \in EntryRow(DOMAIN events')
       /\ history' = Append(history, EntryOf(key, e, change))
       /\ \A i \in DOMAIN history : history[i].key # key \/ history[i].kind # change.kind
Booked(key, e, change) == EventsMove(key, e, change) /\ HistoryMoves(key, e, change)

(* A sequence over a set is one over a larger set.                         *)
LEMMA SeqWider == ASSUME NEW A, NEW B, A \subseteq B, NEW s \in Seq(A) PROVE s \in Seq(B)
  OBVIOUS

(* Settling or revoking an event fits it.                                  *)
LEMMA SettleFits ==
  ASSUME NEW e \in EventRow
  PROVE  Fits(e, Settle(e)) /\ Fits(e, Revoke(e))
<1>1. e.status \in EventStatuses /\ e.amount \in Nat
  BY DEF EventRow
<1>2. Fits(e, Settle(e))
  <2>1. CASE e.status # "pending" \/ e.due > today
    <3>1. Settle(e) = [status |-> e.status, kind |-> "none", delta |-> 0]
      BY <2>1 DEF Settle
    <3>2. QED
      BY <1>1, <3>1 DEF Fits, EntryKinds
  <2>2. CASE ~(e.status # "pending" \/ e.due > today) /\ Capped(e)
    <3>1. Settle(e) = [status |-> "capped", kind |-> "none", delta |-> 0] /\ e.status = "pending"
      BY <2>2 DEF Settle
    <3>2. QED
      BY <3>1 DEF Fits, EntryKinds, EventStatuses
  <2>3. CASE ~(e.status # "pending" \/ e.due > today) /\ ~Capped(e)
    <3>1. Settle(e) = [status |-> "awarded", kind |-> "award", delta |-> e.amount] /\ e.status = "pending"
      BY <2>3 DEF Settle
    <3>2. QED
      BY <1>1, <2>3, <3>1 DEF Fits, EntryKinds, EventStatuses
  <2>4. QED
    BY <2>1, <2>2, <2>3
<1>3. Fits(e, Revoke(e))
  <2>1. CASE e.status = "awarded"
    <3>1. Revoke(e) = [status |-> "revoked", kind |-> "reversal", delta |-> -e.amount]
      BY <2>1 DEF Revoke
    <3>2. QED
      BY <1>1, <2>1, <3>1 DEF Fits, EntryKinds, EventStatuses
  <2>2. CASE e.status # "awarded"
    <3>1. \/ Revoke(e) = [status |-> "capped", kind |-> "none", delta |-> 0]
          \/ Revoke(e) = [status |-> "revoked", kind |-> "none", delta |-> 0]
      BY <2>2 DEF Revoke
    <3>2. QED
      BY <2>2, <3>1 DEF Fits, EntryKinds, EventStatuses
  <2>3. QED
    BY <2>1, <2>2
<1>4. QED
  BY <1>2, <1>3

(* What Book does to the events and the ledger.                            *)
LEMMA BookMoves ==
  ASSUME BooksTyped, today \in Nat, NEW key, NEW e \in EventRow, key \in DOMAIN events => e = events[key],
         NEW change, Fits(e, change), Book(key, e, change)
  PROVE  Booked(key, e, change)
<1> DEFINE f == [e EXCEPT !.status = change.status]
           keys == DOMAIN events \cup {key}
<1>1. events' = [k \in keys |-> IF k = key THEN f ELSE events[k]]
  BY DEF Book
<1>2. f \in EventRow
  BY Zenon DEF EventRow, Fits
<1>3. SamePromise(f, e) /\ f.status = change.status
  BY DEF EventRow, SamePromise
<1> HIDE DEF f
<1>4. \A k \in DOMAIN events : events[k] \in EventRow
  BY DEF BooksTyped
<1>5. DOMAIN events' = keys /\ events' \in [keys -> EventRow] /\ events'[key] = f
  BY <1>1, <1>2, <1>4
<1>6. \A k \in DOMAIN events : k # key => events'[k] = events[k]
  BY <1>1
<1>7. \A k \in DOMAIN events : SamePromise(events'[k], events[k])
  <2> TAKE k \in DOMAIN events
  <2>1. CASE k = key
    BY <1>3, <1>5, <2>1
  <2>2. CASE k # key
    BY <1>6, <2>2 DEF SamePromise
  <2>3. QED
    BY <2>1, <2>2
<1>8. EventsMove(key, e, change)
  BY <1>3, <1>5, <1>6, <1>7 DEF EventsMove
<1>9. EntryRow(DOMAIN events) \subseteq EntryRow(keys)
  BY DEF EntryRow
<1>10. history \in Seq(EntryRow(keys))
  <2>1. history \in Seq(EntryRow(DOMAIN events))
    BY DEF BooksTyped
  <2> QED
    BY <1>9, <2>1, SeqWider
<1>11. CASE change.kind = "none"
  BY <1>5, <1>8, <1>10, <1>11 DEF Book, Booked, HistoryMoves
<1>12. CASE change.kind # "none"
  <2>1. EntryOf(key, e, change) \in EntryRow(keys)
    BY <1>12 DEF EntryOf, EntryRow, EventRow, Fits
  <2>2. /\ history' = Append(history, EntryOf(key, e, change))
        /\ \A i \in DOMAIN history : history[i].key # key \/ history[i].kind # change.kind
    BY <1>12 DEF Book, EntryOf
  <2>3. history' \in Seq(EntryRow(keys))
    BY <1>10, <2>1, <2>2
  <2>4. QED
    BY <1>5, <1>8, <1>10, <1>12, <2>1, <2>2, <2>3 DEF Booked, HistoryMoves
<1>13. QED
  BY <1>11, <1>12

-----------------------------------------------------------------------------
(* Limits.                                                                 *)

(* The awards of some events before and after an entry: the same, or one   *)
(* more.                                                                   *)
SameAwards(S, T) ==
  /\ T = S /\ TotalOf(history', S) = TotalOf(history, S)
  /\ \A i \in S : history'[i] = history[i] /\ history[i].key \in DOMAIN events
MoreAwards(S, T, key, amount) ==
  /\ Cardinality(S) \in Nat /\ Cardinality(T) = Cardinality(S) + 1
  /\ TotalOf(history, S) \in Int /\ TotalOf(history', T) = TotalOf(history, S) + amount
  /\ \E i \in T : history'[i].key = key
AwardsOf(es, keys) == {i \in DOMAIN es : es[i].kind = "award" /\ es[i].key \in keys}

(* An entry is of an event.                                                *)
LEMMA EntriesHaveEvents == BooksTyped => \A i \in DOMAIN history : history[i].key \in DOMAIN events
<1>1. \A r \in EntryRow(DOMAIN events) : r.key \in DOMAIN events
  BY DEF EntryRow
<1>2. history \in Seq(EntryRow(DOMAIN events)) => \A i \in DOMAIN history : history[i] \in EntryRow(DOMAIN events)
  OBVIOUS
<1>3. QED
  BY <1>1, <1>2 DEF BooksTyped

(* Only an award counts, and only for the events it is of.                 *)
LEMMA AwardsMove ==
  ASSUME BooksTyped, NEW key, NEW e, NEW change, Booked(key, e, change),
         NEW K \in SUBSET (DOMAIN events), NEW L, \A k \in DOMAIN events : k \in L <=> k \in K,
         NEW S, S = AwardsOf(history, K), NEW T, T = AwardsOf(history', L)
  PROVE  /\ change.kind = "award" /\ key \in L => MoreAwards(S, T, key, change.delta)
         /\ ~(change.kind = "award" /\ key \in L) => SameAwards(S, T)
<1> DEFINE R == EntryRow(DOMAIN events')
           x == EntryOf(key, e, change)
<1>1. history \in Seq(R) /\ \A r \in R : r.delta \in Int
  BY DEF Booked, HistoryMoves, EntryRow
<1>2. \A i \in DOMAIN history : history[i].key \in DOMAIN events
  BY EntriesHaveEvents
<1>3. S \in SUBSET (DOMAIN history)
  BY DEF AwardsOf
<1>4. CASE change.kind = "none"
  <2>1. history' = history
    BY <1>4 DEF Booked, HistoryMoves
  <2>2. T = S
    BY <1>2, <2>1 DEF AwardsOf
  <2>3. QED
    BY <1>2, <1>3, <1>4, <2>1, <2>2 DEF SameAwards
<1>5. CASE change.kind # "none"
  <2>1. x \in R /\ history' = Append(history, x)
    BY <1>5 DEF Booked, HistoryMoves
  <2>2. x.key = key /\ x.kind = change.kind /\ x.delta = change.delta
    BY DEF EntryOf
  <2> HIDE DEF x, R
  <2>3. /\ TotalOf(Append(history, x), S) = TotalOf(history, S) /\ TotalOf(history, S) \in Int
        /\ TotalOf(Append(history, x), S \cup {Len(history) + 1}) = TotalOf(history, S) + x.delta
        /\ Cardinality(S) \in Nat /\ Cardinality(S \cup {Len(history) + 1}) = Cardinality(S) + 1
    <3>1. PICK Q : Q = R
      OBVIOUS
    <3>2. PICK es \in Seq(Q) : es = history
      BY <1>1, <3>1
    <3>3. PICK y \in Q : y = x
      BY <2>1, <3>1
    <3>4. S \in SUBSET (DOMAIN es) /\ \A r \in Q : r.delta \in Int
      BY <1>1, <1>3, <3>1, <3>2
    <3>5. TotalsMove(es, y, S)
      BY <3>4, TotalMoves
    <3>6. QED
      BY <3>2, <3>3, <3>5 DEF TotalsMove
  <2>4. /\ DOMAIN history' = DOMAIN history \cup {Len(history) + 1} /\ Len(history) + 1 \notin DOMAIN history
        /\ \A i \in DOMAIN history : history'[i] = history[i]
        /\ history'[Len(history) + 1] = x
    BY <1>1, <2>1
  <2>5. CASE change.kind = "award" /\ key \in L
    <3>1. T = S \cup {Len(history) + 1}
      BY <1>2, <2>2, <2>4, <2>5 DEF AwardsOf
    <3>2. QED
      BY <2>1, <2>2, <2>3, <2>4, <2>5, <3>1 DEF MoreAwards
  <2>6. CASE ~(change.kind = "award" /\ key \in L)
    <3>1. T = S
      BY <1>2, <2>2, <2>4, <2>6 DEF AwardsOf
    <3>2. QED
      BY <1>2, <1>3, <2>1, <2>3, <2>4, <2>6, <3>1 DEF SameAwards
  <2>7. QED
    BY <2>5, <2>6
<1>6. QED
  BY <1>4, <1>5

(* What an award that is not capped leaves room for.                       *)
LEMMA NotCapped ==
  ASSUME NEW e \in EventRow, ~Capped(e)
  PROVE  /\ TotalOf(history, Awards(DailyKeys(e.user, e.due))) \in Int /\ Ordinary(e) =>
              TotalOf(history, Awards(DailyKeys(e.user, e.due))) + e.amount <= e.cap
         /\ Cardinality(Awards(KindKeys(e.user, e.due, e.kind))) \in Nat =>
              Cardinality(Awards(KindKeys(e.user, e.due, e.kind))) + 1 <= e.count
         /\ TotalOf(history, Awards(KindKeys(e.user, e.due, e.kind))) \in Int /\ e.kind # "featured" =>
              TotalOf(history, Awards(KindKeys(e.user, e.due, e.kind))) + e.amount <= e.total
         /\ Cardinality(Awards(PairKeys(e.user, e.due, e.actor))) \in Nat /\ e.kind = "like" =>
              Cardinality(Awards(PairKeys(e.user, e.due, e.actor))) + 1 <= PairLimit
<1>1. e.amount \in Int /\ e.cap \in Int /\ e.count \in Int /\ e.total \in Int /\ PairLimit \in Int
  BY GrowthAssumption DEF EventRow
<1>2. PICK day, alike, pair :
        /\ day = TotalOf(history, Awards(DailyKeys(e.user, e.due)))
        /\ alike = Awards(KindKeys(e.user, e.due, e.kind))
        /\ pair = Cardinality(Awards(PairKeys(e.user, e.due, e.actor)))
  OBVIOUS
<1>3. /\ ~(Cardinality(alike) >= e.count)
      /\ ~((IF e.kind = "featured" THEN 0 ELSE TotalOf(history, alike)) + e.amount > e.total)
      /\ ~(e.kind # "featured" /\ day + e.amount > e.cap)
      /\ ~(e.kind = "like" /\ pair >= PairLimit)
  BY <1>2 DEF Capped
<1>4. day \in Int /\ Ordinary(e) => day + e.amount <= e.cap
  BY <1>1, <1>3 DEF Ordinary
<1>5. Cardinality(alike) \in Nat => Cardinality(alike) + 1 <= e.count
  BY <1>1, <1>3
<1>6. TotalOf(history, alike) \in Int /\ e.kind # "featured" => TotalOf(history, alike) + e.amount <= e.total
  BY <1>1, <1>3
<1>7. pair \in Nat /\ e.kind = "like" => pair + 1 <= PairLimit
  BY <1>1, <1>3
<1>8. QED
  BY <1>2, <1>4, <1>5, <1>6, <1>7

(* The day.                                                                *)
LEMMA DayMoves ==
  ASSUME BooksTyped, NEW key, NEW e \in EventRow, NEW change, Fits(e, change), Booked(key, e, change),
         NEW u, NEW d, DayHolds(u, d)
  PROVE  DayHolds(u, d)'
<1>1. PICK K \in SUBSET (DOMAIN events) : K = DailyKeys(u, d)
  BY DEF DailyKeys
<1>2. PICK L : L = DailyKeys(u, d)'
  OBVIOUS
<1>3. /\ \A k \in DOMAIN events : k \in L <=> k \in K
      /\ key \in L <=> e.user = u /\ e.due = d /\ Ordinary(e)
  BY <1>1, <1>2 DEF DailyKeys, Booked, EventsMove, SamePromise, Ordinary
<1>4. PICK S : S = AwardsOf(history, K)
  OBVIOUS
<1>5. PICK T : T = AwardsOf(history', L)
  OBVIOUS
<1>6. S = Awards(DailyKeys(u, d)) /\ T = Awards(DailyKeys(u, d))'
  BY <1>1, <1>2, <1>4, <1>5 DEF Awards, AwardsOf
<1>7. S # {} => \E i \in S : TotalOf(history, S) <= events[history[i].key].cap
  BY <1>6 DEF DayHolds
<1>8. T # {} => \E i \in T : TotalOf(history', T) <= events'[history'[i].key].cap
  <2>1. CASE change.kind = "award" /\ key \in L
    <3>1. MoreAwards(S, T, key, change.delta)
      BY <1>3, <1>4, <1>5, <2>1, AwardsMove
    <3>2. TotalOf(history, S) + e.amount <= e.cap /\ change.delta = e.amount
      BY <1>3, <1>6, <2>1, <3>1, NotCapped DEF MoreAwards, Fits
    <3>3. events'[key].cap = e.cap
      BY DEF Booked, EventsMove, SamePromise
    <3>4. QED
      BY <3>1, <3>2, <3>3 DEF MoreAwards
  <2>2. CASE ~(change.kind = "award" /\ key \in L)
    <3>1. SameAwards(S, T)
      BY <1>3, <1>4, <1>5, <2>2, AwardsMove
    <3>2. \A k \in DOMAIN events : events'[k].cap = events[k].cap
      BY DEF Booked, EventsMove, SamePromise
    <3>3. QED
      BY <1>7, <3>1, <3>2 DEF SameAwards
  <2>3. QED
    BY <2>1, <2>2
<1>9. QED
  BY <1>6, <1>8 DEF DayHolds

(* The kind.                                                               *)
LEMMA KindMoves ==
  ASSUME BooksTyped, NEW key, NEW e \in EventRow, NEW change, Fits(e, change), Booked(key, e, change),
         NEW u, NEW d, NEW kind, KindHolds(u, d, kind)
  PROVE  KindHolds(u, d, kind)'
<1>1. PICK K \in SUBSET (DOMAIN events) : K = KindKeys(u, d, kind)
  BY DEF KindKeys
<1>2. PICK L : L = KindKeys(u, d, kind)'
  OBVIOUS
<1>3. /\ \A k \in DOMAIN events : k \in L <=> k \in K
      /\ key \in L <=> e.user = u /\ e.kind = kind /\ (kind = "featured" \/ e.due = d)
  BY <1>1, <1>2 DEF KindKeys, Booked, EventsMove, SamePromise
<1>4. PICK S : S = AwardsOf(history, K)
  OBVIOUS
<1>5. PICK T : T = AwardsOf(history', L)
  OBVIOUS
<1>6. S = Awards(KindKeys(u, d, kind)) /\ T = Awards(KindKeys(u, d, kind))'
  BY <1>1, <1>2, <1>4, <1>5 DEF Awards, AwardsOf
<1>7. S # {} => /\ \E i \in S : Cardinality(S) <= events[history[i].key].count
                /\ kind # "featured" => \E i \in S : TotalOf(history, S) <= events[history[i].key].total
  BY <1>6 DEF KindHolds
<1>8. T # {} => /\ \E i \in T : Cardinality(T) <= events'[history'[i].key].count
                /\ kind # "featured" => \E i \in T : TotalOf(history', T) <= events'[history'[i].key].total
  <2>1. CASE change.kind = "award" /\ key \in L
    <3>1. MoreAwards(S, T, key, change.delta)
      BY <1>3, <1>4, <1>5, <2>1, AwardsMove
    <3>2. S = Awards(KindKeys(e.user, e.due, e.kind))
      <4>1. KindKeys(u, d, kind) = KindKeys(e.user, e.due, e.kind)
        BY <1>3, <2>1 DEF KindKeys
      <4>2. QED
        BY <1>6, <4>1
    <3>3. /\ Cardinality(S) + 1 <= e.count /\ change.delta = e.amount
          /\ e.kind # "featured" => TotalOf(history, S) + e.amount <= e.total
      BY <2>1, <3>1, <3>2, NotCapped DEF MoreAwards, Fits
    <3>4. events'[key].count = e.count /\ events'[key].total = e.total /\ e.kind = kind
      BY <1>3, <2>1 DEF Booked, EventsMove, SamePromise
    <3>5. QED
      BY <3>1, <3>3, <3>4 DEF MoreAwards
  <2>2. CASE ~(change.kind = "award" /\ key \in L)
    <3>1. SameAwards(S, T)
      BY <1>3, <1>4, <1>5, <2>2, AwardsMove
    <3>2. \A k \in DOMAIN events : events'[k].count = events[k].count /\ events'[k].total = events[k].total
      BY DEF Booked, EventsMove, SamePromise
    <3>3. QED
      BY <1>7, <3>1, <3>2 DEF SameAwards
  <2>3. QED
    BY <2>1, <2>2
<1>9. QED
  BY <1>6, <1>8 DEF KindHolds

(* One member's votes for another.                                         *)
LEMMA PairMoves ==
  ASSUME BooksTyped, NEW key, NEW e \in EventRow, NEW change, Fits(e, change), Booked(key, e, change),
         NEW u, NEW d, NEW v, PairHolds(u, d, v)
  PROVE  PairHolds(u, d, v)'
<1>1. PICK K \in SUBSET (DOMAIN events) : K = PairKeys(u, d, v)
  BY DEF PairKeys, KindKeys
<1>2. PICK L : L = PairKeys(u, d, v)'
  OBVIOUS
<1>3. /\ \A k \in DOMAIN events : k \in L <=> k \in K
      /\ key \in L <=> e.user = u /\ e.kind = "like" /\ e.due = d /\ e.actor = v
  BY <1>1, <1>2 DEF PairKeys, KindKeys, Booked, EventsMove, SamePromise
<1>4. PICK S : S = AwardsOf(history, K)
  OBVIOUS
<1>5. PICK T : T = AwardsOf(history', L)
  OBVIOUS
<1>6. S = Awards(PairKeys(u, d, v)) /\ T = Awards(PairKeys(u, d, v))'
  BY <1>1, <1>2, <1>4, <1>5 DEF Awards, AwardsOf
<1>7. Cardinality(T) <= PairLimit
  <2>1. CASE change.kind = "award" /\ key \in L
    <3>1. MoreAwards(S, T, key, change.delta)
      BY <1>3, <1>4, <1>5, <2>1, AwardsMove
    <3>2. S = Awards(PairKeys(e.user, e.due, e.actor)) /\ e.kind = "like"
      BY <1>3, <1>6, <2>1
    <3>3. Cardinality(S) + 1 <= PairLimit
      BY <2>1, <3>1, <3>2, NotCapped DEF MoreAwards, Fits
    <3>4. QED
      BY <3>1, <3>3 DEF MoreAwards
  <2>2. CASE ~(change.kind = "award" /\ key \in L)
    <3>1. SameAwards(S, T)
      BY <1>3, <1>4, <1>5, <2>2, AwardsMove
    <3>2. QED
      BY <1>6, <3>1 DEF SameAwards, PairHolds
  <2>3. QED
    BY <2>1, <2>2
<1>8. QED
  BY <1>6, <1>7 DEF PairHolds

(* All limits.                                                             *)
LEMMA LimitsMove ==
  ASSUME BooksTyped, LimitsHold, NEW key, NEW e \in EventRow, NEW change, Fits(e, change), Booked(key, e, change)
  PROVE  LimitsHold'
<1> SUFFICES ASSUME NEW u \in People, NEW d \in 0 .. LastDay + 1
             PROVE  /\ DayHolds(u, d)' /\ \A kind \in Kinds : KindHolds(u, d, kind)'
                    /\ \A v \in Voters : PairHolds(u, d, v)'
  BY DEF LimitsHold
<1>1. DayHolds(u, d)'
  BY DayMoves DEF LimitsHold
<1>2. \A kind \in Kinds : KindHolds(u, d, kind)'
  BY KindMoves DEF LimitsHold
<1>3. \A v \in Voters : PairHolds(u, d, v)'
  BY PairMoves DEF LimitsHold
<1>4. QED
  BY <1>1, <1>2, <1>3

-----------------------------------------------------------------------------
(* Entries, statuses and balances.                                         *)

(* The positions of a ledger after an entry.                               *)
LEMMA PositionsMove ==
  ASSUME NEW key, NEW e, NEW change, Booked(key, e, change)
  PROVE  /\ Len(history) \in Nat /\ Len(history) + 1 \notin DOMAIN history
         /\ \A i \in DOMAIN history : history'[i] = history[i] /\ i \in DOMAIN history'
         /\ change.kind = "none" => DOMAIN history' = DOMAIN history /\ history' = history
         /\ change.kind # "none" => /\ DOMAIN history' = DOMAIN history \cup {Len(history) + 1}
                                    /\ history'[Len(history) + 1] = EntryOf(key, e, change)
                                    /\ history' = Append(history, EntryOf(key, e, change))
<1>1. PICK Q : history \in Seq(Q) /\ history' \in Seq(Q) /\ (change.kind # "none" => EntryOf(key, e, change) \in Q)
  BY DEF Booked, HistoryMoves
<1>2. change.kind # "none" => history' = Append(history, EntryOf(key, e, change))
  BY DEF Booked, HistoryMoves
<1>3. change.kind = "none" => history' = history
  BY DEF Booked, HistoryMoves
<1>4. CASE change.kind = "none"
  BY <1>1, <1>3, <1>4
<1>5. CASE change.kind # "none"
  <2>1. PICK y \in Q : y = EntryOf(key, e, change)
    BY <1>1, <1>5
  <2>2. PICK es \in Seq(Q) : es = history
    BY <1>1
  <2>3. /\ Len(es) \in Nat /\ Len(es) + 1 \notin DOMAIN es
        /\ \A i \in DOMAIN es : Append(es, y)[i] = es[i] /\ i \in DOMAIN Append(es, y)
        /\ DOMAIN Append(es, y) = DOMAIN es \cup {Len(es) + 1} /\ Append(es, y)[Len(es) + 1] = y
    OBVIOUS
  <2>4. QED
    BY <1>2, <1>5, <2>1, <2>2, <2>3
<1>6. QED
  BY <1>4, <1>5

(* Entries stay unique: the key of an entry is.                            *)
LEMMA UniqueMoves ==
  ASSUME UniqueEntries, NEW key, NEW e, NEW change, Booked(key, e, change)
  PROVE  UniqueEntries'
<1>1. CASE change.kind = "none"
  BY <1>1, PositionsMove DEF UniqueEntries
<1>2. CASE change.kind # "none"
  <2>1. \A i \in DOMAIN history : history[i].key # key \/ history[i].kind # change.kind
    BY <1>2 DEF Booked, HistoryMoves
  <2>2. EntryOf(key, e, change).key = key /\ EntryOf(key, e, change).kind = change.kind
    BY DEF EntryOf
  <2>3. QED
    BY <1>2, <2>1, <2>2, PositionsMove DEF UniqueEntries
<1>3. QED
  BY <1>1, <1>2

(* What is booked for an event after an entry.                             *)
LEMMA HasMoves ==
  ASSUME NEW key, NEW e, NEW change, Booked(key, e, change), NEW k, NEW kind
  PROVE  Has(k, kind)' <=> Has(k, kind) \/ (k = key /\ kind = change.kind /\ kind # "none")
<1>1. EntryOf(key, e, change).key = key /\ EntryOf(key, e, change).kind = change.kind
  BY DEF EntryOf
<1>2. QED
  BY <1>1, PositionsMove DEF Has

(* Nothing is booked for an event that is not there.                       *)
LEMMA NothingBooked == ASSUME BooksTyped, NEW k, k \notin DOMAIN events, NEW kind PROVE ~Has(k, kind)
  BY EntriesHaveEvents DEF Has

(* Statuses go on to say what was booked.                                  *)
LEMMA StatusMoves ==
  ASSUME BooksTyped, StatusFollows, NEW key, NEW e \in EventRow, NEW change, Fits(e, change), Booked(key, e, change),
         key \in DOMAIN events => e = events[key], key \notin DOMAIN events => e.status = "pending"
  PROVE  StatusFollows'
<1> SUFFICES ASSUME NEW k \in DOMAIN events' PROVE StatusIsBooked(k)'
  BY DEF StatusFollows
<1>1. /\ Has(k, "award")' <=> Has(k, "award") \/ (k = key /\ change.kind = "award")
      /\ Has(k, "reversal")' <=> Has(k, "reversal") \/ (k = key /\ change.kind = "reversal")
  BY HasMoves
<1>2. DOMAIN events' = DOMAIN events \cup {key}
  BY DEF Booked, EventsMove
<1>3. CASE k # key
  <2>1. k \in DOMAIN events /\ events'[k] = events[k]
    BY <1>2, <1>3 DEF Booked, EventsMove
  <2>2. QED
    BY <1>1, <1>3, <2>1 DEF StatusFollows, StatusIsBooked
<1>4. CASE k = key
  <2>1. events'[k].kind = e.kind /\ events'[k].status = change.status
    BY <1>4 DEF Booked, EventsMove, SamePromise
  <2>2. e.kind # "adjustment" =>
          /\ e.status = "awarded" <=> Has(k, "award") /\ ~Has(k, "reversal")
          /\ Has(k, "reversal") => Has(k, "award")
    <3>1. CASE key \in DOMAIN events
      BY <1>4, <3>1 DEF StatusFollows, StatusIsBooked
    <3>2. CASE key \notin DOMAIN events
      <4>1. ~Has(k, "award") /\ ~Has(k, "reversal")
        BY <1>4, <3>2, NothingBooked
      <4>2. QED
        BY <3>2, <4>1
    <3>3. QED
      BY <3>1, <3>2
  <2>3. change.kind = "award" => ~Has(k, "award")
    BY <1>4 DEF Booked, HistoryMoves, Has
  <2>4. QED
    BY <1>1, <1>4, <2>1, <2>2, <2>3 DEF StatusIsBooked, Fits, EntryKinds
<1>5. QED
  BY <1>3, <1>4

(* Balances by an amount.                                                  *)
BalancesBy(u, delta) ==
  \A w \in People : /\ w = u => account'[w].balance = account[w].balance + delta
                    /\ w # u => account'[w].balance = account[w].balance

(* The balance goes with the entries.                                      *)
LEMMA BalancesMove ==
  ASSUME BalancesAdd, NEW key, NEW e \in EventRow, NEW change, Fits(e, change), Booked(key, e, change),
         account \in [People -> AccountRow], BalancesBy(e.user, change.delta)
  PROVE  BalancesAdd'
<1> SUFFICES ASSUME NEW u \in People PROVE account'[u].balance = TotalOf(history', EntriesOf(u)')
  BY DEF BalancesAdd
<1>1. PICK S : S = EntriesOf(u)
  OBVIOUS
<1>2. PICK T : T = EntriesOf(u)'
  OBVIOUS
<1>3. account[u].balance = TotalOf(history, S) /\ account[u].balance \in Int
  BY <1>1 DEF BalancesAdd, AccountRow
<1>4. CASE change.kind = "none"
  <2>1. T = S /\ history' = history
    BY <1>1, <1>2, <1>4, PositionsMove DEF EntriesOf
  <2>2. change.delta = 0
    BY <1>4 DEF Fits
  <2>3. QED
    BY <1>2, <1>3, <2>1, <2>2 DEF BalancesBy
<1>5. CASE change.kind # "none"
  <2>1. PICK Q : Q = EntryRow(DOMAIN events')
    OBVIOUS
  <2>2. PICK es \in Seq(Q) : es = history
    BY <2>1 DEF Booked, HistoryMoves
  <2>3. PICK y \in Q : y = EntryOf(key, e, change)
    BY <1>5, <2>1 DEF Booked, HistoryMoves
  <2>4. S \in SUBSET (DOMAIN es) /\ \A r \in Q : r.delta \in Int
    BY <1>1, <2>1, <2>2 DEF EntriesOf, EntryRow
  <2>5. TotalsMove(es, y, S)
    BY <2>4, TotalMoves
  <2>6. y.user = e.user /\ y.delta = change.delta
    BY <2>3 DEF EntryOf
  <2>7. history' = Append(es, y)
    BY <1>5, <2>2, <2>3, PositionsMove
  <2>8. u = e.user => T = S \cup {Len(es) + 1}
    BY <1>1, <1>2, <1>5, <2>2, <2>3, <2>6, PositionsMove DEF EntriesOf
  <2>9. u # e.user => T = S
    BY <1>1, <1>2, <1>5, <2>2, <2>3, <2>6, PositionsMove DEF EntriesOf
  <2>10. QED
    BY <1>2, <1>3, <2>2, <2>5, <2>6, <2>7, <2>8, <2>9 DEF TotalsMove, BalancesBy
<1>6. QED
  BY <1>4, <1>5

(* Keys go on to tell where events come from.                              *)
LEMMA KeysStillTell ==
  ASSUME KeysTell, NEW key, NEW e, NEW change, Booked(key, e, change), KeyTells(key, e)', audited \subseteq audited'
  PROVE  KeysTell'
<1> SUFFICES ASSUME NEW k \in DOMAIN events' PROVE KeyTells(k, events[k])'
  BY DEF KeysTell
<1>1. CASE k = key
  BY <1>1 DEF KeyTells, Booked, EventsMove, SamePromise
<1>2. CASE k # key
  <2>1. k \in DOMAIN events /\ events'[k] = events[k]
    BY <1>2 DEF Booked, EventsMove
  <2>2. QED
    BY <2>1 DEF KeysTell, KeyTells
<1>3. QED
  BY <1>1, <1>2

(* A transaction that books a change of one event, whatever else of its    *)
(* member's account it writes.                                             *)
LEMMA BookIsSound ==
  ASSUME BooksAreSound, today \in Nat, NEW key, NEW e \in EventRow, NEW change, Fits(e, change), Book(key, e, change),
         key \in DOMAIN events => e = events[key], key \notin DOMAIN events => e.status = "pending",
         KeyTells(key, e)', audited \subseteq audited',
         order' = order \/ order' = Append(order, key),
         account' \in [People -> AccountRow], BalancesBy(e.user, change.delta),
         EventsMove(key, e, change) => StreaksAreReal'
  PROVE  BooksAreSound' /\ EventsMove(key, e, change)
<1>1. Booked(key, e, change)
  BY BookMoves DEF BooksAreSound
<1>2. BooksTyped'
  <2>1. PICK K : K = DOMAIN events
    OBVIOUS
  <2>2. PICK L : L = DOMAIN events'
    OBVIOUS
  <2>3. L = K \cup {key} /\ events' \in [L -> EventRow] /\ history' \in Seq(EntryRow(L))
    BY <1>1, <2>1, <2>2 DEF Booked, EventsMove, HistoryMoves
  <2>4. order \in Seq(K)
    BY <2>1 DEF BooksAreSound, BooksTyped
  <2>5. order \in Seq(L)
    BY <2>3, <2>4, SeqWider
  <2>6. order' \in Seq(L)
    BY <2>3, <2>5
  <2>7. QED
    BY <2>2, <2>3, <2>6 DEF BooksTyped
<1>3. UniqueEntries'
  BY <1>1, UniqueMoves DEF BooksAreSound
<1>4. StatusFollows'
  BY <1>1, StatusMoves DEF BooksAreSound
<1>5. BalancesAdd'
  <2>1. account \in [People -> AccountRow]
    BY DEF BooksAreSound, BooksTyped
  <2>2. QED
    BY <1>1, <2>1, BalancesMove DEF BooksAreSound
<1>6. KeysTell'
  BY <1>1, KeysStillTell DEF BooksAreSound
<1>7. LimitsHold'
  BY <1>1, LimitsMove DEF BooksAreSound
<1>8. QED
  BY <1>1, <1>2, <1>3, <1>4, <1>5, <1>6, <1>7 DEF BooksAreSound, Booked

(* A transaction that credits the member of the event.                     *)
LEMMA CreditIsSound ==
  ASSUME BooksAreSound, today \in Nat, NEW key, NEW e \in EventRow, NEW change, Fits(e, change), Book(key, e, change),
         key \in DOMAIN events => e = events[key], key \notin DOMAIN events => e.status = "pending",
         KeyTells(key, e)', audited \subseteq audited',
         order' = order \/ order' = Append(order, key), Credit(e.user, change.delta)
  PROVE  BooksAreSound' /\ EventsMove(key, e, change)
<1>1. e.user \in People /\ change.delta \in Int
  BY DEF EventRow, Fits
<1>2. account \in [People -> AccountRow]
  BY DEF BooksAreSound, BooksTyped
<1>3. PICK row : row = [account[e.user] EXCEPT !.balance = @ + change.delta]
  OBVIOUS
<1>4. /\ row \in AccountRow /\ row.balance = account[e.user].balance + change.delta
      /\ row.last = account[e.user].last /\ row.streak = account[e.user].streak
  BY <1>1, <1>2, <1>3 DEF AccountRow
<1>5. account' = [account EXCEPT ![e.user] = row]
  BY <1>3 DEF Credit
<1>6. account' \in [People -> AccountRow] /\ BalancesBy(e.user, change.delta)
  BY <1>1, <1>2, <1>4, <1>5 DEF BalancesBy
<1>7. \A u \in People : account'[u].last = account[u].last /\ account'[u].streak = account[u].streak
  BY <1>1, <1>2, <1>4, <1>5
<1>8. EventsMove(key, e, change) => StreaksAreReal'
  BY <1>7 DEF BooksAreSound, StreaksAreReal, EventsMove
<1>9. QED
  BY <1>6, <1>8, BookIsSound

-----------------------------------------------------------------------------
(* Pages.                                                                  *)

(* A set of positions that is not empty has a first one, which Min is.     *)
LEMMA FirstPosition ==
  ASSUME NEW S \in SUBSET Nat, S # {}
  PROVE  Min(S) \in S /\ \A l \in S : Min(S) <= l
<1>1. IsWellFoundedOn(Smaller, Nat)
  BY NatLessThanWellFounded DEF OpToRel, Smaller
<1>2. PICK m \in S : \A l \in S : ~(<<l, m>> \in Smaller)
  BY <1>1, WFMin
<1>3. ASSUME NEW l \in S PROVE m <= l
  <2>1. <<l, m>> \in Nat \X Nat /\ <<l, m>>[1] = l /\ <<l, m>>[2] = m
    OBVIOUS
  <2>2. ~(l < m)
    BY <1>2, <2>1 DEF Smaller
  <2>3. QED
    BY <2>1, <2>2
<1>4. QED
  BY <1>3 DEF Min

(* Where there is anything to do, a page has some of it.                   *)
LEMMA PageHasRows ==
  ASSUME NEW S \in SUBSET Nat, S # {}
  PROVE  PageOf(S) # {} /\ PageOf(S) \subseteq S
<1>1. Min(S) \in S /\ \A l \in S : Min(S) <= l
  BY FirstPosition
<1>2. {j \in S : j < Min(S)} = {}
  <2>1. \A j \in S : j \in Nat /\ Min(S) \in Nat /\ Min(S) <= j
    BY <1>1
  <2>2. \A j \in S : ~(j < Min(S))
    BY <2>1
  <2>3. QED
    BY <2>2
<1>3. Cardinality({j \in S : j < Min(S)}) = 0
  BY <1>2, FS_EmptySet
<1>4. Min(S) \in PageOf(S)
  BY <1>1, <1>3, GrowthAssumption DEF PageOf
<1>5. QED
  BY <1>4 DEF PageOf

(* Rows and ids stay where they are.                                       *)
FactsGrow == DOMAIN facts \subseteq DOMAIN facts'
OrderGrows ==
  /\ DOMAIN order \subseteq DOMAIN order'
  /\ \A i \in DOMAIN order : order'[i] = order[i] /\ events'[order[i]].kind = events[order[i]].kind

(* They do when nothing is booked,                                         *)
LEMMA OrderStands == UNCHANGED <<events, order>> => OrderGrows
  BY DEF OrderGrows

(* and when something is.                                                  *)
LEMMA OrderMoves ==
  ASSUME BooksTyped, NEW key, NEW e, NEW change, EventsMove(key, e, change),
         order' = order \/ order' = Append(order, key)
  PROVE  OrderGrows
<1>1. PICK K : K = DOMAIN events
  OBVIOUS
<1>2. order \in Seq(K)
  BY <1>1 DEF BooksTyped
<1>3. DOMAIN order \subseteq DOMAIN order' /\ \A i \in DOMAIN order : order'[i] = order[i]
  <2>1. CASE order' = order
    BY <2>1
  <2>2. CASE order' = Append(order, key)
    <3>1. PICK L : L = K \cup {key}
      OBVIOUS
    <3>2. order \in Seq(L)
      BY <1>2, <3>1, SeqWider
    <3>3. QED
      BY <2>2, <3>1, <3>2
  <2>3. QED
    BY <2>1, <2>2
<1>4. \A i \in DOMAIN order : order[i] \in DOMAIN events
  BY <1>1, <1>2
<1>5. \A k \in DOMAIN events : events'[k].kind = events[k].kind
  BY DEF EventsMove, SamePromise
<1>6. QED
  BY <1>3, <1>4, <1>5 DEF OrderGrows

(* What a collector has read stays as good as it was.                      *)
LEMMA BatchStays ==
  ASSUME FactsGrow, OrderGrows, NEW b, BatchIsSound(b)
  PROVE  BatchIsSound(b)'
  BY DEF FactsGrow, OrderGrows, BatchIsSound

(* One collector goes on.                                                  *)
LEMMA BatchesMove ==
  ASSUME work \in [Collectors -> Batches], \A k \in Collectors : BatchIsSound(work[k]), FactsGrow, OrderGrows,
         NEW c \in Collectors, NEW b \in Batches, BatchIsSound(b)', work' = [work EXCEPT ![c] = b]
  PROVE  work' \in [Collectors -> Batches] /\ \A k \in Collectors : BatchIsSound(work[k])'
<1>1. work' \in [Collectors -> Batches]
  OBVIOUS
<1>2. ASSUME NEW k \in Collectors PROVE BatchIsSound(work[k])'
  <2>1. CASE k = c
    <3>1. work'[k] = b
      BY <2>1
    <3>2. QED
      BY <3>1 DEF BatchIsSound
  <2>2. CASE k # c
    <3>1. PICK x : x = work[k]
      OBVIOUS
    <3>2. BatchIsSound(x)
      BY <3>1
    <3>3. BatchIsSound(x)'
      BY <3>2, BatchStays
    <3>4. work'[k] = x
      BY <2>2, <3>1
    <3>5. QED
      BY <3>3, <3>4 DEF BatchIsSound
  <2>3. QED
    BY <2>1, <2>2
<1>3. QED
  BY <1>1, <1>2

(* None does.                                                              *)
LEMMA BatchesStay ==
  ASSUME \A k \in Collectors : BatchIsSound(work[k]), FactsGrow, OrderGrows, work' = work
  PROVE  \A k \in Collectors : BatchIsSound(work[k])'
<1> TAKE k \in Collectors
<1>1. PICK x : x = work[k]
  OBVIOUS
<1>2. BatchIsSound(x)'
  BY <1>1, BatchStays
<1>3. work'[k] = x
  BY <1>1
<1>4. QED
  BY <1>2, <1>3 DEF BatchIsSound

(* A collector that is done with a row has the others left.                *)
GoesOn(b, to) ==
  \/ b.pc = "next" /\ to = "row"
  \/ b.pc = "event" /\ to = "event"
IsLeft(rest, b, to) ==
  /\ rest \in Batches
  /\ rest = Idle \/ (rest.pc = to /\ rest.page # {} /\ rest.page \subseteq b.page)

(* What is left is a page or nothing.                                      *)
LEMMA RemainingIs ==
  ASSUME NEW c \in Collectors, NEW b \in Batches, b = work[c], BatchIsSound(b), NEW to, GoesOn(b, to)
  PROVE  NextOf(c) \in b.page /\ IsLeft(Remaining(c, to), b, to)
<1>1. b.page \in SUBSET Nat /\ b.page # {}
  BY DEF Batches, Idle, Down, BatchIsSound, GoesOn
<1>2. Min(b.page) \in b.page
  BY <1>1, FirstPosition
<1>3. NextOf(c) = Min(b.page)
  BY DEF NextOf
<1>4. PICK rest : rest = b.page \ {NextOf(c)}
  OBVIOUS
<1>5. rest \subseteq b.page /\ rest \in SUBSET Nat
  BY <1>1, <1>4
<1>6. Remaining(c, to) = IF rest = {} THEN Idle ELSE [b EXCEPT !.pc = to, !.page = rest]
  BY <1>4 DEF Remaining
<1>7. CASE rest = {}
  <2>1. Remaining(c, to) = Idle /\ Idle \in Batches
    BY <1>6, <1>7 DEF Batches
  <2>2. IsLeft(Remaining(c, to), b, to)
    BY <2>1 DEF IsLeft
  <2>3. QED
    BY <1>2, <1>3, <2>2
<1>8. CASE rest # {}
  <2>1. Remaining(c, to) = [b EXCEPT !.pc = to, !.page = rest]
    BY <1>6, <1>8
  <2>2. CASE b.pc = "next"
    <3>1. b \in [pc : {"row", "next"}, set : AllRules, page : SUBSET Nat] /\ to = "row"
      BY <2>2 DEF Batches, Idle, Down, GoesOn
    <3>2. /\ [b EXCEPT !.pc = to, !.page = rest] \in [pc : {"row", "next"}, set : AllRules, page : SUBSET Nat]
          /\ [b EXCEPT !.pc = to, !.page = rest].pc = to /\ [b EXCEPT !.pc = to, !.page = rest].page = rest
      BY <1>5, <3>1
    <3>3. QED
      BY <1>2, <1>3, <1>5, <1>8, <2>1, <3>2 DEF Batches, IsLeft
  <2>3. CASE b.pc = "event"
    <3>1. b \in [pc : {"event"}, page : SUBSET Nat] /\ to = "event"
      BY <2>3 DEF Batches, Idle, Down, GoesOn
    <3>2. /\ [b EXCEPT !.pc = to, !.page = rest] \in [pc : {"event"}, page : SUBSET Nat]
          /\ [b EXCEPT !.pc = to, !.page = rest].pc = to /\ [b EXCEPT !.pc = to, !.page = rest].page = rest
      BY <1>5, <3>1
    <3>3. QED
      BY <1>2, <1>3, <1>5, <1>8, <2>1, <3>2 DEF Batches, IsLeft
  <2>4. QED
    BY <2>2, <2>3 DEF GoesOn
<1>9. QED
  BY <1>7, <1>8

-----------------------------------------------------------------------------
(* Steps that book nothing.                                                *)

(* The books stand.                                                        *)
LEMMA BooksStand ==
  ASSUME BooksAreSound, UNCHANGED <<account, events, order, history>>, audited \subseteq audited'
  PROVE  BooksAreSound'
<1>1. BooksTyped'
  BY DEF BooksAreSound, BooksTyped
<1>2. UniqueEntries'
  BY DEF BooksAreSound, UniqueEntries
<1>3. StatusFollows'
  BY DEF BooksAreSound, StatusFollows, StatusIsBooked, Has
<1>4. BalancesAdd'
  <2>1. \A u \in People : EntriesOf(u)' = EntriesOf(u)
    BY DEF EntriesOf
  <2>2. QED
    BY <2>1 DEF BooksAreSound, BalancesAdd
<1>5. KeysTell'
  BY DEF BooksAreSound, KeysTell, KeyTells
<1>6. LimitsHold'
  <2>1. \A u, d : Awards(DailyKeys(u, d))' = Awards(DailyKeys(u, d))
    BY DEF Awards, DailyKeys
  <2>2. \A u, d, kind : Awards(KindKeys(u, d, kind))' = Awards(KindKeys(u, d, kind))
    BY DEF Awards, KindKeys
  <2>3. \A u, d, v : Awards(PairKeys(u, d, v))' = Awards(PairKeys(u, d, v))
    BY DEF Awards, PairKeys, KindKeys
  <2>4. \A u, d : DayHolds(u, d) => DayHolds(u, d)'
    BY <2>1 DEF DayHolds
  <2>5. \A u, d, kind : KindHolds(u, d, kind) => KindHolds(u, d, kind)'
    BY <2>2 DEF KindHolds
  <2>6. \A u, d, v : PairHolds(u, d, v) => PairHolds(u, d, v)'
    BY <2>3 DEF PairHolds
  <2>7. QED
    BY <2>4, <2>5, <2>6 DEF BooksAreSound, LimitsHold
<1>7. StreaksAreReal'
  BY DEF BooksAreSound, StreaksAreReal
<1>8. QED
  BY <1>1, <1>2, <1>3, <1>4, <1>5, <1>6, <1>7 DEF BooksAreSound

(* A post or a vote.                                                       *)
LEMMA OccurStep ==
  ASSUME GrowthIsSound, NEW kind \in {"answer", "like"}, NEW about \in Posts, NEW actor \in People,
         Occur(kind, about, actor), UNCHANGED <<today, rules, books, place, work, asked, audited>>
  PROVE  GrowthIsSound'
<1>1. [kind |-> kind, post |-> about, actor |-> actor, at |-> today] \in FactRow
  BY DEF FactRow, GrowthIsSound, CollectTyped
<1>2. facts \in Seq(FactRow)
  BY DEF GrowthIsSound, CollectTyped
<1>3. facts' = Append(facts, [kind |-> kind, post |-> about, actor |-> actor, at |-> today])
  BY DEF Occur
<1>4. facts' \in Seq(FactRow) /\ FactsGrow
  BY <1>1, <1>2, <1>3 DEF FactsGrow
<1>5. CollectTyped'
  BY <1>4 DEF GrowthIsSound, CollectTyped
<1>6. BooksAreSound'
  BY BooksStand DEF GrowthIsSound, books
<1>7. OrderGrows
  BY OrderStands DEF books
<1>8. QED
  BY <1>4, <1>5, <1>6, <1>7, BatchesStay DEF GrowthIsSound

(* A step that changes nothing but clock, settings, what is visible, who   *)
(* asks, and the audit.                                                    *)
LEMMA AsideStep ==
  ASSUME GrowthIsSound, UNCHANGED <<facts, books, place, work>>,
         today' \in Nat, rules' \in [version : Nat, set : AllRules],
         asked' \subseteq People \X Int, audited \subseteq audited', audited' \subseteq AdminRequests
  PROVE  GrowthIsSound'
<1>1. CollectTyped'
  BY DEF GrowthIsSound, CollectTyped
<1>2. BooksAreSound'
  BY BooksStand DEF GrowthIsSound, books
<1>3. FactsGrow /\ OrderGrows
  BY OrderStands DEF FactsGrow, books
<1>4. QED
  BY <1>1, <1>2, <1>3, BatchesStay DEF GrowthIsSound

(* A collector takes a batch, or goes on within one.                       *)
LEMMA BatchStep ==
  ASSUME GrowthIsSound, UNCHANGED <<today, facts, rules, books, asked, audited>>,
         place' \in [rows : Nat, reconcile : Nat],
         NEW c \in Collectors, NEW b \in Batches, BatchIsSound(b), work' = [work EXCEPT ![c] = b]
  PROVE  GrowthIsSound'
<1>1. FactsGrow /\ OrderGrows
  BY OrderStands DEF FactsGrow, books
<1>2. BatchIsSound(b)'
  BY <1>1, BatchStays
<1>3. work' \in [Collectors -> Batches] /\ \A k \in Collectors : BatchIsSound(work[k])'
  BY <1>1, <1>2, BatchesMove DEF GrowthIsSound, CollectTyped
<1>4. CollectTyped'
  BY <1>3 DEF GrowthIsSound, CollectTyped
<1>5. BooksAreSound'
  BY BooksStand DEF GrowthIsSound, books
<1>6. QED
  BY <1>3, <1>4, <1>5 DEF GrowthIsSound

(* The batch a collector has.                                              *)
LEMMA BatchIs ==
  ASSUME GrowthIsSound, NEW c \in Collectors
  PROVE  work[c] \in Batches /\ BatchIsSound(work[c])
  BY DEF GrowthIsSound, CollectTyped

(* A page of rows is read.                                                 *)
LEMMA StartCollectStep == ASSUME GrowthIsSound, NEW c \in Collectors, StartCollect(c) PROVE GrowthIsSound'
<1>1. PICK ids : ids = place.rows + 1 .. Len(facts)
  OBVIOUS
<1>2. place.rows \in Nat /\ Len(facts) \in Nat /\ DOMAIN facts = 1 .. Len(facts)
  BY DEF GrowthIsSound, CollectTyped
<1>3. ids \in SUBSET Nat /\ ids # {} /\ ids \subseteq DOMAIN facts
  <2>1. PICK p, n : p = place.rows /\ n = Len(facts)
    OBVIOUS
  <2>2. p \in Nat /\ n \in Nat /\ p < n /\ ids = p + 1 .. n
    BY <1>1, <1>2, <2>1 DEF StartCollect
  <2>3. p + 1 .. n \in SUBSET Nat /\ p + 1 \in p + 1 .. n /\ p + 1 .. n \subseteq 1 .. n
    BY <2>2
  <2>4. QED
    BY <1>2, <2>1, <2>2, <2>3
<1>4. PageOf(ids) # {} /\ PageOf(ids) \subseteq ids
  BY <1>3, PageHasRows
<1>5. PICK b : b = [pc |-> "row", set |-> rules.set, page |-> PageOf(ids)]
  OBVIOUS
<1>6. rules.set \in AllRules
  BY DEF GrowthIsSound, CollectTyped
<1>7. b \in Batches /\ BatchIsSound(b)
  BY <1>3, <1>4, <1>5, <1>6 DEF Batches, BatchIsSound
<1>8. work' = [work EXCEPT ![c] = b]
  BY <1>1, <1>5 DEF StartCollect
<1>9. place' \in [rows : Nat, reconcile : Nat]
  BY DEF StartCollect, GrowthIsSound, CollectTyped
<1>10. QED
  BY <1>7, <1>8, <1>9, BatchStep DEF StartCollect, posted

(* The cursor moves behind a row.                                          *)
LEMMA NextRowStep == ASSUME GrowthIsSound, NEW c \in Collectors, NextRow(c) PROVE GrowthIsSound'
<1>1. PICK b \in Batches : b = work[c]
  BY BatchIs
<1>2. BatchIsSound(b) /\ b.pc = "next"
  BY <1>1, BatchIs DEF NextRow
<1>3. PICK rest : rest = Remaining(c, "row")
  OBVIOUS
<1>4. NextOf(c) \in b.page /\ IsLeft(rest, b, "row")
  <2>1. PICK to : to = "row"
    OBVIOUS
  <2>2. GoesOn(b, to)
    BY <1>2, <2>1 DEF GoesOn
  <2>3. NextOf(c) \in b.page /\ IsLeft(Remaining(c, to), b, to)
    BY <1>1, <1>2, <2>2, RemainingIs
  <2>4. QED
    BY <1>3, <2>1, <2>3
<1>5. b.page \subseteq DOMAIN facts /\ DOMAIN facts \subseteq Nat
  BY <1>2 DEF BatchIsSound, GrowthIsSound, CollectTyped
<1>6. rest \in Batches /\ BatchIsSound(rest)
  BY <1>4, <1>5 DEF BatchIsSound, Idle, IsLeft
<1>7. place' \in [rows : Nat, reconcile : Nat]
  BY <1>4, <1>5 DEF NextRow, GrowthIsSound, CollectTyped
<1>8. QED
  BY <1>3, <1>4, <1>6, <1>7, BatchStep DEF NextRow, posted

(* A page of events is read, or the reconciler starts over.                *)
LEMMA StartReconcileStep == ASSUME GrowthIsSound, NEW c \in Collectors, StartReconcile(c) PROVE GrowthIsSound'
<1>1. PICK ids : ids = {i \in DOMAIN order : /\ i > place.reconcile /\ events[order[i]].status \in {"pending", "awarded"}
                                            /\ events[order[i]].kind \in {"answer", "like", "featured"}}
  OBVIOUS
<1>2. UNCHANGED <<today, facts, rules, books, asked, audited>>
  BY DEF StartReconcile, posted
<1>3. CASE ids = {}
  <2>1. place' = [place EXCEPT !.reconcile = 0] /\ work' = work
    BY <1>1, <1>3 DEF StartReconcile
  <2>2. place' \in [rows : Nat, reconcile : Nat]
    BY <2>1 DEF GrowthIsSound, CollectTyped
  <2>3. CollectTyped'
    BY <1>2, <2>1, <2>2 DEF GrowthIsSound, CollectTyped
  <2>4. BooksAreSound'
    BY <1>2, BooksStand DEF GrowthIsSound, books
  <2>5. FactsGrow /\ OrderGrows
    BY <1>2, OrderStands DEF FactsGrow, books
  <2>6. QED
    BY <2>1, <2>3, <2>4, <2>5, BatchesStay DEF GrowthIsSound
<1>4. CASE ids # {}
  <2>1. DOMAIN order \subseteq Nat
    BY DEF GrowthIsSound, BooksAreSound, BooksTyped
  <2>2. ids \in SUBSET Nat /\ ids \subseteq DOMAIN order
    BY <1>1, <2>1
  <2>3. PageOf(ids) # {} /\ PageOf(ids) \subseteq ids
    BY <1>4, <2>2, PageHasRows
  <2>4. \A i \in ids : events[order[i]].kind # "adjustment"
    BY <1>1
  <2>5. PICK b : b = [pc |-> "event", page |-> PageOf(ids)]
    OBVIOUS
  <2>6. b \in Batches /\ BatchIsSound(b)
    BY <2>2, <2>3, <2>4, <2>5 DEF Batches, BatchIsSound
  <2>7. work' = [work EXCEPT ![c] = b] /\ place' = place
    BY <1>1, <1>4, <2>5 DEF StartReconcile
  <2>8. place' \in [rows : Nat, reconcile : Nat]
    BY <2>7 DEF GrowthIsSound, CollectTyped
  <2>9. QED
    BY <1>2, <2>6, <2>7, <2>8, BatchStep
<1>5. QED
  BY <1>3, <1>4

(* A batch is given up.                                                    *)
LEMMA StopCollectStep == ASSUME GrowthIsSound, NEW c \in Collectors, StopCollect(c) PROVE GrowthIsSound'
<1>1. Idle \in Batches /\ BatchIsSound(Idle)
  BY DEF Batches, BatchIsSound, Idle
<1>2. place' \in [rows : Nat, reconcile : Nat]
  BY DEF StopCollect, GrowthIsSound, CollectTyped
<1>3. QED
  BY <1>1, <1>2, BatchStep DEF StopCollect, posted

-----------------------------------------------------------------------------
(* Steps that book.                                                        *)

(* The event a rule promises.                                              *)
LEMMA PromisedIs ==
  ASSUME NEW kind \in Kinds, NEW user \in People, NEW about \in Posts \cup {"none"}, NEW actor \in People \cup {"none"},
         NEW due \in Int, NEW r \in AllRules
  PROVE  /\ Promised(kind, user, about, actor, due, r) \in EventRow
         /\ Promised(kind, user, about, actor, due, r).kind = kind
         /\ Promised(kind, user, about, actor, due, r).status = "pending"
<1>1. r.cap \in Nat /\ r.amount[kind] \in Nat \ {0} /\ r.count[kind] \in Nat /\ r.total[kind] \in Nat
  BY GrowthAssumption
<1>2. QED
  BY <1>1 DEF Promised, Event, EventRow, EventStatuses

(* Judging an event is a transaction of the books.                         *)
LEMMA JudgeIsSound ==
  ASSUME BooksAreSound, today \in Nat, NEW key, NEW e \in EventRow, Judge(key, e),
         key \in DOMAIN events => e = events[key], key \notin DOMAIN events => e.status = "pending",
         KeyTells(key, e)', audited' = audited, order' = order \/ order' = Append(order, key)
  PROVE  BooksAreSound' /\ OrderGrows
<1>1. PICK change : /\ change = IF SourceValid(e, e.due - 1) THEN Settle(e) ELSE Revoke(e)
                    /\ Book(key, e, change) /\ Credit(e.user, change.delta)
  BY DEF Judge
<1>2. Fits(e, change)
  BY <1>1, SettleFits
<1>3. BooksAreSound' /\ EventsMove(key, e, change)
  BY <1>1, <1>2, CreditIsSound
<1>4. OrderGrows
  BY <1>3, OrderMoves DEF BooksAreSound
<1>5. QED
  BY <1>3, <1>4

(* A row is collected.                                                     *)
LEMMA CollectRowStep == ASSUME GrowthIsSound, NEW c \in Collectors, CollectRow(c) PROVE GrowthIsSound'
<1>1. PICK b \in Batches : b = work[c]
  BY BatchIs
<1>2. BatchIsSound(b) /\ b.pc = "row"
  BY <1>1, BatchIs DEF CollectRow
<1>3. b \in [pc : {"row", "next"}, set : AllRules, page : SUBSET Nat]
  BY <1>2 DEF Batches, Idle, Down
<1>4. b.page # {} /\ b.page \subseteq DOMAIN facts
  BY <1>2 DEF BatchIsSound
<1>5. NextOf(c) \in DOMAIN facts
  <2>1. b.page \in SUBSET Nat
    BY <1>3
  <2>2. Min(b.page) \in b.page
    BY <1>4, <2>1, FirstPosition
  <2>3. QED
    BY <1>1, <1>4, <2>2 DEF NextOf
<1>6. PICK f \in FactRow : f = facts[NextOf(c)]
  BY <1>5 DEF GrowthIsSound, CollectTyped
<1>7. PICK key : key = SourceOf(f)
  OBVIOUS
<1>8. key[1] = f.kind
  BY <1>7 DEF SourceOf
<1>9. PICK new : new = Promised(f.kind, Owner[f.post], f.post, f.actor, f.at + 1, b.set)
  OBVIOUS
<1>10. new \in EventRow /\ new.kind = f.kind /\ new.status = "pending"
  <2>1. f.kind \in Kinds /\ Owner[f.post] \in People /\ f.post \in Posts /\ f.actor \in People /\ f.at + 1 \in Int
    BY DEF FactRow, Kinds, People
  <2>2. b.set \in AllRules
    BY <1>3
  <2>3. QED
    BY <1>9, <2>1, <2>2, PromisedIs
<1>11. PICK e : e = Registered(key, new)
  OBVIOUS
<1>12. /\ key \in DOMAIN events => e = events[key]
       /\ key \notin DOMAIN events => e = new
  BY <1>11 DEF Registered
<1>13. e \in EventRow
  BY <1>10, <1>12 DEF GrowthIsSound, BooksAreSound, BooksTyped
<1>14. KeyTells(key, e)
  <2>1. CASE key \in DOMAIN events
    BY <1>12, <2>1 DEF GrowthIsSound, BooksAreSound, KeysTell
  <2>2. CASE key \notin DOMAIN events
    <3>1. e.kind = f.kind /\ f.kind \in {"answer", "like"}
      BY <1>10, <1>12, <2>2 DEF FactRow
    <3>2. QED
      BY <1>8, <3>1 DEF KeyTells
  <2>3. QED
    BY <2>1, <2>2
<1>15. audited' = audited /\ UNCHANGED <<today, facts, rules, place, asked>>
  BY DEF CollectRow, posted
<1>16. KeyTells(key, e)'
  BY <1>14, <1>15 DEF KeyTells
<1>17. BooksAreSound' /\ OrderGrows
  <2>1. CASE Owner[f.post] \in inGood
    <3>1. Numbered(key) /\ Judge(key, e)
      BY <1>1, <1>6, <1>7, <1>9, <1>11, <2>1 DEF CollectRow
    <3>2. order' = order \/ order' = Append(order, key)
      BY <3>1 DEF Numbered
    <3>3. key \notin DOMAIN events => e.status = "pending"
      BY <1>10, <1>12
    <3>4. today \in Nat /\ BooksAreSound
      BY DEF GrowthIsSound, CollectTyped
    <3>5. QED
      BY <1>12, <1>13, <1>15, <1>16, <3>1, <3>2, <3>3, <3>4, JudgeIsSound
  <2>2. CASE Owner[f.post] \notin inGood
    <3>1. UNCHANGED books
      BY <1>6, <2>2 DEF CollectRow
    <3>2. QED
      BY <1>15, <3>1, BooksStand, OrderStands DEF GrowthIsSound, books
  <2>3. QED
    BY <2>1, <2>2
<1>18. FactsGrow
  BY <1>15 DEF FactsGrow
<1>19. PICK passed : passed = [b EXCEPT !.pc = "next"]
  OBVIOUS
<1>20. passed \in Batches /\ passed.pc = "next" /\ passed.page = b.page
  BY <1>3, <1>19 DEF Batches
<1>21. BatchIsSound(passed)
  BY <1>4, <1>20 DEF BatchIsSound
<1>22. BatchIsSound(passed)'
  BY <1>17, <1>18, <1>21, BatchStays
<1>23. work' = [work EXCEPT ![c] = passed]
  BY <1>1, <1>19 DEF CollectRow
<1>24. work' \in [Collectors -> Batches] /\ \A k \in Collectors : BatchIsSound(work[k])'
  BY <1>17, <1>18, <1>20, <1>22, <1>23, BatchesMove DEF GrowthIsSound, CollectTyped
<1>25. CollectTyped'
  BY <1>15, <1>24 DEF GrowthIsSound, CollectTyped
<1>26. QED
  BY <1>17, <1>24, <1>25 DEF GrowthIsSound

(* An event is settled or revoked later.                                   *)
LEMMA ReconcileEventStep == ASSUME GrowthIsSound, NEW c \in Collectors, ReconcileEvent(c) PROVE GrowthIsSound'
<1>1. PICK b \in Batches : b = work[c]
  BY BatchIs
<1>2. BatchIsSound(b) /\ b.pc = "event"
  BY <1>1, BatchIs DEF ReconcileEvent
<1>3. PICK rest : rest = Remaining(c, "event")
  OBVIOUS
<1>4. NextOf(c) \in b.page /\ IsLeft(rest, b, "event")
  <2>1. PICK to : to = "event"
    OBVIOUS
  <2>2. GoesOn(b, to)
    BY <1>2, <2>1 DEF GoesOn
  <2>3. NextOf(c) \in b.page /\ IsLeft(Remaining(c, to), b, to)
    BY <1>1, <1>2, <2>2, RemainingIs
  <2>4. QED
    BY <1>3, <2>1, <2>3
<1>5. /\ b.page \subseteq DOMAIN order /\ DOMAIN order \subseteq Nat
      /\ \A i \in b.page : events[order[i]].kind # "adjustment"
  BY <1>2 DEF BatchIsSound, GrowthIsSound, BooksAreSound, BooksTyped
<1>6. rest \in Batches /\ BatchIsSound(rest)
  BY <1>4, <1>5 DEF BatchIsSound, Idle, IsLeft
<1>7. PICK key : key = order[NextOf(c)]
  OBVIOUS
<1>8. key \in DOMAIN events
  BY <1>4, <1>5, <1>7 DEF GrowthIsSound, BooksAreSound, BooksTyped
<1>9. PICK e : e = events[key]
  OBVIOUS
<1>10. e \in EventRow /\ KeyTells(key, e)
  BY <1>8, <1>9 DEF GrowthIsSound, BooksAreSound, BooksTyped, KeysTell
<1>11. audited' = audited /\ UNCHANGED <<today, facts, rules, asked>>
  BY DEF ReconcileEvent, posted
<1>12. KeyTells(key, e)'
  BY <1>10, <1>11 DEF KeyTells
<1>13. BooksAreSound' /\ OrderGrows
  <2>1. CASE e.user \in inGood
    <3>1. Judge(key, e) /\ order' = order
      BY <1>7, <1>9, <2>1 DEF ReconcileEvent
    <3>2. today \in Nat /\ BooksAreSound
      BY DEF GrowthIsSound, CollectTyped
    <3>3. QED
      BY <1>8, <1>9, <1>10, <1>11, <1>12, <3>1, <3>2, JudgeIsSound
  <2>2. CASE e.user \notin inGood
    <3>1. UNCHANGED books
      BY <1>7, <1>9, <2>2 DEF ReconcileEvent
    <3>2. QED
      BY <1>11, <3>1, BooksStand, OrderStands DEF GrowthIsSound, books
  <2>3. QED
    BY <2>1, <2>2
<1>14. FactsGrow
  BY <1>11 DEF FactsGrow
<1>15. BatchIsSound(rest)'
  BY <1>6, <1>13, <1>14, BatchStays
<1>16. work' = [work EXCEPT ![c] = rest]
  BY <1>3 DEF ReconcileEvent
<1>17. work' \in [Collectors -> Batches] /\ \A k \in Collectors : BatchIsSound(work[k])'
  BY <1>6, <1>13, <1>14, <1>15, <1>16, BatchesMove DEF GrowthIsSound, CollectTyped
<1>18. place' \in [rows : Nat, reconcile : Nat]
  BY <1>4, <1>5 DEF ReconcileEvent, GrowthIsSound, CollectTyped
<1>19. CollectTyped'
  BY <1>11, <1>17, <1>18 DEF GrowthIsSound, CollectTyped
<1>20. QED
  BY <1>13, <1>17, <1>19 DEF GrowthIsSound

(* A transaction of a request leaves the collectors where they are.        *)
LEMMA RequestStep ==
  ASSUME GrowthIsSound, BooksAreSound', OrderGrows, UNCHANGED <<today, posted, rules, place, work>>,
         asked' \subseteq People \X Int, audited' \subseteq AdminRequests
  PROVE  GrowthIsSound'
<1>1. FactsGrow
  BY DEF FactsGrow, posted
<1>2. CollectTyped'
  BY DEF GrowthIsSound, CollectTyped, posted
<1>3. QED
  BY <1>1, <1>2, BatchesStay DEF GrowthIsSound

(* A check-in goes on where the last one was the day before.               *)
LEMMA StreakMoves ==
  ASSUME BooksTyped, StreaksAreReal, NEW u \in People, NEW d \in Int, NEW row \in AccountRow,
         row.last = d, row.streak = Streak(u, d), account' = [account EXCEPT ![u] = row],
         DOMAIN events \subseteq DOMAIN events', <<"checkin", u, d>> \in DOMAIN events'
  PROVE  StreaksAreReal'
<1> SUFFICES ASSUME NEW w \in People, NEW back \in 0 .. account'[w].streak - 1
             PROVE  <<"checkin", w, account'[w].last - back>> \in DOMAIN events'
  BY DEF StreaksAreReal
<1>1. account \in [People -> AccountRow] /\ back \in Int
  BY DEF BooksTyped
<1>2. CASE w # u
  <2>1. account'[w] = account[w]
    BY <1>1, <1>2
  <2>2. QED
    BY <2>1 DEF StreaksAreReal
<1>3. CASE w = u
  <2>1. account'[w] = row /\ back <= Streak(u, d) - 1 /\ 0 <= back
    BY <1>1, <1>3 DEF AccountRow
  <2>2. CASE back = 0
    <3>1. account'[w].last - back = d
      BY <2>1, <2>2
    <3>2. QED
      BY <1>3, <3>1
  <2>3. CASE back # 0
    <3>1. PICK s, l : s = account[u].streak /\ l = account[u].last
      OBVIOUS
    <3>2. s \in Nat /\ l \in Int
      BY <1>1, <3>1 DEF AccountRow
    <3>3. l = d - 1 /\ back <= s
      BY <1>1, <2>1, <2>3, <3>1, <3>2 DEF Streak
    <3>4. back - 1 \in 0 .. s - 1
      BY <1>1, <2>1, <2>3, <3>2, <3>3
    <3>5. <<"checkin", u, l - (back - 1)>> \in DOMAIN events
      BY <3>1, <3>4 DEF StreaksAreReal
    <3>6. l - (back - 1) = d - back /\ account'[w].last - back = d - back
      BY <1>1, <2>1, <3>2, <3>3
    <3>7. QED
      BY <1>3, <3>5, <3>6
  <2>4. QED
    BY <2>2, <2>3
<1>4. QED
  BY <1>2, <1>3

(* A check-in.                                                             *)
LEMMA CheckinStep == ASSUME GrowthIsSound, NEW u, NEW d, Checkin(u, d) PROVE GrowthIsSound'
<1>1. u \in People /\ d \in Int
  BY DEF Checkin, GrowthIsSound, CollectTyped
<1>2. asked' \subseteq People \X Int /\ audited' = audited /\ audited \subseteq AdminRequests
  BY DEF Checkin, GrowthIsSound, CollectTyped
<1>3. UNCHANGED <<today, posted, rules, place, work>>
  BY DEF Checkin
<1>4. BooksAreSound' /\ OrderGrows
  <2>1. CASE ~(u \in inGood /\ account[u].last # d)
    <3>1. UNCHANGED books
      BY <2>1 DEF Checkin
    <3>2. QED
      BY <1>2, <3>1, BooksStand, OrderStands DEF GrowthIsSound, books
  <2>2. CASE u \in inGood /\ account[u].last # d
    <3>1. PICK key, amount, new : /\ key = <<"checkin", u, d>> /\ amount = rules.set.amount["checkin"]
                                  /\ new = Event("checkin", u, "none", u, d, amount, rules.set.cap, 1, amount)
      OBVIOUS
    <3>2. PICK e : e = Registered(key, new)
      OBVIOUS
    <3>3. PICK change : change = Settle(e)
      OBVIOUS
    <3>4. PICK row : row = [balance |-> account[u].balance + change.delta, last |-> d, streak |-> Streak(u, d)]
      OBVIOUS
    <3>5. Numbered(key) /\ Book(key, e, change) /\ account' = [account EXCEPT ![u] = row]
      BY <2>2, <3>1, <3>2, <3>3, <3>4 DEF Checkin
    <3>6. new \in EventRow /\ new.user = u /\ new.kind = "checkin" /\ new.status = "pending"
      <4>1. rules.set \in AllRules /\ "checkin" \in Kinds
        BY DEF GrowthIsSound, CollectTyped, Kinds
      <4>2. rules.set.cap \in Nat /\ amount \in Nat \ {0}
        BY <3>1, <4>1, GrowthAssumption
      <4>3. QED
        BY <1>1, <3>1, <4>1, <4>2 DEF Event, EventRow, EventStatuses
    <3>7. /\ key \in DOMAIN events => e = events[key]
          /\ key \notin DOMAIN events => e = new
      BY <3>2 DEF Registered
    <3>8. key[1] = "checkin" /\ key[2] = u
      BY <3>1
    <3>9. e \in EventRow /\ e.user = u /\ KeyTells(key, e) /\ (key \notin DOMAIN events => e.status = "pending")
      <4>1. CASE key \in DOMAIN events
        BY <3>7, <3>8, <4>1 DEF GrowthIsSound, BooksAreSound, BooksTyped, KeysTell, KeyTells
      <4>2. CASE key \notin DOMAIN events
        BY <3>6, <3>7, <3>8, <4>2 DEF KeyTells
      <4>3. QED
        BY <4>1, <4>2
    <3>10. KeyTells(key, e)'
      BY <1>2, <3>9 DEF KeyTells
    <3>11. Fits(e, change)
      BY <3>3, <3>9, SettleFits
    <3>12. account \in [People -> AccountRow] /\ change.delta \in Int
      BY <3>11 DEF GrowthIsSound, BooksAreSound, BooksTyped, Fits
    <3>13. /\ row \in AccountRow /\ row.last = d /\ row.streak = Streak(u, d)
           /\ row.balance = account[u].balance + change.delta
      <4>1. Streak(u, d) \in Nat
        BY <1>1, <3>12 DEF Streak, AccountRow
      <4>2. account[u].balance + change.delta \in Int
        BY <1>1, <3>12 DEF AccountRow
      <4>3. QED
        BY <1>1, <3>4, <4>1, <4>2 DEF AccountRow
    <3>14. account' \in [People -> AccountRow] /\ BalancesBy(e.user, change.delta)
      BY <1>1, <3>5, <3>9, <3>12, <3>13 DEF BalancesBy
    <3>15. EventsMove(key, e, change) => StreaksAreReal'
      <4>1. SUFFICES ASSUME EventsMove(key, e, change) PROVE StreaksAreReal'
        OBVIOUS
      <4>2. DOMAIN events \subseteq DOMAIN events' /\ <<"checkin", u, d>> \in DOMAIN events'
        BY <3>1, <4>1 DEF EventsMove
      <4>3. QED
        BY <1>1, <3>5, <3>13, <4>2, StreakMoves DEF GrowthIsSound, BooksAreSound
    <3>16. order' = order \/ order' = Append(order, key)
      BY <3>5 DEF Numbered
    <3>17. today \in Nat /\ BooksAreSound /\ audited \subseteq audited'
      BY <1>2 DEF GrowthIsSound, CollectTyped
    <3>18. BooksAreSound' /\ EventsMove(key, e, change)
      BY <3>5, <3>7, <3>9, <3>10, <3>11, <3>14, <3>15, <3>16, <3>17, BookIsSound
    <3>19. OrderGrows
      BY <3>16, <3>17, <3>18, OrderMoves DEF BooksAreSound
    <3>20. QED
      BY <3>18, <3>19
  <2>3. QED
    BY <2>1, <2>2
<1>5. QED
  BY <1>2, <1>3, <1>4, RequestStep

(* New rules.                                                              *)
LEMMA RulesStep == ASSUME GrowthIsSound, NEW q \in AdminRequests, UpdateRules(q) PROVE GrowthIsSound'
<1>1. q.set \in AllRules
  BY DEF UpdateRules, AllRules
<1>2. rules' \in [version : Nat, set : AllRules]
  BY <1>1 DEF UpdateRules, GrowthIsSound, CollectTyped
<1>3. /\ UNCHANGED <<facts, books, place, work>> /\ today' \in Nat
      /\ asked' \subseteq People \X Int /\ audited \subseteq audited' /\ audited' \subseteq AdminRequests
  BY DEF UpdateRules, Audited, posted, GrowthIsSound, CollectTyped
<1>4. QED
  BY <1>2, <1>3, AsideStep

(* A post is featured.                                                     *)
LEMMA FeatureStep == ASSUME GrowthIsSound, NEW q \in AdminRequests, Feature(q) PROVE GrowthIsSound'
<1>1. asked' \subseteq People \X Int /\ audited \subseteq audited' /\ audited' \subseteq AdminRequests
  BY DEF Feature, Audited, GrowthIsSound, CollectTyped
<1>2. UNCHANGED <<today, posted, rules, place, work>>
  BY DEF Feature
<1>3. PICK key, new : /\ key = <<"featured", q.post>>
                      /\ new = Promised("featured", Owner[q.post], q.post, "none", today, rules.set)
  OBVIOUS
<1>4. PICK e : e = Registered(key, new)
  OBVIOUS
<1>5. PICK change : change = Settle(e)
  OBVIOUS
<1>6. Numbered(key) /\ Book(key, e, change) /\ Credit(e.user, change.delta)
  BY <1>3, <1>4, <1>5 DEF Feature
<1>7. new \in EventRow /\ new.kind = "featured" /\ new.status = "pending"
  <2>1. q.post \in Posts
    BY GrowthAssumption DEF Feature
  <2>2. Owner[q.post] \in People /\ today \in Int /\ rules.set \in AllRules /\ "featured" \in Kinds
    BY <2>1 DEF People, Kinds, GrowthIsSound, CollectTyped
  <2>3. PICK p, w, d, r, none, kind : /\ p = q.post /\ w = Owner[q.post] /\ d = today
                                      /\ r = rules.set /\ none = "none" /\ kind = "featured"
    OBVIOUS
  <2>4. p \in Posts \cup {"none"} /\ none \in People \cup {"none"}
    BY <2>1, <2>3
  <2>5. kind \in Kinds /\ w \in People /\ d \in Int /\ r \in AllRules
    BY <2>2, <2>3
  <2>6. new = Promised(kind, w, p, none, d, r)
    BY <1>3, <2>3
  <2>7. new \in EventRow /\ new.kind = kind /\ new.status = "pending"
    BY ONLY <2>4, <2>5, <2>6, PromisedIs
  <2>8. QED
    BY <2>3, <2>7
<1>8. /\ key \in DOMAIN events => e = events[key]
      /\ key \notin DOMAIN events => e = new
  BY <1>4 DEF Registered
<1>9. key[1] = "featured"
  BY <1>3
<1>10. e \in EventRow /\ KeyTells(key, e) /\ (key \notin DOMAIN events => e.status = "pending")
  <2>1. CASE key \in DOMAIN events
    BY <1>8, <2>1 DEF GrowthIsSound, BooksAreSound, BooksTyped, KeysTell
  <2>2. CASE key \notin DOMAIN events
    BY <1>7, <1>8, <1>9, <2>2 DEF KeyTells
  <2>3. QED
    BY <2>1, <2>2
<1>11. KeyTells(key, e)'
  BY <1>9, <1>10 DEF KeyTells
<1>12. Fits(e, change)
  BY <1>5, <1>10, SettleFits
<1>13. order' = order \/ order' = Append(order, key)
  BY <1>6 DEF Numbered
<1>14. today \in Nat /\ BooksAreSound
  BY DEF GrowthIsSound, CollectTyped
<1>15. BooksAreSound' /\ EventsMove(key, e, change)
  BY <1>1, <1>6, <1>8, <1>10, <1>11, <1>12, <1>13, <1>14, CreditIsSound
<1>16. OrderGrows
  BY <1>13, <1>14, <1>15, OrderMoves DEF BooksAreSound
<1>17. QED
  BY <1>1, <1>2, <1>15, <1>16, RequestStep

(* An administrator adjusts a balance.                                     *)
LEMMA AdjustStep == ASSUME GrowthIsSound, NEW q \in AdminRequests, Adjust(q) PROVE GrowthIsSound'
<1>1. /\ asked' \subseteq People \X Int /\ audited' = audited \cup {q} /\ audited' \subseteq AdminRequests
      /\ q.key \notin {a.key : a \in audited}
  BY DEF Adjust, Audited, GrowthIsSound, CollectTyped
<1>2. UNCHANGED <<today, posted, rules, place, work>>
  BY DEF Adjust
<1>3. q.user \in People /\ q.delta \in Int \ {0} /\ today \in Nat
  BY GrowthAssumption DEF Adjust, GrowthIsSound, CollectTyped
<1>4. PICK amount : amount = IF q.delta < 0 THEN -q.delta ELSE q.delta
  OBVIOUS
<1>5. PICK key, e, change : /\ key = <<"admin", q.key>>
                            /\ e = Event("adjustment", q.user, "none", "none", today, amount, 0, 0, 0)
                            /\ change = [status |-> "awarded", kind |-> "adjustment", delta |-> q.delta]
  OBVIOUS
<1>6. Numbered(key) /\ Book(key, e, change) /\ Credit(e.user, change.delta)
  BY <1>4, <1>5 DEF Adjust, Event
<1>7. amount \in Nat \ {0}
  BY <1>3, <1>4
<1>8. e \in EventRow /\ e.kind = "adjustment" /\ e.status = "pending"
  BY <1>3, <1>5, <1>7 DEF Event, EventRow, EventStatuses
<1>9. Fits(e, change)
  BY <1>3, <1>5, <1>8 DEF Fits, EventStatuses, EntryKinds
<1>10. key[1] = "admin" /\ key[2] = q.key
  BY <1>5
<1>11. key \notin DOMAIN events
  BY <1>1, <1>10 DEF GrowthIsSound, BooksAreSound, KeysTell, KeyTells
<1>12. KeyTells(key, e)'
  BY <1>1, <1>8, <1>10 DEF KeyTells
<1>13. order' = order \/ order' = Append(order, key)
  BY <1>6 DEF Numbered
<1>14. BooksAreSound /\ audited \subseteq audited'
  BY <1>1 DEF GrowthIsSound
<1>15. BooksAreSound' /\ EventsMove(key, e, change)
  BY <1>3, <1>6, <1>8, <1>9, <1>11, <1>12, <1>13, <1>14, CreditIsSound
<1>16. OrderGrows
  BY <1>13, <1>14, <1>15, OrderMoves DEF BooksAreSound
<1>17. QED
  BY <1>1, <1>2, <1>15, <1>16, RequestStep

-----------------------------------------------------------------------------
(* Experience: the theorem.                                                *)

(* The books are sound before anything happens.                            *)
LEMMA GrowthSoundInit == GrowthInit => GrowthIsSound
<1> SUFFICES ASSUME GrowthInit PROVE GrowthIsSound
  OBVIOUS
<1>1. /\ today = 0 /\ facts = <<>> /\ account = [u \in People |-> [balance |-> 0, last |-> Never, streak |-> 0]]
      /\ events = << >> /\ order = <<>> /\ history = <<>> /\ place = [rows |-> 0, reconcile |-> 0]
      /\ work \in [Collectors -> {Idle, Down}] /\ asked = {} /\ audited = {}
  BY DEF GrowthInit
<1>2. DOMAIN events = {} /\ DOMAIN history = {} /\ DOMAIN order = {}
  BY <1>1
<1>3. BooksTyped
  <2>1. account \in [People -> AccountRow]
    BY <1>1 DEF AccountRow, Never
  <2>2. events \in [DOMAIN events -> EventRow] /\ order \in Seq(DOMAIN events)
    BY <1>1, <1>2
  <2>3. history \in Seq(EntryRow(DOMAIN events))
    BY <1>1
  <2>4. QED
    BY <2>1, <2>2, <2>3 DEF BooksTyped
<1>4. UniqueEntries /\ StatusFollows /\ KeysTell
  BY <1>2 DEF UniqueEntries, StatusFollows, KeysTell
<1>5. BalancesAdd
  <2>1. \A u \in People : EntriesOf(u) = {} /\ account[u].balance = 0
    BY <1>1, <1>2 DEF EntriesOf
  <2>2. QED
    BY <2>1, TotalOfNone DEF BalancesAdd
<1>6. LimitsHold
  <2>1. \A keys : Awards(keys) = {}
    BY <1>2 DEF Awards
  <2>2. Cardinality({}) <= PairLimit
    BY FS_EmptySet, GrowthAssumption
  <2>3. QED
    BY <2>1, <2>2 DEF LimitsHold, DayHolds, KindHolds, PairHolds
<1>7. StreaksAreReal
  BY <1>1 DEF StreaksAreReal
<1>8. CollectTyped
  <2>1. rules \in [version : Nat, set : AllRules]
    BY DEF GrowthInit, AllRules
  <2>2. today \in Nat /\ place \in [rows : Nat, reconcile : Nat] /\ asked \subseteq People \X Int /\ audited \subseteq AdminRequests
    BY <1>1
  <2>3. work \in [Collectors -> Batches]
    BY <1>1 DEF Batches
  <2>4. facts \in Seq(FactRow)
    BY <1>1
  <2>5. QED
    BY <2>1, <2>2, <2>3, <2>4 DEF CollectTyped
<1>9. \A c \in Collectors : BatchIsSound(work[c])
  BY <1>1 DEF BatchIsSound, Idle, Down
<1>10. QED
  BY <1>3, <1>4, <1>5, <1>6, <1>7, <1>8, <1>9 DEF GrowthIsSound, BooksAreSound

(* Every step keeps them sound.                                            *)
LEMMA GrowthSoundStep == GrowthIsSound /\ [GrowthNext]_growthVars => GrowthIsSound'
<1> SUFFICES ASSUME GrowthIsSound, [GrowthNext]_growthVars PROVE GrowthIsSound'
  OBVIOUS
<1>1. CASE UNCHANGED growthVars
  BY <1>1, AsideStep DEF growthVars, posted, GrowthIsSound, CollectTyped
<1>2. ASSUME NEW p \in Posts, Write(p) PROVE GrowthIsSound'
  BY <1>2, OccurStep DEF Write, People
<1>3. ASSUME NEW p \in Posts, NEW v \in Voters, Vote(v, p) PROVE GrowthIsSound'
  BY <1>3, OccurStep DEF Vote, People
<1>4. CASE Moderate
  BY <1>4, AsideStep DEF Moderate, GrowthIsSound, CollectTyped
<1>5. CASE PassDay
  BY <1>5, AsideStep DEF PassDay, posted, GrowthIsSound, CollectTyped
<1>6. ASSUME NEW c \in Collectors, StartCollect(c) PROVE GrowthIsSound'
  BY <1>6, StartCollectStep
<1>7. ASSUME NEW c \in Collectors, CollectRow(c) PROVE GrowthIsSound'
  BY <1>7, CollectRowStep
<1>8. ASSUME NEW c \in Collectors, NextRow(c) PROVE GrowthIsSound'
  BY <1>8, NextRowStep
<1>9. ASSUME NEW c \in Collectors, StartReconcile(c) PROVE GrowthIsSound'
  BY <1>9, StartReconcileStep
<1>10. ASSUME NEW c \in Collectors, ReconcileEvent(c) PROVE GrowthIsSound'
  BY <1>10, ReconcileEventStep
<1>11. ASSUME NEW c \in Collectors, StopCollect(c) PROVE GrowthIsSound'
  BY <1>11, StopCollectStep
<1>12. ASSUME NEW u \in People, AskCheckin(u) PROVE GrowthIsSound'
  <2>1. /\ UNCHANGED <<facts, books, place, work>> /\ audited' = audited
        /\ today' \in Nat /\ rules' \in [version : Nat, set : AllRules]
        /\ asked' \subseteq People \X Int /\ audited' \subseteq AdminRequests
    BY <1>12 DEF AskCheckin, posted, GrowthIsSound, CollectTyped
  <2>2. QED
    BY <2>1, AsideStep
<1>13. ASSUME NEW x \in asked, Checkin(x[1], x[2]) PROVE GrowthIsSound'
  BY <1>13, CheckinStep
<1>14. ASSUME NEW q \in AdminRequests, UpdateRules(q) PROVE GrowthIsSound'
  BY <1>14, RulesStep
<1>15. ASSUME NEW q \in AdminRequests, Feature(q) PROVE GrowthIsSound'
  BY <1>15, FeatureStep
<1>16. ASSUME NEW q \in AdminRequests, Adjust(q) PROVE GrowthIsSound'
  BY <1>16, AdjustStep
<1>17. QED
  BY <1>1, <1>2, <1>3, <1>4, <1>5, <1>6, <1>7, <1>8, <1>9, <1>10, <1>11, <1>12, <1>13, <1>14, <1>15, <1>16
     DEF GrowthNext

(* How often something is booked for an event.                             *)
LEMMA CountIs ==
  ASSUME UniqueEntries, NEW k, NEW kind
  PROVE  /\ Has(k, kind) => Count(k, kind) = 1
         /\ ~Has(k, kind) => Count(k, kind) = 0
<1>1. PICK S : S = {i \in DOMAIN history : history[i].key = k /\ history[i].kind = kind}
  OBVIOUS
<1>2. Count(k, kind) = Cardinality(S)
  BY <1>1 DEF Count
<1>3. CASE Has(k, kind)
  <2>1. PICK i : S = {i}
    BY <1>1, <1>3 DEF Has, UniqueEntries
  <2>2. Cardinality({i}) = 1
    BY FS_Singleton
  <2>3. QED
    BY <1>2, <1>3, <2>1, <2>2
<1>4. CASE ~Has(k, kind)
  <2>1. S = {}
    BY <1>1, <1>4 DEF Has
  <2>2. Cardinality({}) = 0
    BY FS_EmptySet
  <2>3. QED
    BY <1>2, <1>4, <2>1, <2>2
<1>5. QED
  BY <1>3, <1>4

(* Sound books are what the run checks.                                    *)
LEMMA SoundIsEarned == GrowthIsSound => ExperienceIsEarned
<1> SUFFICES ASSUME GrowthIsSound PROVE ExperienceIsEarned
  OBVIOUS
<1>1. UniqueEntries /\ StatusFollows /\ BalancesAdd /\ LimitsHold /\ StreaksAreReal
  BY DEF GrowthIsSound, BooksAreSound
<1>2. ASSUME NEW k \in DOMAIN events, events[k].kind # "adjustment"
      PROVE  /\ Count(k, "award") <= 1 /\ Count(k, "reversal") <= Count(k, "award")
             /\ events[k].status = "awarded" <=> Count(k, "award") = 1 /\ Count(k, "reversal") = 0
  <2>1. /\ Has(k, "award") => Count(k, "award") = 1
        /\ ~Has(k, "award") => Count(k, "award") = 0
        /\ Has(k, "reversal") => Count(k, "reversal") = 1
        /\ ~Has(k, "reversal") => Count(k, "reversal") = 0
    BY <1>1, CountIs
  <2>2. /\ events[k].status = "awarded" <=> Has(k, "award") /\ ~Has(k, "reversal")
        /\ Has(k, "reversal") => Has(k, "award")
    BY <1>1, <1>2 DEF StatusFollows, StatusIsBooked
  <2>3. QED
    BY <2>1, <2>2
<1>3. BooksAgree
  BY <1>1, <1>2 DEF BooksAgree, BalancesAdd
<1>4. QED
  BY <1>1, <1>3 DEF ExperienceIsEarned

(* Whoever writes, votes, checks in, moderates, and changes the rules, and *)
(* however collectors overlap, die and go around: an event is paid once    *)
(* and taken back at most once, balances are what the ledger adds up to,   *)
(* no day, kind or pair of members gets more than it was promised, and     *)
(* streaks count days of check-ins.                                        *)
THEOREM ExperienceIsAlwaysEarned == GrowthSpec => []ExperienceIsEarned
<1>1. GrowthInit => GrowthIsSound
  BY GrowthSoundInit
<1>2. GrowthIsSound /\ [GrowthNext]_growthVars => GrowthIsSound'
  BY GrowthSoundStep
<1>3. GrowthIsSound => ExperienceIsEarned
  BY SoundIsEarned
<1>4. QED
  BY <1>1, <1>2, <1>3, PTL DEF GrowthSpec
=============================================================================
