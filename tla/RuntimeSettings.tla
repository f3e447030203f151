---------------------------- MODULE RuntimeSettings ----------------------------
(***************************************************************************)
(* The settings that API and worker share: one row with a revision, a      *)
(* patch over the environment of each process, and secrets that only the   *)
(* process role they belong to can open.                                   *)
(*                                                                         *)
(* A process registers its public key and the fingerprints of its          *)
(* environment when it starts.  Administrators change settings through the *)
(* API.  Both hold the lock of the one row throughout, so each is a step.  *)
(* An update is checked against the environment of the API process that    *)
(* carries it; the other processes apply it over environments of their own.*)
(* A request to the API reads the settings first and then takes the router *)
(* that is built for them, which other requests share and replace.         *)
(***************************************************************************)
EXTENDS Integers, Sequences, FiniteSets

CONSTANTS
  Processes,  (* role, key, env, and what else the environment configures:  *)
              (* url, unit (QuotaPerUnit), actions, shadow                  *)
  Updates,    (* commands: patch, set, clear                                *)
  Calls,      (* requests to the API that may be in flight                  *)
  MaxRevision (* bound on the revision                                      *)

(* A value, an empty one, or the absence of any.                           *)
Empty  == "empty"
Absent == "absent"

(* One required secret of the API, its predecessor, and an optional one;   *)
(* the secret of the worker; and the seed of all draws.                    *)
SecretNames == {"forum", "forum_previous", "community", "service"}
Seed        == "seed"
SecretRole(n) == IF n = "service" THEN "worker" ELSE "api"
Required(role) == IF role = "api" THEN {"forum"} ELSE {"service"}
OwnNames(role) == {n \in SecretNames : SecretRole(n) = role} \cup {Seed}

(* Config.Validate: with actions enabled the value of a unit of quota must *)
(* be known.                                                               *)
UnitKnown(cfg) == cfg.actions = "on" => cfg.unit # Absent

ASSUME SettingsAssumption ==
  /\ \A d \in Processes :
       /\ d.role \in {"api", "worker"} /\ DOMAIN d.env = OwnNames(d.role) /\ d.url # Absent
       /\ UnitKnown(d) (* config.Load *)
  /\ \A c \in Updates : DOMAIN c.set \subseteq SecretNames /\ c.clear \subseteq SecretNames
  /\ MaxRevision \in Nat

VARIABLES
  record,    (* revision, rewards, patch, secrets, roles: the stored rows  *)
  running,   (* the processes that have registered and run                 *)
  call,      (* a request to the API: the process it came to, the settings *)
             (* it has read, and, as a history, those in force since then  *)
  router,    (* of each API process: the settings its router is built for  *)
  receivers, (* history: where settlement jobs have sent quota             *)
  outdated   (* history: a request was served with settings not in force   *)

settingsVars == <<record, running, call, router, receivers, outdated>>

NoRole   == [key |-> Absent, env |-> <<>>]
Unstored == [value |-> Absent, key |-> Absent]
NoCall   == [pc |-> "none"]
NoRouter == [url |-> Absent]
NoPatch  == [url |-> Absent, unit |-> Absent, actions |-> Absent, shadow |-> Absent]

SettingsInit ==
  /\ record = [revision |-> 0, rewards |-> FALSE, patch |-> NoPatch,
               secrets |-> [n \in SecretNames |-> Unstored],
               roles |-> [r \in {"api", "worker"} |-> NoRole]]
  /\ running = {} /\ receivers = {} /\ outdated = FALSE
  /\ call = [c \in Calls |-> NoCall] /\ router = [d \in Processes |-> NoRouter]
-----------------------------------------------------------------------------
(* What a record means to a process.                                       *)

Registered(rec, role) == rec.roles[role] # NoRole
Registration(d) == [key |-> d.key, env |-> d.env]

(* effectiveFingerprint: a stored secret, also a cleared one, hides the    *)
(* environment.                                                            *)
EffectiveSecret(rec, n) ==
  IF n = Seed
  THEN LET role == IF Registered(rec, "api") THEN "api" ELSE "worker"
       IN IF Registered(rec, role) THEN rec.roles[role].env[Seed] ELSE Empty
  ELSE IF rec.secrets[n] # Unstored THEN rec.secrets[n].value
  ELSE IF Registered(rec, SecretRole(n)) THEN rec.roles[SecretRole(n)].env[n]
  ELSE Empty

(* ValidateRecord.                                                         *)
ValidRecord(rec) ==
  /\ \A role \in {"api", "worker"} : Registered(rec, role) =>
       /\ rec.roles[role].env[Seed] # Empty
       /\ \A n \in Required(role) : EffectiveSecret(rec, n) # Empty
  /\ Registered(rec, "api") /\ Registered(rec, "worker") =>
       rec.roles["api"].env[Seed] = rec.roles["worker"].env[Seed]
  /\ \A m, n \in SecretNames \cup {Seed} :
       m # n /\ EffectiveSecret(rec, m) # Empty => EffectiveSecret(rec, m) # EffectiveSecret(rec, n)
  /\ EffectiveSecret(rec, "forum_previous") # Empty => EffectiveSecret(rec, "forum") # Empty

(* applyPatch over the baseline of the process, with its own secrets.      *)
Over(patched, own) == IF patched = Absent THEN own ELSE patched
Effective(d, rec) ==
  [url |-> Over(rec.patch.url, d.url), unit |-> Over(rec.patch.unit, d.unit),
   actions |-> Over(rec.patch.actions, d.actions), shadow |-> Over(rec.patch.shadow, d.shadow),
   secrets |-> [n \in OwnNames(d.role) |-> EffectiveSecret(rec, n)]]

(* Manager.Current succeeds: the record is valid, the process is the one   *)
(* that is registered, its key opens all its secrets, and the settings are *)
(* valid over its own environment.                                         *)
Readable(d, rec) ==
  /\ ValidRecord(rec) /\ rec.roles[d.role] = Registration(d)
  /\ \A n \in SecretNames :
       SecretRole(n) = d.role /\ rec.secrets[n] # Unstored /\ rec.secrets[n].value # Empty
         => rec.secrets[n].key = d.key
Current(d, rec) == Readable(d, rec) /\ UnitKnown(Effective(d, rec))
-----------------------------------------------------------------------------
(* Register, the start of a process.                                       *)

(* Mutant: the key of a role may always be replaced.                       *)
AnyKeyFits(d) == TRUE

(* A new key must not lose the secrets that are sealed for the old one.    *)
KeyFits(d) ==
  Registered(record, d.role) /\ record.roles[d.role].key # d.key =>
    \A n \in SecretNames :
      SecretRole(n) = d.role /\ record.secrets[n] # Unstored => record.secrets[n].value = Empty

(* The first worker pins the receiver of quota to that of its environment. *)
Pins(d) == d.role = "worker" /\ record.patch.url = Absent

WithRole(d) ==
  [record EXCEPT !.roles[d.role] = Registration(d),
                 !.patch.url = IF Pins(d) THEN d.url ELSE @]

(* A new revision; what requests in flight may be served with grows.       *)
Store(rec) ==
  /\ record.revision < MaxRevision
  /\ record' = [rec EXCEPT !.revision = @ + 1]
  /\ call' = [c \in Calls |->
                IF call[c] = NoCall THEN NoCall
                ELSE [call[c] EXCEPT !.inforce = @ \cup {Effective(call[c].by, rec)}]]

(* The registration stands although the process ends at once when it       *)
(* cannot use the settings that it reads next.                             *)
Register(d) ==
  /\ d \notin running
  /\ Registered(record, d.role) => record.roles[d.role].env = d.env
  /\ KeyFits(d)
  /\ Pins(d) => d.url # Empty
  /\ d.role = "worker" => record.patch.url # Empty
  /\ \A role \in {"api", "worker"} \ {d.role} :
       Registered(record, role) => record.roles[role].env[Seed] = d.env[Seed]
  /\ ValidRecord(WithRole(d))
  /\ IF record.roles[d.role] # Registration(d) \/ Pins(d)
     THEN Store(WithRole(d)) ELSE UNCHANGED <<record, call>>
  /\ running' = IF Current(d, WithRole(d)) THEN running \cup {d} ELSE running
  /\ UNCHANGED <<router, receivers, outdated>>

Stop(d) ==
  /\ d \in running
  /\ running' = running \ {d} /\ router' = [router EXCEPT ![d] = NoRouter]
  /\ call' = [c \in Calls |-> IF call[c] # NoCall /\ call[c].by = d THEN NoCall ELSE call[c]]
  /\ UNCHANGED <<record, receivers, outdated>>
-----------------------------------------------------------------------------
(* Update, by an administrator through an API process.                     *)

(* mergePatch, sealed secrets and cleared ones.                            *)
Candidate(c) ==
  [record EXCEPT
     !.patch = [f \in DOMAIN NoPatch |-> IF c.patch[f] = Absent THEN @[f] ELSE c.patch[f]],
     !.secrets = [n \in SecretNames |->
                    IF n \in DOMAIN c.set
                    THEN [value |-> c.set[n], key |-> record.roles[SecretRole(n)].key]
                    ELSE IF n \in c.clear THEN [value |-> Empty, key |-> Absent] ELSE @[n]]]

(* The receiver of quota is frozen by a reward, by actions that are        *)
(* enabled or become so, and by a registered worker.                       *)
ReceiverFree(d, c) ==
  c.patch.url \notin {Absent, Effective(d, record).url} =>
    /\ ~record.rewards /\ ~Registered(record, "worker")
    /\ Effective(d, record).actions = "off" /\ c.patch.actions # "on"

(* Live actions need a receiver, the secret of the community and a worker. *)
LiveReady(d, rec) ==
  Effective(d, rec).actions = "on" /\ Effective(d, rec).shadow = "off" =>
    /\ Effective(d, rec).url # Empty /\ EffectiveSecret(rec, "community") # Empty
    /\ Registered(rec, "worker") /\ EffectiveSecret(rec, "service") # Empty

(* The update names the revision that the administrator has seen.  (A      *)
(* repeated request is answered from what is stored, and changes nothing.) *)
Update(d, c, seen) ==
  /\ d \in running /\ d.role = "api" /\ seen = record.revision
  /\ Current(d, record) /\ ReceiverFree(d, c)
  /\ \A n \in DOMAIN c.set : Registered(record, SecretRole(n))
  /\ Current(d, Candidate(c)) /\ LiveReady(d, Candidate(c))
  /\ Store(Candidate(c))
  /\ UNCHANGED <<running, router, receivers, outdated>>

(* The first grant of a reward is stored.                                  *)
FirstReward ==
  /\ ~record.rewards /\ Registered(record, "api")
  /\ record' = [record EXCEPT !.rewards = TRUE]
  /\ UNCHANGED <<running, call, router, receivers, outdated>>
-----------------------------------------------------------------------------
(* RuntimeHandler and newRuntimeSettlement: one read for each request and  *)
(* for each job.                                                           *)

Arrive(c, d) ==
  /\ call[c] = NoCall /\ d \in running /\ d.role = "api"
  /\ call' = [call EXCEPT ![c] = [pc |-> "arrived", by |-> d, inforce |-> {Effective(d, record)}]]
  /\ UNCHANGED <<record, running, router, receivers, outdated>>

ReadCurrent(c) ==
  /\ call[c].pc = "arrived"
  /\ call' = [call EXCEPT ![c] =
                IF Current(call[c].by, record)
                THEN [pc |-> "read", by |-> @.by, inforce |-> @.inforce,
                      cfg |-> Effective(@.by, record)]
                ELSE NoCall] (* settings_unavailable *)
  /\ UNCHANGED <<record, running, router, receivers, outdated>>

(* Mutant: a router is built once.                                         *)
BuiltFor(c) == IF router[call[c].by] = NoRouter THEN call[c].cfg ELSE router[call[c].by]

(* Under the mutex, a router for other settings is replaced.               *)
RouterFor(c) == call[c].cfg

Serve(c) ==
  /\ call[c].pc = "read"
  /\ router' = [router EXCEPT ![call[c].by] = RouterFor(c)]
  /\ outdated' = (outdated \/ RouterFor(c) \notin call[c].inforce)
  /\ call' = [call EXCEPT ![c] = NoCall]
  /\ UNCHANGED <<record, running, receivers>>

(* A settlement job uses one receiver and key throughout (ValidateWorker). *)
RunJob(d) ==
  /\ d \in running /\ d.role = "worker" /\ Current(d, record)
  /\ Effective(d, record).url # Empty /\ Effective(d, record).secrets["service"] # Empty
  /\ receivers' = receivers \cup {Effective(d, record).url}
  /\ UNCHANGED <<record, running, call, router, outdated>>
-----------------------------------------------------------------------------
SettingsNext ==
  \/ \E d \in Processes : Register(d) \/ Stop(d) \/ RunJob(d)
  \/ \E d \in Processes, c \in Updates, seen \in 0 .. MaxRevision : Update(d, c, seen)
  \/ FirstReward
  \/ \E c \in Calls, d \in Processes : Arrive(c, d)
  \/ \E c \in Calls : ReadCurrent(c) \/ Serve(c)

SettingsSpec == SettingsInit /\ [][SettingsNext]_settingsVars
-----------------------------------------------------------------------------
(* What an update leaves behind that its own API process can use and       *)
(* another one cannot: actions are turned on, and neither the settings nor *)
(* the environment of that other process say what a unit is.               *)
LacksUnit(d, rec) ==
  rec.patch.actions = "on" /\ rec.patch.unit = Absent /\ d.unit = Absent

(* No order of starts and updates takes the settings from the process that *)
(* is registered for a role, whether it runs or is to be started again:    *)
(* the record stays valid, its key opens all its secrets and the worker    *)
(* knows its receiver, whatever the other role, other processes of its own *)
(* and the administrators did.  The one thing that keeps it from using the *)
(* settings is a unit that it lacks.  And all jobs that ever ran, of       *)
(* whatever worker, sent their quota to one receiver.                      *)
SettingsStayUsable ==
  /\ \A d \in Processes :
       record.roles[d.role] = Registration(d) =>
         /\ Readable(d, record) /\ (Current(d, record) \/ LacksUnit(d, record))
         /\ d.role = "worker" => Effective(d, record).url # Empty
  /\ Cardinality(receivers) <= 1

(* A request is served with settings that were in force since it arrived:  *)
(* once a key is revoked or a switch is off, no later request passes by an *)
(* older router, although all requests of a process share one.             *)
NoStaleSwitch == ~outdated
=============================================================================
