--------------------------- MODULE MCPulseRecords ---------------------------
(***************************************************************************)
(* Four stores of the Pulse database beside the reward path: the ledger,   *)
(* the periods, the content that is reviewed, and the settings.  They      *)
(* share no row, so a behaviour exercises one of them (part) and leaves    *)
(* the others as they were; one run then checks all four.                  *)
(***************************************************************************)
EXTENDS TicketLedger, Periods, ContentReview, RuntimeSettings, TLC

CONSTANTS u1, p1, w1, w2, alice, bob, i1, i2, r1, r2, c1

VARIABLE part

(* The ledger: one member in one period.                                   *)
Tickets      == <<u1, p1, "ticket">>
Contribution == <<u1, p1, "contribution">>
MCAccounts   == {Tickets, Contribution}
MCAppends ==
  {[op |-> "ticket_bonus", key |-> "k1", acct |-> Tickets, amt |-> 1],
   [op |-> "ticket_bonus", key |-> "k1", acct |-> Tickets, amt |-> 2],
   [op |-> "contribution_earn", key |-> "k2", acct |-> Contribution, amt |-> 2]}
MCAdjustments ==
  {[request |-> "a1", acct |-> Tickets, amt |-> -1],
   [request |-> "a1", acct |-> Tickets, amt |-> 1],
   [request |-> "a2", acct |-> Tickets, amt |-> -1]}

(* The periods: windows that overlap, touch and lie apart, one of them     *)
(* asked for twice, and continuous ones with different beliefs.            *)
Window(request, key, from, activate) ==
  [request |-> request, key |-> key, cont |-> FALSE, from |-> from, expected |-> 0, activate |-> activate]
Continuous(request, key, expected) ==
  [request |-> request, key |-> key, cont |-> TRUE, from |-> 0, expected |-> expected, activate |-> TRUE]
MCCreations ==
  {Window("q1", "a", 1, TRUE), Window("q2", "b", 3, TRUE), Window("q3", "c", 2, TRUE),
   Window("q4", "d", 0, TRUE), Window("q5", "d", 5, FALSE), Window("q6", "e", 4, TRUE),
   Continuous("q7", "f", 0), Continuous("q8", "g", 1), Continuous("q9", "h", 2)}

(* The content: three questions of two authors.                            *)
MCAuthor == [q \in Questions |-> IF q = 2 THEN bob ELSE alice]
MCReviews ==
  {[request |-> "r1", q |-> 1, version |-> 1, amount |-> 2],
   [request |-> "r2", q |-> 3, version |-> 1, amount |-> 2],
   [request |-> "r3", q |-> 2, version |-> 1, amount |-> 1],
   [request |-> "r4", q |-> 1, version |-> 1, amount |-> 2]}

(* The settings: an API process and one whose key volume was lost, two     *)
(* workers of different keys and receivers.  Only the API processes and    *)
(* one worker have a unit of quota in their environment.                   *)
ApiEnv(seed) ==
  ("forum" :> "f1") @@ ("forum_previous" :> Empty) @@ ("community" :> Empty) @@ (Seed :> seed)
WorkerEnv(seed, secret) == ("service" :> secret) @@ (Seed :> seed)
Process(role, key, env, url, unit) ==
  [role |-> role, key |-> key, env |-> env, url |-> url, unit |-> unit, actions |-> "off", shadow |-> "on"]
MCProcesses ==
  {Process("api", "ka", ApiEnv("s1"), "url1", "1"), Process("api", "kb", ApiEnv("s1"), "url1", "1"),
   Process("worker", "kw", WorkerEnv("s1", "v1"), "url1", Absent),
   Process("worker", "kx", WorkerEnv("s1", "v1"), "url2", "1")}
Change(patch, set, clear) == [patch |-> patch @@ NoPatch, set |-> set, clear |-> clear]
MCUpdates ==
  {Change(("actions" :> "on") @@ ("shadow" :> "off"), "community" :> "c1", {}),
   Change(("url" :> "url2") @@ ("unit" :> "1"), "service" :> "v2", {}),
   Change("actions" :> "off", ("forum" :> "f2") @@ ("forum_previous" :> "f1"), {"community"})}

Rest(p) ==
  /\ p # "ledger" => UNCHANGED ledgerVars
  /\ p # "periods" => UNCHANGED periodVars
  /\ p \notin {"ingest", "review"} => UNCHANGED contentVars
  /\ p # "settings" => UNCHANGED settingsVars

Init ==
  /\ part \in {"ledger", "periods", "ingest", "review", "settings"}
  /\ LedgerInit /\ PeriodsInit /\ ContentInit /\ SettingsInit
  /\ cursor = IF part = "ingest" THEN 0 ELSE 3

Next ==
  /\ UNCHANGED part /\ Rest(part)
  /\ \/ part = "ledger" /\ LedgerNext
     \/ part = "periods" /\ PeriodsNext
     \/ part = "ingest" /\ IngestNext
     \/ part = "review" /\ ReviewNext
     \/ part = "settings" /\ SettingsNext

Spec == Init /\ [][Next]_<<part, ledgerVars, periodVars, contentVars, settingsVars>>
=============================================================================
