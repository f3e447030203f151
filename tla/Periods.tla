------------------------------- MODULE Periods -------------------------------
(***************************************************************************)
(* The creation of periods and the choice of the period an instant belongs *)
(* to.                                                                     *)
(*                                                                         *)
(* A window has a start and an end that its creator chooses, and windows   *)
(* must not overlap.  A continuous period starts when it is created, has   *)
(* no end, and replaces the one the creator believes to be current.  All   *)
(* creations hold one database mutex (lockRewardRule) from their first     *)
(* statement on, so each is one step; they compete in which comes first    *)
(* and in what their creators believed when they sent them.                *)
(***************************************************************************)
EXTENDS Integers, Sequences, FiniteSets

CONSTANTS
  Creations, (* the commands: request, key, cont, from, expected, activate *)
  Length,    (* PeriodLength: ten days                                     *)
  Horizon    (* bound on the clock                                         *)

ASSUME PeriodsAssumption ==
  /\ Length \in Nat \ {0} /\ Horizon \in Nat
  /\ \A c \in Creations : c.from \in Nat /\ c.cont \in BOOLEAN /\ c.activate \in BOOLEAN

VARIABLES
  clock,     (* the time, in units of which a window has Length            *)
  periods,   (* pulse_period; the id of a row is its place                 *)
  created    (* pulse_idempotency of period_create, and who was answered   *)

periodVars == <<clock, periods, created>>

Forever    == Horizon + Length + 1
NoActive   == 0
Overlap    == -1
PeriodKeys == {c.key : c \in Creations}

PeriodsInit == clock = 0 /\ periods = <<>> /\ created = {}
-----------------------------------------------------------------------------
(* An active period contains the instants of [from, to).                   *)
Holds(p, at) == p.status = "active" /\ p.from <= at /\ at < p.to

Holding(at, cont) == {i \in 1 .. Len(periods) : periods[i].cont = cont /\ Holds(periods[i], at)}

(* ResolveActive: the continuous period that started last, whatever else   *)
(* contains the instant; or the one window that does.                      *)
ResolveActive(at) ==
  LET continuous == Holding(at, TRUE)
      windows    == Holding(at, FALSE)
  IN IF continuous # {}
     THEN CHOOSE i \in continuous :
            \A j \in continuous : \/ periods[j].from < periods[i].from
                                  \/ periods[j].from = periods[i].from /\ j <= i
     ELSE IF windows = {} THEN NoActive
     ELSE IF Cardinality(windows) > 1 THEN Overlap
     ELSE CHOOSE i \in windows : TRUE

(* Mutant: only the start of a new window is looked up.                    *)
OverlappingStart(from, to) == {i \in 1 .. Len(periods) : periods[i].from <= from /\ from < periods[i].to}

(* ListOverlapping: drafts and closed periods count as well.               *)
Overlapping(from, to) == {i \in 1 .. Len(periods) : periods[i].from < to /\ from < periods[i].to}

(* What is stored of a command: a continuous period starts now.            *)
Stored(c) ==
  [key |-> c.key, cont |-> c.cont, status |-> IF c.activate THEN "active" ELSE "draft",
   from |-> IF c.cont THEN clock ELSE c.from,
   to |-> IF c.cont THEN Forever ELSE c.from + Length]

(* A continuous period must be active at once, and name the period it      *)
(* replaces; a window names none.                                          *)
Normal(c) == IF c.cont THEN c.activate ELSE c.expected = NoActive

(* Create writes the period, its rules, prizes and budgets in one          *)
(* transaction and activates it last; any refusal leaves nothing.          *)
Create(c) ==
  /\ Normal(c)
  /\ \A d \in created : d.cmd.request # c.request
  /\ c.cont => ResolveActive(clock) = c.expected
  /\ \A i \in 1 .. Len(periods) : periods[i].key # c.key
  /\ ~c.cont => Overlapping(c.from, c.from + Length) = {}
  /\ periods' = Append(periods, Stored(c))
  /\ created' = created \cup {[cmd |-> c, id |-> Len(periods) + 1]}
  /\ UNCHANGED clock

(* Transition: draft, active, settling, closed, and never back.  The close *)
(* of a window that has ended goes through the last two at once.           *)
CloseWindow(i) ==
  /\ ~periods[i].cont /\ periods[i].status = "active" /\ periods[i].to <= clock
  /\ periods' = [periods EXCEPT ![i].status = "closed"]
  /\ UNCHANGED <<clock, created>>

Tick == clock < Horizon /\ clock' = clock + 1 /\ UNCHANGED <<periods, created>>

PeriodsNext ==
  \/ \E c \in Creations : Create(c)
  \/ \E i \in 1 .. Len(periods) : CloseWindow(i)
  \/ Tick

PeriodsSpec == PeriodsInit /\ [][PeriodsNext]_periodVars
-----------------------------------------------------------------------------
(* At every instant, past or future, the question which period it belongs  *)
(* to has an answer: no order of creations leaves two windows over it,     *)
(* which would stop all ingestion with "overlapping active periods".       *)
NeverAmbiguous == \A at \in 0 .. Forever : ResolveActive(at) # Overlap
=============================================================================
