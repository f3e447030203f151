-------------------------- MODULE MCCommunityTickets --------------------------
(***************************************************************************)
(* Two members and two replicas: u1 likes and comments on the posts of u2, *)
(* who checks in.  One like or two comments earn u1 a ticket, one comment  *)
(* earns u2 one.                                                           *)
(***************************************************************************)
EXTENDS CommunityTickets

MCDeeds ==
  {[stream |-> "activity", actor |-> "u1", owner |-> "u2", object |-> "o1", new |-> TRUE],
   [stream |-> "comment",  actor |-> "u1", owner |-> "u2", object |-> "o1", new |-> TRUE],
   [stream |-> "checkin",  actor |-> "u2", owner |-> "u2", object |-> "o1", new |-> TRUE]}
MCCap == [received |-> 1, participation |-> 2, checkin |-> 1]
=============================================================================
