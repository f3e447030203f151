------------------------------ MODULE Marketplace ------------------------------
(***************************************************************************)
(* A project that a member presents beside his post.  He drafts and        *)
(* submits an entry, administrators publish it, ask for changes, archive   *)
(* it, or decide whether its demo may run inside the forum; what is public *)
(* (live) stays as it was until a new entry has been published.            *)
(*                                                                         *)
(* Everybody works on a version he has loaded before.  A command takes the *)
(* lock of its actor and of the item, is one transaction, and keeps its    *)
(* answer under the key it came with.                                      *)
(***************************************************************************)
EXTENDS Integers, Sequences, FiniteSets, SequencesExt

CONSTANTS
  Entries,    (* what can be submitted: complete, demo, embed, idea        *)
  MaxVersion, (* bound of the item's version                               *)
  MaxSwings   (* bound of the changes to the posts                         *)

ASSUME MarketplaceAssumption ==
  /\ \A e \in Entries : {e.complete, e.demo, e.embed, e.idea} \subseteq BOOLEAN /\ (e.embed => e.demo)
  /\ MaxVersion \in Nat /\ MaxSwings \in Nat

VARIABLES
  item,     (* metar_market_item: status, entry, live, embed, version      *)
  post,     (* whether the question, and the idea the project started      *)
            (* from, are to be seen                                        *)
  trail,    (* metar_market_audit: key, command and the item after it      *)
  swings    (* how often the posts have changed                            *)

marketVars == <<item, post, trail, swings>>

NoEntry == [complete |-> FALSE]
NoItem  == [status |-> "none", entry |-> NoEntry, live |-> NoEntry, embed |-> FALSE, version |-> 0]

MarketplaceInit ==
  /\ item = NoItem /\ post = [question |-> TRUE, idea |-> TRUE] /\ trail = <<>> /\ swings = 0
-----------------------------------------------------------------------------
(* validatePost: a submission needs a post that is listed, and any entry   *)
(* the idea it names to be public.                                         *)
PostFits(e, public) == (public => post.question) /\ (e.idea => post.idea)

(* ValidateEntry: what a submission must have, drafts may lack.            *)
Complete(e) == e.complete

(* Save or submit.  An entry under review does not change, and what has    *)
(* been published changes only through a new review.                       *)
Save(c) ==
  /\ c.op \in {"save_draft", "submit"} /\ PostFits(c.entry, c.op = "submit")
  /\ c.op = "submit" => Complete(c.entry)
  /\ item.status # "pending_review" /\ (item.status = "published" => c.op = "submit")
  /\ item' = [item EXCEPT !.status = IF c.op = "submit" THEN "pending_review" ELSE "draft",
                          !.entry = c.entry, !.version = @ + 1]

(* By the author or an administrator.                                      *)
Archive(c) ==
  /\ c.op = "archive" /\ item # NoItem
  /\ item' = [item EXCEPT !.status = "archived", !.live = NoEntry, !.embed = FALSE, !.version = @ + 1]

MayEmbed(e) == e.embed /\ e.demo

Publish(c) ==
  /\ c.op = "publish" /\ item.status = "pending_review"
  /\ Complete(item.entry) /\ PostFits(item.entry, TRUE) /\ (c.embed => MayEmbed(item.entry))
  /\ item' = [item EXCEPT !.status = "published", !.live = item.entry, !.embed = c.embed, !.version = @ + 1]

RequestChanges(c) ==
  /\ c.op = "changes" /\ item.status = "pending_review"
  /\ item' = [item EXCEPT !.status = "changes_requested", !.version = @ + 1]

(* Availability: of what is live, whatever else is under review.           *)
Availability(c) ==
  /\ c.op = "availability" /\ item.live # NoEntry /\ (c.embed => MayEmbed(item.live))
  /\ item' = [item EXCEPT !.embed = c.embed, !.version = @ + 1]

AuthorCommands == [op : {"save_draft", "submit"}, entry : Entries] \cup [op : {"archive"}]
ReviewCommands == [op : {"publish", "availability"}, embed : BOOLEAN] \cup [op : {"changes", "archive"}]

(* Mutant: the version the command was made for is not compared.           *)
AnyVersion(seen) == TRUE
Current(seen) == seen = item.version

(* Execute: a key that is known gets its old answer.  The keys are         *)
(* numbered in the order of their first use.                               *)
Turn(key, seen) ==
  /\ \A i \in DOMAIN trail : trail[i].key # key
  /\ Current(seen) /\ item.version < MaxVersion

Keep(key, c, seen) ==
  /\ trail' = Append(trail, [key |-> key, command |-> c, seen |-> seen, after |-> item'])
  /\ UNCHANGED <<post, swings>>

SaveItem(key, c, seen) == Turn(key, seen) /\ (Save(c) \/ Archive(c)) /\ Keep(key, c, seen)
ReviewItem(key, c, seen) ==
  /\ Turn(key, seen) /\ seen # 0
  /\ Publish(c) \/ RequestChanges(c) \/ Availability(c) \/ Archive(c)
  /\ Keep(key, c, seen)

(* Posts are unlisted, deleted and listed again.                           *)
Swing(which) ==
  /\ swings < MaxSwings /\ swings' = swings + 1
  /\ post' = [post EXCEPT ![which] = ~@] /\ UNCHANGED <<item, trail>>

MarketplaceNext ==
  \/ \E key \in 1 .. Len(trail) + 1, seen \in 0 .. item.version :
       \/ \E c \in AuthorCommands : SaveItem(key, c, seen)
       \/ \E c \in ReviewCommands : ReviewItem(key, c, seen)
  \/ \E which \in {"question", "idea"} : Swing(which)

MarketplaceSpec == MarketplaceInit /\ [][MarketplaceNext]_marketVars
-----------------------------------------------------------------------------
(* What somebody had before him when he gave a command: the item as the    *)
(* command before left it at that version.                                 *)
Seen(i) == LET v == {j \in 1 .. i - 1 : trail[j].after.version = trail[i].seen}
           IN  IF v = {} THEN NoItem ELSE trail[CHOOSE j \in v : TRUE].after
Doing(ops) == {i \in DOMAIN trail : trail[i].command.op \in ops}
Newest(set) == CHOOSE i \in set : \A j \in set : j <= i

(* Edits, resubmissions and reviews of several people on versions that may *)
(* be old by then: what is public is an entry that an administrator had    *)
(* before him, complete and waiting for review, when he published it, that *)
(* nobody has archived since; and its demo runs inside the forum only if   *)
(* its author asked for it in that very entry and the administrator who    *)
(* decided last, with it before him, agreed.                               *)
PublicIsApproved ==
  /\ item.live # NoEntry =>
       LET published == Doing({"publish"})  i == Newest(published)  grant == Newest(Doing({"publish", "availability"})) IN
       /\ published # {} /\ Seen(i).entry = item.live /\ Seen(i).status = "pending_review" /\ item.live.complete
       /\ \A j \in Doing({"archive"}) : j < i
       /\ item.embed => /\ item.live.embed /\ item.live.demo /\ trail[grant].command.embed
                        /\ item.live = (IF grant = i THEN Seen(grant).entry ELSE Seen(grant).live)
  /\ item.live = NoEntry => ~item.embed
=============================================================================
