--------------------------- MODULE PublishPromise ---------------------------
(* What the publish queue promises of each post, as those who scheduled it and
   those who read the page see it: no workers, claims, logs or retries, only
   where the post is and how often the page has it.

   A post that is up, with anything left to show for it, ends "out": it is not
   sent again, not put back and not given up. *)
EXTENDS Naturals

CONSTANT Posts

VARIABLES
  place,   \* "queue", "flight", "parked" (for a person to look at), "out", "gone"
  sent,    \* times the page has it
  blind    \* times all that showed it was up has been lost

promiseVars == <<place, sent, blind>>

KnownUp(p) == sent[p] > blind[p]

Moves(p, from, to) == place[p] = from /\ place'[p] = to
Stays(p) == place'[p] = place[p]
SameCounts(p) == sent'[p] = sent[p] /\ blind'[p] = blind[p]

Take(p) == Moves(p, "queue", "flight") /\ SameCounts(p)
PutBack(p) == Moves(p, "flight", "queue") /\ ~KnownUp(p) /\ SameCounts(p)
Withdraw(p) == Moves(p, "flight", "gone") /\ ~KnownUp(p) /\ SameCounts(p)
Confirm(p) == Moves(p, "flight", "out") /\ sent[p] > 0 /\ SameCounts(p)
Park(p) == Moves(p, "queue", "parked") /\ SameCounts(p)
Revive(p) == Moves(p, "parked", "queue") /\ SameCounts(p)
Cancel(p) == (Moves(p, "queue", "gone") \/ Moves(p, "parked", "gone")) /\ SameCounts(p)

Send(p) ==
  /\ place[p] = "flight" /\ Stays(p) /\ ~KnownUp(p)
  /\ sent'[p] = sent[p] + 1 /\ blind'[p] = blind[p]

LoseSight(p) ==
  /\ KnownUp(p) /\ Stays(p)
  /\ blind'[p] = blind[p] + 1 /\ sent'[p] = sent[p]

Rests(p) == Stays(p) /\ SameCounts(p)

Init == place = [p \in Posts |-> "queue"] /\ sent = [p \in Posts |-> 0] /\ blind = sent

(* A restart is one event for all posts at a time.                         *)
Next ==
  \A p \in Posts :
    \/ Take(p) \/ PutBack(p) \/ Withdraw(p) \/ Confirm(p) \/ Park(p) \/ Revive(p) \/ Cancel(p)
    \/ Send(p) \/ LoseSight(p) \/ Rests(p)

Spec == Init /\ [][Next]_promiseVars
=============================================================================
