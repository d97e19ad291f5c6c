--------------------------- MODULE PublishCeiling ---------------------------
(* The ceiling of one connected account: how many posts it may publish in any
   24 hours (platform-limits.ts), as the ticks and clicks of publish-queue.ts
   keep to it.

   A tick counts the published entries of the last 24 hours once, then adds what
   it publishes itself; a click counts before its one post.  Both look the account
   up first, keep to a ceiling only if they find it, and send to the account the
   attempt finds later.  PublishQueue has the claim and the attempt in detail;
   here they are what the count depends on. *)
EXTENDS Integers, FiniteSets

CONSTANTS
  DuePosts,      \* due posts of the account
  Publishers,    \* requests: ticks and clicks
  NoOne,         \* nobody: no entry of the last 24 hours, no post in hand
  Ceiling,       \* platformCeiling(platform)
  CeilingFaults  \* bound: answers lost, log inserts thrown, requests killed,
                 \* and what checks and counts have missed

ASSUME CeilingAssumption ==
  /\ IsFiniteSet(DuePosts) /\ NoOne \notin Publishers \cup DuePosts
  /\ Ceiling \in Nat /\ CeilingFaults \in Nat

VARIABLES
  dueRows,       \* scheduled_posts: "due", "publishing" or "published"
  loggedBy,      \* who logged each post as published, within the last 24 hours
  unlogged,      \* posts accepted in the last 24 hours without an entry
  publishers,    \* the requests: posts still to go, the count, the post in hand,
                 \* and what it will add to the count
  ceilingFaults,
  missed,        \* history: posts sent without the check, entries not counted
  crowded        \* history: two requests were in flight at a time

ceilingVars == <<dueRows, loggedBy, unlogged, publishers, ceilingFaults, missed, crowded>>

OffDuty == [pc |-> "idle", todo |-> {}, used |-> 0, post |-> NoOne, adds |-> 1]

Entries == {p \in DuePosts : loggedBy[p] # NoOne}
EntriesBy(r) == {p \in DuePosts : loggedBy[p] = r}
OnDuty == {r \in Publishers : publishers[r].pc # "idle"}
Unconfirmed == {r \in Publishers : publishers[r].pc \in {"settle", "log"}}
Stranded == {p \in DuePosts : dueRows[p] = "publishing" /\ \A r \in Publishers : publishers[r].post # p}

FaultsLeft == ceilingFaults + missed < CeilingFaults
PublisherAt(r, pc) == publishers[r].pc = pc
PublisherTo(r, pc) == publishers' = [publishers EXCEPT ![r].pc = pc]
PublisherNext(r, used) ==
  publishers' = [publishers EXCEPT ![r].pc = "next", ![r].post = NoOne, ![r].adds = 1, ![r].used = used]

CeilingInit ==
  /\ dueRows = [p \in DuePosts |-> "due"] /\ loggedBy = [p \in DuePosts |-> NoOne]
  /\ unlogged = 0 /\ ceilingFaults = 0 /\ missed = 0 /\ crowded = FALSE
  /\ publishers = [r \in Publishers |-> OffDuty]

-----------------------------------------------------------------------------
Reports(r, todo) ==
  /\ PublisherAt(r, "idle")
  /\ publishers' = [publishers EXCEPT ![r] = [OffDuty EXCEPT !.pc = "count", !.todo = todo]]
  /\ crowded' = (crowded \/ OnDuty # {})
  /\ UNCHANGED <<loggedBy, unlogged, ceilingFaults, missed>>

(* processPublishQueue lists the due posts; claims old enough to be presumed
   dead are released first. *)
BeginTick(r, stale) ==
  /\ stale \subseteq Stranded
  /\ dueRows' = [p \in DuePosts |-> IF p \in stale THEN "due" ELSE dueRows[p]]
  /\ Reports(r, {p \in DuePosts : dueRows'[p] = "due"})

(* publishPostNow, by a click.                                              *)
BeginClick(r, p) == dueRows[p] = "due" /\ Reports(r, {p}) /\ UNCHANGED dueRows

(* listPublishLogsSince and ceilingUsage: once, before the first post.      *)
ReadUsage(r) ==
  /\ PublisherAt(r, "count")
  /\ PublisherNext(r, Cardinality(Entries))
  /\ UNCHANGED <<dueRows, loggedBy, unlogged, ceilingFaults, missed, crowded>>

(* (The companies whose entries are asked for are listed first, and a query that
   failed lists none: nothing is used, then.)  *)
UsageUnread(r) ==
  /\ PublisherAt(r, "count") /\ FaultsLeft
  /\ missed' = missed + Cardinality(Entries)
  /\ PublisherNext(r, 0)
  /\ UNCHANGED <<dueRows, loggedBy, unlogged, ceilingFaults, crowded>>

(* The account has room, by that count: the post is claimed ...             *)
ClaimDue(r, p) ==
  /\ PublisherAt(r, "next") /\ p \in publishers[r].todo /\ publishers[r].used < Ceiling
  /\ publishers' = [publishers EXCEPT ![r].todo = @ \ {p},
                      ![r].pc = IF dueRows[p] = "due" THEN "send" ELSE "next",
                      ![r].post = IF dueRows[p] = "due" THEN p ELSE NoOne]
  /\ dueRows' = IF dueRows[p] = "due" THEN [dueRows EXCEPT ![p] = "publishing"] ELSE dueRows
  /\ UNCHANGED <<loggedBy, unlogged, ceilingFaults, missed, crowded>>

(* ... or is not found - a query that failed, an account connected a moment later:
   the post is claimed whatever the count, and not added to it ...          *)
ClaimUnseen(r, p) ==
  /\ PublisherAt(r, "next") /\ p \in publishers[r].todo /\ dueRows[p] = "due"
  /\ FaultsLeft /\ missed' = missed + 1
  /\ publishers' = [publishers EXCEPT ![r].todo = @ \ {p}, ![r].pc = "send", ![r].post = p, ![r].adds = 0]
  /\ dueRows' = [dueRows EXCEPT ![p] = "publishing"]
  /\ UNCHANGED <<loggedBy, unlogged, ceilingFaults, crowded>>

(* ... or has none: a tick defers what is left, a click is refused.         *)
EndDuty(r) ==
  /\ PublisherAt(r, "next") /\ (publishers[r].todo = {} \/ publishers[r].used >= Ceiling)
  /\ publishers' = [publishers EXCEPT ![r] = OffDuty]
  /\ UNCHANGED <<dueRows, loggedBy, unlogged, ceilingFaults, missed, crowded>>

(* The platform takes the post, or the attempt ends without one.            *)
PlatformTakes(r) ==
  /\ PublisherAt(r, "send")
  /\ PublisherTo(r, "settle")
  /\ UNCHANGED <<dueRows, loggedBy, unlogged, ceilingFaults, missed, crowded>>

AttemptFails(r) ==
  /\ PublisherAt(r, "send")
  /\ dueRows' = [dueRows EXCEPT ![publishers[r].post] = "due"]
  /\ PublisherNext(r, publishers[r].used)
  /\ UNCHANGED <<loggedBy, unlogged, ceilingFaults, missed, crowded>>

SettleRow(r) ==
  /\ PublisherAt(r, "settle")
  /\ dueRows' = [dueRows EXCEPT ![publishers[r].post] = "published"]
  /\ PublisherTo(r, "log")
  /\ UNCHANGED <<loggedBy, unlogged, ceilingFaults, missed, crowded>>

(* Mutant: the tick forgets what it published itself.                       *)
LogEntryUncounted(r) ==
  /\ PublisherAt(r, "log")
  /\ loggedBy' = [loggedBy EXCEPT ![publishers[r].post] = r]
  /\ PublisherNext(r, publishers[r].used)
  /\ UNCHANGED <<dueRows, unlogged, ceilingFaults, missed, crowded>>

(* The entry is written, and counted by the tick that wrote it, if it had found
   the account. *)
LogEntry(r) ==
  /\ PublisherAt(r, "log")
  /\ loggedBy' = [loggedBy EXCEPT ![publishers[r].post] = r]
  /\ PublisherNext(r, publishers[r].used + publishers[r].adds)
  /\ UNCHANGED <<dueRows, unlogged, ceilingFaults, missed, crowded>>

Mishap(r) ==
  /\ FaultsLeft /\ ceilingFaults' = ceilingFaults + 1
  /\ unlogged' = unlogged + (IF r \in Unconfirmed THEN 1 ELSE 0)
  /\ UNCHANGED <<loggedBy, missed, crowded>>

(* The answer is lost: a failure, to the code, which will send again.       *)
LoseAcceptance(r) ==
  /\ PublisherAt(r, "settle")
  /\ dueRows' = [dueRows EXCEPT ![publishers[r].post] = "due"]
  /\ PublisherNext(r, publishers[r].used)
  /\ Mishap(r)

(* The insert throws, and the tick counts a record that was not persisted.  *)
LogEntryThrows(r) ==
  /\ PublisherAt(r, "log")
  /\ PublisherNext(r, publishers[r].used + publishers[r].adds)
  /\ UNCHANGED dueRows
  /\ Mishap(r)

KillPublisher(r) ==
  /\ ~PublisherAt(r, "idle")
  /\ publishers' = [publishers EXCEPT ![r] = OffDuty]
  /\ UNCHANGED dueRows
  /\ Mishap(r)

(* A post, or an acceptance without an entry, is 24 hours old.              *)
LeavesWindow(p) ==
  /\ loggedBy[p] # NoOne
  /\ loggedBy' = [loggedBy EXCEPT ![p] = NoOne]
  /\ UNCHANGED <<dueRows, unlogged, publishers, ceilingFaults, missed, crowded>>

UnloggedLeaves ==
  /\ unlogged > 0 /\ unlogged' = unlogged - 1
  /\ UNCHANGED <<dueRows, loggedBy, publishers, ceilingFaults, missed, crowded>>

CeilingNext ==
  \/ UnloggedLeaves
  \/ \E p \in DuePosts : LeavesWindow(p)
  \/ \E r \in Publishers :
       \/ \E stale \in SUBSET DuePosts : BeginTick(r, stale)
       \/ \E p \in DuePosts : BeginClick(r, p) \/ ClaimDue(r, p) \/ ClaimUnseen(r, p)
       \/ ReadUsage(r) \/ UsageUnread(r) \/ EndDuty(r) \/ PlatformTakes(r) \/ AttemptFails(r) \/ SettleRow(r)
       \/ LogEntry(r) \/ LoseAcceptance(r) \/ LogEntryThrows(r) \/ KillPublisher(r)

CeilingSpec == CeilingInit /\ [][CeilingNext]_ceilingVars

-----------------------------------------------------------------------------
CeilingTypeOK ==
  /\ dueRows \in [DuePosts -> {"due", "publishing", "published"}]
  /\ loggedBy \in [DuePosts -> Publishers \cup {NoOne}]
  /\ {unlogged, ceilingFaults, missed} \subseteq Nat /\ crowded \in BOOLEAN
  /\ publishers \in [Publishers -> [pc : {"idle", "count", "next", "send", "settle", "log"},
                       todo : SUBSET DuePosts, used : Nat, post : DuePosts \cup {NoOne}, adds : {0, 1}]]

(* What a request has up that counts: its entries, and the post it has just
   had accepted. *)
UpBy(r) == Cardinality(EntriesBy(r)) + (IF r \in Unconfirmed THEN 1 ELSE 0)

(* The account has no more posts up from any 24 hours than its ceiling, and
   those whose answer, entry or request was lost, and those that a failed or early
   lookup kept from the check or the count - through any sequence of ticks and
   clicks that do not overlap; and of those that do, each adds a ceiling's worth
   and the missed ones at most, however often it comes back: the overlap that
   publish-queue.ts accepts, and no more. *)
CeilingKept ==
  /\ crowded \/ Cardinality(Entries) + Cardinality(Unconfirmed) + unlogged
                  <= Ceiling + ceilingFaults + missed
  /\ \A r \in Publishers : UpBy(r) <= Ceiling + missed
=============================================================================
