--------------------------- MODULE ConnectInvites ---------------------------
(* One invitation to connect a platform account without a login: its one-time
   link (connect/[token]/actions.ts, api/oauth/callback/route.ts), its page
   (connect-public.ts) and its revocation (publishing/actions.ts).

   The integration is created before the invitation is completed, and every
   status is written without a condition on the one that was read. *)
EXTENDS Integers

CONSTANTS
  Guests,        \* requests in flight
  InviteFaults   \* bound: requests killed

ASSUME InviteAssumption == InviteFaults \in Nat

VARIABLES
  invite,        \* connect_invites.status
  overdue,       \* the date of expiry has passed
  integrations,  \* publishing_integrations connected through it
  guests,        \* what each request is about to do
  inviteFaults,
  inviteRaced,   \* history: two requests were in flight at a time
  expiredLate    \* history: it expired between the two checks of a completion

inviteVars == <<invite, overdue, integrations, guests, inviteFaults, inviteRaced, expiredLate>>

GuestTo(g, pc) == guests' = [guests EXCEPT ![g] = pc]

(* The invitation is read, and the request goes by that until it writes.    *)
Visit(g, pc) ==
  /\ guests[g] = "idle" /\ invite = "pending"
  /\ GuestTo(g, pc)
  /\ inviteRaced' = (inviteRaced \/ \E h \in Guests : guests[h] # "idle")
  /\ UNCHANGED <<invite, overdue, integrations, inviteFaults, expiredLate>>

InviteInit ==
  /\ invite = "pending" /\ overdue = FALSE /\ integrations = 0
  /\ guests = [g \in Guests |-> "idle"]
  /\ inviteFaults = 0 /\ inviteRaced = FALSE /\ expiredLate = FALSE

-----------------------------------------------------------------------------
(* The consent callback, or the manual form: pending and in date.           *)
BeginConnect(g) == ~overdue /\ Visit(g, "create")

CreateIntegration(g) ==
  /\ guests[g] = "create"
  /\ integrations' = integrations + 1
  /\ GuestTo(g, "complete")
  /\ UNCHANGED <<invite, overdue, inviteFaults, inviteRaced, expiredLate>>

(* Mutant: the invitation stays open for another account.                   *)
CompleteInviteOpen(g) ==
  /\ guests[g] = "complete"
  /\ GuestTo(g, "idle")
  /\ UNCHANGED <<invite, overdue, integrations, inviteFaults, inviteRaced, expiredLate>>

(* completeConnectInvite: read once more, then refused, expired or, in a write
   of its own (see StampInvite), completed. *)
CompleteInvite(g) ==
  /\ guests[g] = "complete"
  /\ expiredLate' = (expiredLate \/ overdue)
  /\ invite' = IF invite = "pending" /\ overdue THEN "expired" ELSE invite
  /\ GuestTo(g, IF invite = "pending" /\ ~overdue THEN "stamp" ELSE "idle")
  /\ UNCHANGED <<overdue, integrations, inviteFaults, inviteRaced>>

StampInvite(g) ==
  /\ guests[g] = "stamp"
  /\ invite' = "completed"
  /\ GuestTo(g, "idle")
  /\ UNCHANGED <<overdue, integrations, inviteFaults, inviteRaced, expiredLate>>

(* markInviteExpiredIfNeeded, when the page is loaded.                      *)
BeginExpire(g) == overdue /\ Visit(g, "expire")

(* revokeConnectInviteAction.                                               *)
BeginRevoke(g) == Visit(g, "revoke")

WriteStatus(g) ==
  /\ guests[g] \in {"expire", "revoke"}
  /\ invite' = IF guests[g] = "expire" THEN "expired" ELSE "revoked"
  /\ GuestTo(g, "idle")
  /\ UNCHANGED <<overdue, integrations, inviteFaults, inviteRaced, expiredLate>>

Expires ==
  /\ ~overdue /\ overdue' = TRUE
  /\ UNCHANGED <<invite, integrations, guests, inviteFaults, inviteRaced, expiredLate>>

(* The host kills a request, or its last write fails unseen.               *)
KillGuest(g) ==
  /\ guests[g] # "idle" /\ inviteFaults < InviteFaults
  /\ inviteFaults' = inviteFaults + 1
  /\ GuestTo(g, "idle")
  /\ UNCHANGED <<invite, overdue, integrations, inviteRaced, expiredLate>>

InviteNext ==
  \/ Expires
  \/ \E g \in Guests :
       \/ BeginConnect(g) \/ CreateIntegration(g) \/ CompleteInvite(g) \/ StampInvite(g)
       \/ BeginExpire(g) \/ BeginRevoke(g) \/ WriteStatus(g) \/ KillGuest(g)

InviteSpec == InviteInit /\ [][InviteNext]_inviteVars

-----------------------------------------------------------------------------
InviteTypeOK ==
  /\ invite \in {"pending", "completed", "expired", "revoked"}
  /\ guests \in [Guests -> {"idle", "create", "complete", "stamp", "expire", "revoke"}]
  /\ {overdue, inviteRaced, expiredLate} \subseteq BOOLEAN /\ {integrations, inviteFaults} \subseteq Nat

(* An invitation connects one account, and one more for each request killed
   before it was completed; only guests that overlap connect others.  One that
   expired or was revoked connected none but by such a kill, or by expiring
   between the two checks of one completion. *)
InviteUsedOnce ==
  inviteRaced \/ ( /\ integrations <= 1 + inviteFaults
                   /\ invite \in {"expired", "revoked"} /\ ~expiredLate => integrations <= inviteFaults )
=============================================================================
