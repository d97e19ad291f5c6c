------------------------- MODULE PublishingControls -------------------------
(* The kill switch and the freezes of one tenant (publishing/actions.ts), kept
   in one row of publishing_controls.

   A change reads the row to compute its column, updatePublishingControls reads
   it again and upserts the whole of it: a change in between is undone, in
   whatever column.  The adapter looks at no error: a failed read is a row with
   nothing frozen, a failed write an answered request. *)
EXTENDS Integers

CONSTANTS
  Admins,         \* requests in flight
  Companies,      \* companies that can be frozen
  ControlFaults   \* bound: database calls that fail, requests killed

ASSUME ControlAssumption == ControlFaults \in Nat

VARIABLES
  controls,       \* the row: "freezeAll" and the frozen companies that are set
  asked,          \* history: the controls as the answered requests asked for
  admins,         \* the requests in flight: their change, and the row they read
  controlFaults,
  controlHarm     \* history: two requests overlapped, or a database call failed

controlVars == <<controls, asked, admins, controlFaults, controlHarm>>

Switches == {"freezeAll"} \cup Companies
Column(s) == IF s = "freezeAll" THEN {s} ELSE Companies   \* a list is one column

NoChange == [pc |-> "idle", switch |-> "freezeAll", on |-> FALSE, list |-> {}, row |-> {}]
Set(set, s, on) == IF on THEN set \cup {s} ELSE set \ {s}

ControlInit ==
  /\ controls = {} /\ asked = {} /\ controlFaults = 0 /\ controlHarm = FALSE
  /\ admins = [a \in Admins |-> NoChange]

-----------------------------------------------------------------------------
(* getPublishingControls, with a fault if it reads the defaults instead.    *)
Reading(failed) == IF failed THEN {} ELSE controls
Fault(failed) ==
  /\ failed => controlFaults < ControlFaults
  /\ controlFaults' = controlFaults + (IF failed THEN 1 ELSE 0)

(* Mutant: the list of a freeze is the company alone.                       *)
PatchAlone(row, s, on) == IF on THEN {s} ELSE (row \cap Column(s)) \ {s}

(* The column to write: the list with the company added or taken out, or the
   switch (toggleControlAction, freezeScopeAction). *)
Patch(row, s, on) == Set(row \cap Column(s), s, on)

(* A switch is flipped from what was read, a freeze says what it wants.     *)
BeginChange(a, s, on, failed) ==
  /\ admins[a].pc = "idle"
  /\ s = "freezeAll" => on = (s \notin Reading(failed))
  /\ admins' = [admins EXCEPT ![a] = [pc |-> "fetch", switch |-> s, on |-> on,
                                      list |-> Patch(Reading(failed), s, on), row |-> {}]]
  /\ Fault(failed)
  /\ controlHarm' = (controlHarm \/ failed \/ \E b \in Admins : admins[b].pc # "idle")
  /\ UNCHANGED <<controls, asked>>

(* updatePublishingControls: the row is read ...                            *)
FetchRow(a, failed) ==
  /\ admins[a].pc = "fetch"
  /\ admins' = [admins EXCEPT ![a].pc = "upsert", ![a].row = Reading(failed)]
  /\ Fault(failed)
  /\ controlHarm' = (controlHarm \/ failed)
  /\ UNCHANGED <<controls, asked>>

(* ... and written back with the column replaced.                           *)
UpsertRow(a, failed) ==
  LET change == admins[a] IN
  /\ change.pc = "upsert"
  /\ controls' = IF failed THEN controls ELSE (change.row \ Column(change.switch)) \cup change.list
  /\ asked' = Set(asked, change.switch, change.on)
  /\ admins' = [admins EXCEPT ![a] = NoChange]
  /\ Fault(failed)
  /\ controlHarm' = (controlHarm \/ failed)

KillAdmin(a) ==
  /\ admins[a].pc # "idle" /\ Fault(TRUE)
  /\ admins' = [admins EXCEPT ![a] = NoChange]
  /\ UNCHANGED <<controls, asked, controlHarm>>

ControlNext ==
  \E a \in Admins :
    \/ KillAdmin(a)
    \/ \E failed \in BOOLEAN :
         \/ FetchRow(a, failed) \/ UpsertRow(a, failed)
         \/ \E s \in Switches, on \in BOOLEAN : BeginChange(a, s, on, failed)

ControlSpec == ControlInit /\ [][ControlNext]_controlVars

-----------------------------------------------------------------------------
ControlTypeOK ==
  /\ controls \subseteq Switches /\ asked \subseteq Switches
  /\ controlFaults \in Nat /\ controlHarm \in BOOLEAN
  /\ \A a \in Admins :
       /\ admins[a].pc \in {"idle", "fetch", "upsert"} /\ admins[a].on \in BOOLEAN
       /\ admins[a].switch \in Switches
       /\ admins[a].list \subseteq Switches /\ admins[a].row \subseteq Switches

(* What admins asked for is in force, in every column, through any sequence of
   changes (killed ones included); only changes that overlap, or a database
   call that fails unseen, undo a freeze. *)
FreezeStands == controlHarm \/ controls = asked
=============================================================================
