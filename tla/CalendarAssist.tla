--------------------------- MODULE CalendarAssist ---------------------------
(* The calendar assistant's suggestions for one company (ai/calendar-assist.ts):
   surfaced by a scan, accepted into a draft, or dismissed.

   On the hosted database they have no table: they are a list in the company's
   profile (supabase-adapter.ts), and every change to one of them reads the
   company and writes the whole profile back - as the company form, the reports
   and the delivery run do for reasons of their own.  ManagedDelivery is about
   what this column holds for them; here it is the list, and those writers are
   requests that write back the list they read. *)
EXTENDS Integers, FiniteSets

CONSTANTS
  Assistants,    \* requests that touch the profile: ticks, clicks, forms
  Suggestions,   \* ids that suggestions under one key (kind, date, title) may get
  MaxFrom,       \* bound: drafts of a suggestion that is accepted again
  AssistFaults   \* bound: requests killed, reads and writes that failed

ASSUME AssistAssumption == MaxFrom \in Nat /\ AssistFaults \in Nat

VARIABLES
  board,         \* profile.calendarAssist.suggestions: status of each
  surfaced,      \* ids given out (randomUUID: never twice)
  fromSuggestion,\* content drafted from each
  assistants,    \* the requests in flight, with the list they read
  assistFaults,  \* requests killed, reads and writes that failed
  assistMishaps  \* history: "scan" when two scans overlapped, "accept" when two
                 \* requests settled one suggestion at a time, "profile" when a
                 \* list was written over a change that its writer had not seen

assistVars == <<board, surfaced, fromSuggestion, assistants, assistFaults, assistMishaps>>

Blank == [g \in Suggestions |-> "none"]
AtRest == [pc |-> "idle", job |-> "other", row |-> {}, copy |-> Blank, kept |-> Blank]

Scanners == {a \in Assistants : assistants[a].pc # "idle" /\ assistants[a].job \in {"scan", "calendar"}}
Settling(g) ==
  {a \in Assistants : /\ assistants[a].pc # "idle" /\ assistants[a].job \in {"accept", "dismiss"}
                      /\ assistants[a].row = {g}}
OpenOnes == {g \in Suggestions : board[g] = "open"}

AssistantAt(a, pc, jobs) == assistants[a].pc = pc /\ assistants[a].job \in jobs
AssistantTo(a, pc) == assistants' = [assistants EXCEPT ![a].pc = pc]
AssistantDone(a) == assistants' = [assistants EXCEPT ![a] = AtRest]
Remarking(what, others) ==
  assistMishaps' = IF others # {} THEN assistMishaps \cup {what} ELSE assistMishaps

(* What is seen to have changed between the read of a list and its writing. *)
Unseen(list) == {g \in Suggestions : board[g] # list[g]}

(* A scan is over; that of a delivery run returns to it.                    *)
ScanOver(a) ==
  assistants' = [assistants EXCEPT ![a] =
    IF @.job = "calendar" THEN [@ EXCEPT !.pc = "return"] ELSE AtRest]

AssistInit ==
  /\ board = Blank /\ surfaced = {} /\ fromSuggestion = [g \in Suggestions |-> 0]
  /\ assistants = [a \in Assistants |-> AtRest]
  /\ assistFaults = 0 /\ assistMishaps = {}

-----------------------------------------------------------------------------
(* surfaceCalendarAssistSuggestions, by a click or the rolling calendar ...  *)
BeginScan(a) ==
  /\ assistants[a].pc = "idle"
  /\ assistants' = [assistants EXCEPT ![a].pc = "list", ![a].job = "scan"]
  /\ Remarking("scan", Scanners)
  /\ UNCHANGED <<board, surfaced, fromSuggestion, assistFaults>>

(* ... or in the calendar phase of a delivery run, which holds the company it
   read before. *)
BeginCalendarPhase(a) ==
  /\ assistants[a].pc = "idle"
  /\ assistants' = [assistants EXCEPT ![a].pc = "list", ![a].job = "calendar", ![a].kept = board]
  /\ Remarking("scan", Scanners)
  /\ UNCHANGED <<board, surfaced, fromSuggestion, assistFaults>>

(* Mutant: a suggestion is missing whether or not one is open.              *)
ListOpenAny(a) ==
  /\ AssistantAt(a, "list", {"scan", "calendar"})
  /\ AssistantTo(a, "missing")
  /\ UNCHANGED <<board, surfaced, fromSuggestion, assistFaults, assistMishaps>>

(* The open suggestions are listed: what is among them is passed over ...   *)
ListOpen(a) ==
  /\ AssistantAt(a, "list", {"scan", "calendar"})
  /\ IF OpenOnes = {} THEN AssistantTo(a, "missing") ELSE ScanOver(a)
  /\ UNCHANGED <<board, surfaced, fromSuggestion, assistFaults, assistMishaps>>

(* ... a query that failed has none to list ...                             *)
ListUnread(a) ==
  /\ AssistantAt(a, "list", {"scan", "calendar"}) /\ assistFaults < AssistFaults
  /\ assistFaults' = assistFaults + 1
  /\ AssistantTo(a, "missing")
  /\ UNCHANGED <<board, surfaced, fromSuggestion, assistMishaps>>

(* ... and a budget spent, or a call that throws, ends the scan.            *)
ScanRefused(a) ==
  /\ assistants[a].pc \in {"list", "missing"}
  /\ ScanOver(a)
  /\ UNCHANGED <<board, surfaced, fromSuggestion, assistFaults, assistMishaps>>

(* getCompany: the list that will be written back.                          *)
FetchBoard(a, from) ==
  /\ assistants[a].pc = from
  /\ assistants' = [assistants EXCEPT ![a].pc = "write", ![a].copy = board]
  /\ UNCHANGED <<board, surfaced, fromSuggestion, assistFaults, assistMishaps>>

(* createCalendarAssistSuggestion appends to the list it read.              *)
WriteSuggestion(a, g) ==
  /\ AssistantAt(a, "write", {"scan", "calendar"}) /\ g \notin surfaced
  /\ board' = [assistants[a].copy EXCEPT ![g] = "open"]
  /\ surfaced' = surfaced \cup {g}
  /\ assistants' = [assistants EXCEPT ![a] =
       IF @.job = "calendar" THEN [@ EXCEPT !.pc = "return", !.row = {g}, !.copy = Blank] ELSE AtRest]
  /\ Remarking("profile", Unseen(assistants[a].copy))
  /\ UNCHANGED <<fromSuggestion, assistFaults>>

(* The delivery run writes its milestone into the company it held meanwhile:
   what it has surfaced itself is gone with it. *)
PatchCalendar(a) ==
  /\ AssistantAt(a, "return", {"calendar"})
  /\ board' = assistants[a].kept
  /\ AssistantDone(a)
  /\ Remarking("profile", {g \in Unseen(assistants[a].kept) : g \notin assistants[a].row \/ board[g] # "open"})
  /\ UNCHANGED <<surfaced, fromSuggestion, assistFaults>>

-----------------------------------------------------------------------------
(* Mutant: a suggestion that was accepted can be accepted again.            *)
AcceptSuggestionAny(a, g) ==
  /\ assistants[a].pc = "idle" /\ board[g] \in {"open", "accepted"} /\ fromSuggestion[g] < MaxFrom
  /\ assistants' = [assistants EXCEPT ![a].pc = "draft", ![a].job = "accept", ![a].row = {g}]
  /\ Remarking("accept", Settling(g))
  /\ UNCHANGED <<board, surfaced, fromSuggestion, assistFaults>>

(* acceptCalendarAssistSuggestionAction: the suggestion is read, and has to be
   open ... *)
AcceptSuggestion(a, g) ==
  /\ assistants[a].pc = "idle" /\ board[g] = "open" /\ fromSuggestion[g] < MaxFrom
  /\ assistants' = [assistants EXCEPT ![a].pc = "draft", ![a].job = "accept", ![a].row = {g}]
  /\ Remarking("accept", Settling(g))
  /\ UNCHANGED <<board, surfaced, fromSuggestion, assistFaults>>

(* ... the budget or the model may refuse ...                               *)
AcceptRefused(a) ==
  /\ assistants[a].pc = "draft"
  /\ AssistantDone(a)
  /\ UNCHANGED <<board, surfaced, fromSuggestion, assistFaults, assistMishaps>>

(* ... and the content is created before the suggestion is accepted.        *)
DraftSuggestion(a, g) ==
  /\ assistants[a].pc = "draft" /\ g \in assistants[a].row
  /\ fromSuggestion' = [fromSuggestion EXCEPT ![g] = @ + 1]
  /\ AssistantTo(a, "mark")
  /\ UNCHANGED <<board, surfaced, assistFaults, assistMishaps>>

(* dismissCalendarAssistSuggestionAction                                    *)
DismissSuggestion(a, g) ==
  /\ assistants[a].pc = "idle" /\ board[g] = "open"
  /\ assistants' = [assistants EXCEPT ![a].pc = "mark", ![a].job = "dismiss", ![a].row = {g}]
  /\ Remarking("accept", Settling(g))
  /\ UNCHANGED <<board, surfaced, fromSuggestion, assistFaults>>

(* updateCalendarAssistSuggestion looks the suggestion up, and leaves one that
   is gone; then it reads the company, and writes back the list with the
   suggestion settled, if that list has it. *)
LookUp(a, g) ==
  /\ assistants[a].pc = "mark" /\ g \in assistants[a].row
  /\ IF board[g] = "none" THEN AssistantDone(a) ELSE AssistantTo(a, "found")
  /\ UNCHANGED <<board, surfaced, fromSuggestion, assistFaults, assistMishaps>>

WriteSettled(a, g) ==
  /\ AssistantAt(a, "write", {"accept", "dismiss"}) /\ g \in assistants[a].row
  /\ LET status == IF assistants[a].job = "accept" THEN "accepted" ELSE "dismissed"
     IN board' = [assistants[a].copy EXCEPT ![g] = IF @ = "none" THEN @ ELSE status]
  /\ AssistantDone(a)
  /\ Remarking("profile", Unseen(assistants[a].copy))
  /\ UNCHANGED <<surfaced, fromSuggestion, assistFaults>>

-----------------------------------------------------------------------------
(* Whoever else writes the profile - the company form and its kin, a report, a
   phase of a delivery run, a suggestion of another key - has read it before. *)
BeginOther(a) ==
  /\ assistants[a].pc = "idle"
  /\ FetchBoard(a, "idle")

WriteOther(a) ==
  /\ AssistantAt(a, "write", {"other"})
  /\ board' = assistants[a].copy
  /\ AssistantDone(a)
  /\ Remarking("profile", Unseen(assistants[a].copy))
  /\ UNCHANGED <<surfaced, fromSuggestion, assistFaults>>

(* The host kills a request, or its last read or write fails unseen.        *)
KillAssistant(a) ==
  /\ assistants[a].pc # "idle" /\ assistFaults < AssistFaults
  /\ assistFaults' = assistFaults + 1
  /\ AssistantDone(a)
  /\ UNCHANGED <<board, surfaced, fromSuggestion, assistMishaps>>

AssistNext ==
  \E a \in Assistants :
    \/ BeginScan(a) \/ BeginCalendarPhase(a) \/ ListOpen(a) \/ ListUnread(a) \/ ScanRefused(a)
    \/ FetchBoard(a, "missing") \/ FetchBoard(a, "found") \/ PatchCalendar(a)
    \/ AcceptRefused(a) \/ BeginOther(a) \/ WriteOther(a) \/ KillAssistant(a)
    \/ \E g \in Suggestions :
         \/ WriteSuggestion(a, g) \/ AcceptSuggestion(a, g) \/ DraftSuggestion(a, g)
         \/ DismissSuggestion(a, g) \/ LookUp(a, g) \/ WriteSettled(a, g)

AssistSpec == AssistInit /\ [][AssistNext]_assistVars

-----------------------------------------------------------------------------
Boards == [Suggestions -> {"none", "open", "accepted", "dismissed"}]

AssistTypeOK ==
  /\ board \in Boards /\ surfaced \subseteq Suggestions /\ fromSuggestion \in [Suggestions -> Nat]
  /\ assistFaults \in Nat /\ assistMishaps \subseteq {"scan", "accept", "profile"}
  /\ assistants \in [Assistants ->
       [pc : {"idle", "list", "missing", "write", "return", "draft", "mark", "found"},
        job : {"other", "scan", "calendar", "accept", "dismiss"},
        row : SUBSET Suggestions, copy : Boards, kept : Boards]]

(* One suggestion of a key is open at most, and one more for every list that
   could not be read: two scans at a time make others, and so does a profile
   written by someone who had not seen the last of it, and nothing else - not
   the delivery run that wipes out what it has just surfaced. *)
OneOpenEach ==
  assistMishaps \cap {"scan", "profile"} = {} => Cardinality(OpenOnes) <= 1 + assistFaults

(* A suggestion becomes one draft, and one more for each accept that ended
   between the draft and the profile; a dismissed one has none but those.  Others
   take two requests that settle it at a time, or a profile written over the
   acceptance by someone who had not seen it. *)
AcceptedOnce ==
  assistMishaps \cap {"accept", "profile"} = {} =>
     \A g \in Suggestions :
       /\ fromSuggestion[g] <= 1 + assistFaults
       /\ board[g] = "dismissed" => fromSuggestion[g] <= assistFaults
=============================================================================
