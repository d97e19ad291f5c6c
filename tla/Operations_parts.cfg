CONSTANTS
  Jobs = {j1, j2}
  MaxSaves = 1
  MaxCampaigns = 3
  MaxReports = 2
  DeliveryFaults = 1
  Drafters = {d1, d2}
  Topics = {t1}
  Budget = 2
  DraftFaults = 1
  Assistants = {b1, b2}
  Suggestions = {g1, g2}
  MaxFrom = 2
  AssistFaults = 1
  Clerks = {c1, c2}
  ReplyFaults = 1
  Admins = {a1, a2}
  Companies = {x1, x2}
  ControlFaults = 1
  Guests = {v1, v2}
  InviteFaults = 1
  Subscribers = {r1, r2}
  Senders = {s1, s2}
  MailFaults = 1
  DuePosts = {q1, q2, q3}
  Publishers = {w1, w2}
  NoOne = NoOne
  Ceiling = 1
  CeilingFaults = 1

SPECIFICATION Spec
CONSTRAINT Followed
INVARIANT TypesOK
INVARIANT OneCampaignPerRun
INVARIANT ProfileKept
INVARIANT BudgetHolds
INVARIANT OneDraftEach
INVARIANT OneOpenEach
INVARIANT AcceptedOnce
INVARIANT RepliedOnce
INVARIANT FreezeStands
INVARIANT InviteUsedOnce
INVARIANT MailedOnce
INVARIANT CeilingKept
PROPERTY DeliveryRests
CHECK_DEADLOCK FALSE
