\* One request at a time over an item of a campaign and two rows.
SPECIFICATION Spec
CONSTANTS
  Posts = {p1, p2}
  Editors = {e1}
  Publishers = {}
  Bodies = {A, B}
  FirstBody = A
  NoPost = NoPost
  Linked = TRUE
  Crashes = FALSE
SYMMETRY Symmetry
INVARIANT CampaignFollows
