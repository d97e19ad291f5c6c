\* An approval and an edit overlap.
SPECIFICATION Spec
CONSTANTS
  Posts = {p1}
  Editors = {e1, e2}
  Publishers = {}
  Bodies = {A, B}
  FirstBody = A
  NoPost = NoPost
  Linked = FALSE
  Crashes = FALSE
SYMMETRY Symmetry
INVARIANT NothingUnapproved
