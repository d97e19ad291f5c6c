\* One request at a time: share, edit, submit again.
SPECIFICATION Spec
CONSTANTS
  Posts = {p1}
  Editors = {e1}
  Publishers = {}
  Bodies = {A, B}
  FirstBody = A
  NoPost = NoPost
  Linked = FALSE
  Crashes = FALSE
SYMMETRY Symmetry
INVARIANT ShareIsLive
