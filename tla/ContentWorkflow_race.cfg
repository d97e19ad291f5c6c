\* Two requests and a publisher over one row, any of which may crash.
SPECIFICATION Spec
CONSTANTS
  Posts = {p1}
  Editors = {e1, e2}
  Publishers = {w1}
  Bodies = {A, B}
  FirstBody = A
  NoPost = NoPost
  Linked = FALSE
  Crashes = TRUE
SYMMETRY Symmetry
VIEW Relevant
INVARIANTS TypeOK ApprovedUnlessRaced
PROPERTY CancelledStaysSilent
