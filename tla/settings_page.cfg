\* Two sections, a legacy form without scripts and one with two, one app state change.
CONSTANTS
  s1 = s1
  s2 = s2
  x1 = x1
  x2 = x2
  Section = {s1, s2}
  NoSection = NoSection
  AppEvents = TRUE
  Composable = FALSE
  Failures = FALSE
  MaxVersion = 2
  Slot = {q1, q2}
  Script = {x1, x2}
  Scripts <- MCScripts
  Broken = {x2}
  Loop = {l1, l2}
SPECIFICATION PageSpec
INVARIANTS PageTypeOK
PROPERTIES SpinnerEnds PageSettles
