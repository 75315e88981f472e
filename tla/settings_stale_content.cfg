CONSTANTS
  Section = {s1, s2}
  NoSection = NoSection
  AppEvents = TRUE
  Composable = FALSE
  Failures = FALSE
  MaxVersion = 2
  Slot = {q1, q2}
SPECIFICATION Spec
INVARIANTS NothingStaleCached
