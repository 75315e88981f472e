CONSTANTS
  Section = {s1, s2}
  NoSection = NoSection
  AppEvents = TRUE
  Composable = TRUE
  Failures = TRUE
  MaxVersion = 3
  Slot = {q1, q2}
SPECIFICATION Spec
SYMMETRY Symmetry
INVARIANTS SpinnerHasRequest HandlersMatch StaleOnlyIfOvertaken SectionsRefreshed
