-------------------------- MODULE MCSettingsStore --------------------------
(* Small instances of SettingsStore for TLC.                               *)
EXTENDS SettingsStore, TLC

Symmetry == Permutations(Section) \cup Permutations(Slot)
=============================================================================
