--------------------------- MODULE MCSettingsPage ---------------------------
(* Small instances of SettingsPage for TLC.                                *)
EXTENDS SettingsPage, TLC

CONSTANTS s1, s2, x1, x2

\* A section as the server answers, and one with scripts as the form takes them.
MCScripts == s1 :> <<>> @@ s2 :> <<x1, x2>>
=============================================================================
