--------------------------- MODULE MCSettingsSync ---------------------------
(* SettingsSync on small instances: consoles are model values, cameras 1..N. *)
EXTENDS SettingsSync
CONSTANTS k1

OneConsole == {k1}
OneCamera == {1}
=============================================================================
