------------------------------ MODULE MC_Daemon ------------------------------
(* Small instances of Daemon for TLC.                                      *)
EXTENDS Daemon

CONSTANT rec

OneRecord == {rec}
UpToTwoStops == {<<>>, <<rec>>, <<rec, rec>>}
=============================================================================
