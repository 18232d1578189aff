--------------------------- MODULE MC_FilterTable ---------------------------
(* Small instances of FilterTable for TLC. *)
EXTENDS FilterTable

CONSTANTS a, b, c

(* The daemon starts with one filter; a second one fills the table. *)
OneFilter == [s \in Slot |-> IF s = 1 THEN a ELSE None]
=============================================================================
