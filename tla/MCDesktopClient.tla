--------------------------- MODULE MCDesktopClient ---------------------------
(* DesktopClient for TLC.  Two sessions, with the threads whose reports can  *)
(* come late taken in turn; one session with the device toggles; and one     *)
(* session with all its threads.                                             *)
EXTENDS DesktopClient

MCScopes == {
    [sessions |-> 2, clicks |-> 3, toggles |-> FALSE, threads |-> {"control", "udp"}],
    [sessions |-> 2, clicks |-> 3, toggles |-> FALSE, threads |-> {"control", "caps"}],
    [sessions |-> 2, clicks |-> 2, toggles |-> FALSE, threads |-> {"control", "udp", "decoder"}],
    [sessions |-> 1, clicks |-> 4, toggles |-> TRUE, threads |-> {"control"}],
    [sessions |-> 1, clicks |-> 2, toggles |-> FALSE, threads |-> Runtime]}

=============================================================================
