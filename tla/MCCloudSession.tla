--------------------------- MODULE MCCloudSession ---------------------------
(***************************************************************************)
(* Two sessions, so that old writers and readers meet a new connection;    *)
(* channels and sockets of one place, so that each of them fills up.       *)
(***************************************************************************)
EXTENDS CloudSession

CONSTANTS p1, loop, spooler

OnePrinter == {p1}
AllInputs  ==
  {[type |-> "config", printers |-> {p1}], [type |-> "config_update", printers |-> {p1}]}
    \cup [type : {"print_job", "print_order", "unpaired"}]
=============================================================================
