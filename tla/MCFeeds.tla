-------------------------------- MODULE MCFeeds --------------------------------
(* A feed that breaks, reconnects, is switched off and on again; and one    *)
(* connection whose frames go to the spooler.                              *)
EXTENDS Feeds

Switched == [spool |-> FALSE, messages |-> 2, ticks |-> 2, enables |-> 2, breaks |-> TRUE]
Spooled == [spool |-> TRUE, messages |-> 3, ticks |-> 0, enables |-> 1, breaks |-> FALSE]
AllJobs == {Switched, Spooled}
=============================================================================
