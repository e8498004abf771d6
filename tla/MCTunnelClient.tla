--------------------------- MODULE MCTunnelClient ---------------------------
(***************************************************************************)
(* Small instances of TunnelClient: the command line's ways to run one,    *)
(* and the published edition of it.                                        *)
(***************************************************************************)
EXTENDS PublishedClient

CommandLine == [liveness |-> TRUE, exitAfter |-> TRUE, once |-> FALSE]
Once        == [liveness |-> TRUE, exitAfter |-> FALSE, once |-> TRUE]
AllClients  == {Published, CommandLine, Once}
=============================================================================
