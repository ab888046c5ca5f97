---------------------------- MODULE MCDaemon ----------------------------
(* A small instance of Daemon for TLC.                                     *)
EXTENDS Daemon, TLC

CONSTANTS a, b

\* Unasked and asked for peers, and -host.
Called == {[peers |-> a, asked |-> FALSE, host |-> FALSE], [peers |-> b, asked |-> TRUE, host |-> FALSE],
           [peers |-> a, asked |-> FALSE, host |-> TRUE]}
\* A long conversation, and a run and a launch at once.
Lines == {<<2, -1>>, <<1, 0>>}
=============================================================================
