------------------------------- MODULE MCDaemon -------------------------------
(* Instances of Daemon for TLC: two daemons and an MCP server on one brain *)
(* directory, two requests at a time.                                      *)
EXTENDS Daemon

CONSTANTS d1, d2, m1, r1, r2

TwoDaemons == {d1, d2}
OneMcp     == {m1}
TwoThreads == {r1, r2}
===============================================================================
