--------------------------- MODULE MCWindowsServer ---------------------------
(* Values of WindowsServer's constants for TLC.                            *)
EXTENDS WindowsServer

CONSTANTS a, b

OneOrBoth == {<<a>>, <<a, b>>}
JustOne == {<<a>>}
===============================================================================
