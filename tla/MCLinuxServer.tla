---------------------------- MODULE MCLinuxServer ----------------------------
(* Values of LinuxServer's constants for TLC.                              *)
EXTENDS LinuxServer

CONSTANTS a, b, l

ToA == [p \in {l} |-> a]
NoLink == [p \in {} |-> a]
OnePath == {<<a>>}
LinkAndDir == {<<a>>, <<l>>}
TwoPaths == {<<a>>, <<a, b>>}
===============================================================================
