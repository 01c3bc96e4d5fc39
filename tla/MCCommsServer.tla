---------------------------- MODULE MCCommsServer ----------------------------
(* Small servers: one or two remote hosts, two output workers.             *)
EXTENDS CommsServer

Symmetry == Permutations(Hosts) \union Permutations(Workers)
=============================================================================
