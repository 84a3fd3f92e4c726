-------------------------- MODULE MCHostService --------------------------
(***************************************************************************)
(* HostService with the small sets of its configurations.                  *)
(***************************************************************************)
EXTENDS HostService, TLC

\* No action tells one client, interface or file from another.
Same ==
    Permutations(Clients) \cup Permutations(Interfaces) \cup Permutations(Files)

==========================================================================
