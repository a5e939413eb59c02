--------------------------- MODULE MCLicenseServer ---------------------------
(* Instances of LicenseServer for TLC.                                     *)
EXTENDS LicenseServer, TLC

\* Every card is worth one day and one device.
OneDay    == [c \in Cards |-> 1]
OneDevice == [c \in Cards |-> 1]

\* License ids, machines, cards of one kind and threads are interchangeable.
Symmetry ==
  Permutations(Licenses) \cup Permutations(Machines) \cup Permutations(Clients)
    \cup Permutations(Admins) \cup Permutations(Cards) \cup Permutations(Codes)
=============================================================================
