--------------------------- MODULE MCSecurityState ---------------------------
(* Instances of SecurityState for TLC. *)
EXTENDS SecurityState

CONSTANTS n1, n2

Cert(n) == [names |-> <<n>>, trusted |-> TRUE]
MCCerts == {Cert(n1), Cert(n2)}
=============================================================================
