--------------------------- MODULE MCAuthenticator ---------------------------
(* Authenticator for TLC: the ports of a host are interchangeable.         *)
EXTENDS Authenticator, TLC

Symmetry == Permutations(Ports)
==============================================================================
