---------------------------- MODULE MCVaultServer ----------------------------
(* An instance of VaultServer for TLC: a member's device and a wall display. *)
EXTENDS VaultServer

CONSTANTS phone, wall, docA, docB

MemberAndDisplay == {phone, wall}
Display == {wall}
Docs == {docA, docB}

=============================================================================
