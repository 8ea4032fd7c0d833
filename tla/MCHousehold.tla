----------------------------- MODULE MCHousehold -----------------------------
(* Instances of Household for TLC.                                         *)
EXTENDS Household, TLC

CONSTANTS ann, bob, cat, wall, link, r1, r2

Couple == {ann, bob}
CoupleAndGuest == {ann, bob, cat}
NoDisplays == {}
Wall == {wall}
NoInvites == {}
OneInvite == {link}
TwoRequests == {r1, r2}

Joining == {"invite", "grant", "remove", "rotate"}
Governing == {"grant", "managed", "role", "remove", "leave"}
Showing == {"propose", "approve", "deny", "activate", "extend", "revoke", "load"}
Rotating == {"propose", "approve", "activate", "extend", "revoke", "rotate", "leave"}
AllTopics == {Joining, Governing, Showing, Rotating}

\* The founding admins are alike, and so are the request slots.
Symmetry == Permutations(Couple) \cup Permutations(TwoRequests)

=============================================================================
