----------------------------- MODULE MCVaultSync -----------------------------
(* Instances of VaultSync for TLC.                                         *)
EXTENDS VaultSync, TLC

CONSTANTS phone, laptop, milk, bread

TwoClients == {phone, laptop}
OnePhone == {phone}
NoDisplays == {}
LaptopAsDisplay == {laptop}
OneSave == {"save1"}
TwoSaves == {"save1", "save2"}
OneRow == {milk}
TwoRows == {milk, bread}

\* Two devices that edit and save; the same with rotations, with faults, with nothing.
Quiet == [rare |-> {}, left |-> 0, rows |-> 2, jobs |-> {"save1"}, pollers |-> TwoClients, rotates |-> FALSE]
Calm == {Quiet}
Rotating == {[Quiet EXCEPT !.rotates = TRUE]}
OneFault == {[Quiet EXCEPT !.rare = {"fault"}, !.left = 1, !.pollers = OnePhone]}

\* Overlapping saves of a device: pages hidden in mid-save and reloaded, rows
\* deleted; only the phone polls.  Or everything that may happen, one thing at a
\* time, to one save per device and one row, around a rotation; only the display polls.
Mishaps ==
    {[Quiet EXCEPT !.rare = {"hide", "reload", "delete"}, !.left = 1, !.jobs = TwoSaves, !.pollers = OnePhone],
     [Quiet EXCEPT !.rare = Uncommon, !.left = 1, !.rows = 1, !.pollers = LaptopAsDisplay, !.rotates = TRUE]}

\* Rows are alike, and so are devices unless only one of them polls.
RowSymmetry == Permutations(TwoRows)
Symmetry == Permutations(TwoRows) \cup Permutations(TwoClients)

=============================================================================
