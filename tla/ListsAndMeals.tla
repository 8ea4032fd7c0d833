---------------------------- MODULE ListsAndMeals ----------------------------
(***************************************************************************)
(* What a household writes on its lists, plans for its meals and brings    *)
(* over from its old HouseHub, together: parts of the document that        *)
(* nothing connects but what is promised of all of them.                   *)
(***************************************************************************)
EXTENDS Lists, Kitchen, Import, OldDatabase

WrittenInit == ListsInit /\ KitchenInit /\ ImportInit /\ DatabaseInit
WrittenNext ==
    \/ ListsNext /\ UNCHANGED <<kitchenVars, importVars, databaseVars>>
    \/ KitchenNext /\ UNCHANGED <<listVars, importVars, databaseVars>>
    \/ ImportNext /\ UNCHANGED <<listVars, kitchenVars, databaseVars>>
    \/ DatabaseNext /\ UNCHANGED <<listVars, kitchenVars, importVars>>
WrittenSpec == WrittenInit /\ [][WrittenNext]_<<listVars, kitchenVars, importVars, databaseVars>>

\* What somebody writes stands there: an entry that a display asks about before it is
\* written down (lists.js:33-35), a meal of a day that other dialogs write as a whole
\* (App.jsx:6691), what was here when the old household came in and what came with it
\* (legacy-import.js:333-505), and what the old server had committed when its files were
\* copied (sqlite.js:145-193).  Not so a meal that somebody else plans while a dialog is open
\* over its day, which that dialog writes without it (PlansStand), nor what an import takes
\* for something that is here already (EverythingArrives).
WhatIsWrittenStands == EntriesStand /\ PlansStand /\ ImportsStand /\ CopiesReadWhole

=============================================================================
