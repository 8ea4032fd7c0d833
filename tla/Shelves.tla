------------------------------- MODULE Shelves -------------------------------
(***************************************************************************)
(* What a household sorts into places that come and go: groceries by store *)
(* (GroceryView of App.jsx), date ideas by jar (DateJarPane), and what the *)
(* second row of Today shows (components/SecondBlock.jsx).  The tabs and   *)
(* the row keep what was last chosen on them, whatever becomes of the      *)
(* place.  A thing is the number of the time it was written down, a jar    *)
(* that of the time it was added, which is their order, a time of drawing  *)
(* that of the draw.                                                       *)
(***************************************************************************)
EXTENDS Integers, FiniteSets

CONSTANTS Stores, FirstStores, StoreName(_), \* spellings, those to begin with, and which are the same
          Titles, Shoppers, MaxGroceries,   \* what is bought, the screens it is written on
          FirstJars, MaxJars, MaxIdeas, MaxDraws,
          Panes, Blocks,                    \* the jar tabs that are open, and the rows that show jars
          Filters                           \* whom Today is filtered to, besides everyone
ASSUME ShelvesAssumption ==
    /\ FirstStores \subseteq Stores /\ FirstJars \in Nat \ {0} /\ MaxJars \in Nat /\ MaxIdeas \in Nat
    /\ MaxDraws \in Nat /\ MaxGroceries \in Nat

AnyStore == "any"
NotBought == "never"
Everyone == "all"

VARIABLES stores, grocery,   \* the stores, the items
          purchases,         \* where each title was last bought (groceryHistory)
          writtenOn,         \* how many items were written
          formStore,         \* the store chosen on each screen's form
          jars, jarsMade, ideas, ideasMade, draws,
          pane, block,       \* what the jar tabs and the rows have chosen, drawn and been offered
          rows, loaded,      \* what the second row shows, and whose choices the settings offer
          astray             \* what was written to a place that was not there, as long as it
                             \* is where it was written and the place is not there (auxiliary)
shelfVars == <<stores, grocery, purchases, writtenOn, formStore, jars, jarsMade, ideas, ideasMade, draws, pane, block, rows, loaded, astray>>
groceryVars == <<stores, grocery, purchases, writtenOn, formStore>>
jarVars == <<jars, jarsMade, ideas, ideasMade, draws, pane, block>>
rowVars == <<rows, loaded>>

BlockKinds == {"none", "grocery", "dateJar", "camera", "devices"}
Pickable == {"camera", "devices"}
NotChosen == [kind |-> "unset", picks |-> {}]
Untouched == [jar |-> 1, drawn |-> 0, offered |-> FALSE]

ShelvesTypeOK ==
    /\ stores \subseteq Stores
    /\ \A g \in grocery : g \in [id : 1..MaxGroceries, title : Titles, store : Stores \cup {AnyStore}, done : BOOLEAN]
    /\ purchases \in [Titles -> Stores \cup {AnyStore, NotBought}]
    /\ formStore \in [Shoppers -> Stores \cup {AnyStore}]
    /\ jars \subseteq 1..jarsMade
    /\ \A x \in ideas : x.id \in 1..MaxIdeas /\ x.jar \in 1..jarsMade /\ x.drawn \in 0..draws
    /\ pane \in [Panes -> [jar : 1..jarsMade, drawn : 0..MaxIdeas, offered : BOOLEAN]]
    /\ block \in [Blocks -> [jar : 1..jarsMade, drawn : 0..MaxIdeas, offered : BOOLEAN]]
    /\ rows \in [Filters \cup {Everyone} -> [kind : BlockKinds \cup {"unset"}, picks : SUBSET Pickable]]
    /\ loaded \in [Filters \cup {Everyone} -> Pickable \cup {"nothing"}]

ShelvesInit ==
    /\ stores = FirstStores /\ grocery = {} /\ writtenOn = 0
    /\ purchases = [t \in Titles |-> NotBought] /\ formStore = [s \in Shoppers |-> AnyStore]
    /\ jars = 1..FirstJars /\ jarsMade = FirstJars /\ ideas = {} /\ ideasMade = 0 /\ draws = 0
    /\ pane = [p \in Panes |-> Untouched] /\ block = [b \in Blocks |-> Untouched]
    /\ rows = [f \in Filters \cup {Everyone} |-> NotChosen] /\ loaded = [f \in Filters \cup {Everyone} |-> "nothing"]
    /\ astray = {}

-----------------------------------------------------------------------------
(* Groceries.                                                              *)

WithGrocery(id, Op(_)) == {IF g.id = id THEN Op(g) ELSE g : g \in grocery}

\* A group for each store and one for any: what is in no group is not shown.
Groups(g) == {k \in stores \cup {AnyStore} : g.store = k}

WritesGrocery(title, store) ==
    /\ writtenOn < MaxGroceries /\ writtenOn' = writtenOn + 1
    /\ grocery' = grocery \cup {[id |-> writtenOn', title |-> title, store |-> store, done |-> FALSE]}
    /\ astray' = IF store \in stores \cup {AnyStore} THEN astray ELSE astray \cup {<<"grocery", writtenOn'>>}
    /\ UNCHANGED <<stores, purchases, formStore>>

AddGrocery(s, title) == WritesGrocery(title, formStore[s])

\* "Bought before -- tap to add": where it was bought then.
AddAgain(title) ==
    /\ purchases[title] # NotBought
    /\ ~\E g \in grocery : ~g.done /\ g.title = title
    /\ WritesGrocery(title, purchases[title])

\* The first store of: the item's, the one before, any.
ToggleGrocery(g) ==
    /\ grocery' = WithGrocery(g.id, LAMBDA old : [old EXCEPT !.done = ~@])
    /\ purchases' = IF g.done THEN purchases
                    ELSE [purchases EXCEPT ![g.title] =
                             IF g.store # AnyStore THEN g.store ELSE IF @ = NotBought THEN AnyStore ELSE @]
    /\ UNCHANGED <<stores, writtenOn, formStore, astray>>

\* The second row ticks without a word in the history.
TickOnToday(g) ==
    /\ ~g.done /\ grocery' = WithGrocery(g.id, LAMBDA old : [old EXCEPT !.done = TRUE])
    /\ UNCHANGED <<stores, purchases, writtenOn, formStore, astray>>

RemoveGrocery(g) == grocery' = grocery \ {g} /\ UNCHANGED <<stores, purchases, writtenOn, formStore, astray>>

ClearBought ==
    /\ \E g \in grocery : g.done
    /\ grocery' = {g \in grocery : ~g.done} /\ UNCHANGED <<stores, purchases, writtenOn, formStore, astray>>

SetStore(g, store) ==
    /\ ~g.done /\ store \in stores \cup {AnyStore}
    /\ grocery' = WithGrocery(g.id, LAMBDA old : [old EXCEPT !.store = store])
    /\ astray' = astray \ {<<"grocery", g.id>>}
    /\ UNCHANGED <<stores, purchases, writtenOn, formStore>>

ChooseStore(s, store) ==
    /\ store \in stores \cup {AnyStore} /\ formStore' = [formStore EXCEPT ![s] = store]
    /\ UNCHANGED <<stores, grocery, purchases, writtenOn, astray>>

\* One that is spelled otherwise is not added, but it is what the form has chosen then.
AddStore(s, store) ==
    /\ stores' = IF \E other \in stores : StoreName(other) = StoreName(store) THEN stores ELSE stores \cup {store}
    /\ formStore' = [formStore EXCEPT ![s] = store]
    /\ astray' = astray \ {<<"grocery", id>> : id \in {id \in 1..MaxGroceries : \A g \in grocery : g.id = id => g.store \in stores'}}
    /\ UNCHANGED <<grocery, purchases, writtenOn>>

\* Mutant: only what is still to be bought is cleared.
KeepsBought(items, store) == {IF g.store = store /\ ~g.done THEN [g EXCEPT !.store = AnyStore] ELSE g : g \in items}
WithoutStore(items, store) == {IF g.store = store THEN [g EXCEPT !.store = AnyStore] ELSE g : g \in items}

RemoveStore(store) ==
    /\ store \in stores /\ stores' = stores \ {store}
    /\ grocery' = WithoutStore(grocery, store)
    /\ UNCHANGED <<purchases, writtenOn, formStore, astray>>

LeaveGroceries(s) ==
    /\ formStore' = [formStore EXCEPT ![s] = AnyStore]
    /\ UNCHANGED <<stores, grocery, purchases, writtenOn, astray>>

GroceriesNext ==
    \/ ClearBought
    \/ \E s \in Shoppers :
          \/ LeaveGroceries(s)
          \/ \E t \in Titles : AddGrocery(s, t)
          \/ \E n \in Stores : AddStore(s, n)
          \/ \E n \in Stores \cup {AnyStore} : ChooseStore(s, n)
    \/ \E t \in Titles : AddAgain(t)
    \/ \E n \in Stores : RemoveStore(n)
    \/ \E g \in grocery : ToggleGrocery(g) \/ TickOnToday(g) \/ RemoveGrocery(g) \/ \E n \in Stores \cup {AnyStore} : SetStore(g, n)

-----------------------------------------------------------------------------
(* Date jars.                                                              *)

InJar(j) == {x \in ideas : x.jar = j /\ ~x.retired}
WithIdea(id, Op(_)) == {IF x.id = id THEN Op(x) ELSE x : x \in ideas}

FirstJar(js) == CHOOSE j \in js : \A k \in js : j <= k

\* The jar a tab shows: the one it has chosen, or else the first.
JarOf(p) == IF pane[p].jar \in jars THEN pane[p].jar ELSE FirstJar(jars)

PutsIdea(j) ==
    /\ ideasMade < MaxIdeas /\ ideasMade' = ideasMade + 1
    /\ ideas' = ideas \cup {[id |-> ideasMade', jar |-> j, retired |-> FALSE, drawn |-> 0]}
    /\ astray' = IF j \in jars THEN astray ELSE astray \cup {<<"idea", ideasMade'>>}

AddIdea(p) == PutsIdea(JarOf(p)) /\ UNCHANGED <<jars, jarsMade, draws, pane, block>>

\* What the assistant offers is shown first, and goes to the jar that is chosen when it is kept.
AskAi(p) ==
    /\ pane' = [pane EXCEPT ![p].offered = TRUE] /\ UNCHANGED <<jars, jarsMade, ideas, ideasMade, draws, block, astray>>
KeepIdea(p) ==
    /\ pane[p].offered /\ PutsIdea(JarOf(p))
    /\ pane' = [pane EXCEPT ![p].offered = FALSE] /\ UNCHANGED <<jars, jarsMade, draws, block>>

\* Never drawn first; else the older half of all but the last.
\* Mutant: nothing is left out.
WholePool(pool) == pool
PickDateIdea(pool) ==
    LET never == {x \in pool : x.drawn = 0}
        last == {x \in pool : \A y \in pool : y.drawn <= x.drawn}
        candidates == IF Cardinality(pool) > 1 THEN pool \ last ELSE pool
    IN  IF never # {} THEN never
        ELSE {x \in candidates : 2 * Cardinality({y \in candidates : y.drawn < x.drawn}) < Cardinality(candidates)}

Draws(x) == draws < MaxDraws /\ draws' = draws + 1 /\ ideas' = WithIdea(x.id, LAMBDA old : [old EXCEPT !.drawn = draws'])

Draw(p) ==
    /\ \E x \in PickDateIdea(InJar(JarOf(p))) : Draws(x) /\ pane' = [pane EXCEPT ![p].drawn = x.id]
    /\ UNCHANGED <<jars, jarsMade, ideasMade, block, astray>>

MarkDone(p, retire) ==
    /\ pane[p].drawn # 0
    /\ ideas' = WithIdea(pane[p].drawn, LAMBDA old : [old EXCEPT !.retired = retire \/ @])
    /\ pane' = [pane EXCEPT ![p].drawn = 0]
    /\ UNCHANGED <<jars, jarsMade, ideasMade, draws, block, astray>>

RemoveIdea(p, x) ==
    /\ x \in InJar(JarOf(p)) \/ x.retired
    /\ ideas' = ideas \ {x} /\ UNCHANGED <<jars, jarsMade, ideasMade, draws, pane, block, astray>>

SetIdeaJar(p, x, j) ==
    /\ x \in InJar(JarOf(p)) /\ j \in jars
    /\ ideas' = WithIdea(x.id, LAMBDA old : [old EXCEPT !.jar = j])
    /\ UNCHANGED <<jars, jarsMade, ideasMade, draws, pane, block, astray>>

Unretire(x) ==
    /\ x.retired /\ ideas' = WithIdea(x.id, LAMBDA old : [old EXCEPT !.retired = FALSE])
    /\ UNCHANGED <<jars, jarsMade, ideasMade, draws, pane, block, astray>>

ChooseJar(p, j) ==
    /\ j \in jars /\ pane' = [pane EXCEPT ![p].jar = j, ![p].drawn = 0]
    /\ UNCHANGED <<jars, jarsMade, ideas, ideasMade, draws, block, astray>>

AddJar ==
    /\ jarsMade < MaxJars /\ jarsMade' = jarsMade + 1 /\ jars' = jars \cup {jarsMade'}
    /\ UNCHANGED <<ideas, ideasMade, draws, pane, block, astray>>

\* Mutant: what is retired stays where it was.
MovesOffered(all, j, to) == {IF x.jar = j /\ ~x.retired THEN [x EXCEPT !.jar = to] ELSE x : x \in all}
MovedOver(all, j, to) == {IF x.jar = j THEN [x EXCEPT !.jar = to] ELSE x : x \in all}

\* Its ideas go to the first that is left; the last jar stays.
RemoveJar(p, j) ==
    LET left == jars \ {j}
    IN  /\ j \in jars /\ left # {}
        /\ jars' = left /\ ideas' = MovedOver(ideas, j, FirstJar(left))
        /\ pane' = IF pane[p].jar = j THEN [pane EXCEPT ![p].jar = FirstJar(left)] ELSE pane
        /\ UNCHANGED <<jarsMade, ideasMade, draws, block, astray>>

-----------------------------------------------------------------------------
(* The jars on Today.                                                      *)

ShowBlock(b) ==
    /\ block' = [block EXCEPT ![b] = [jar |-> FirstJar(jars), drawn |-> 0, offered |-> FALSE]]
    /\ UNCHANGED <<jars, jarsMade, ideas, ideasMade, draws, pane, astray>>

ChooseBlockJar(b, j) ==
    /\ j \in jars /\ block' = [block EXCEPT ![b].jar = j]
    /\ UNCHANGED <<jars, jarsMade, ideas, ideasMade, draws, pane, astray>>

\* The one drawn longest ago, but for the one that is shown; of several that were never drawn,
\* the first that was written.
DrawOnToday(b) ==
    LET here == InJar(block[b].jar)
        others == {x \in here : x.id # block[b].drawn}
        pool == IF others = {} THEN here ELSE others
    IN  /\ \E x \in pool :
              /\ \A y \in pool \ {x} : x.drawn < y.drawn \/ (x.drawn = y.drawn /\ x.id < y.id)
              /\ Draws(x) /\ block' = [block EXCEPT ![b].drawn = x.id, ![b].offered = FALSE]
        /\ UNCHANGED <<jars, jarsMade, ideasMade, pane, astray>>

SuggestOnToday(b) ==
    /\ block' = [block EXCEPT ![b].drawn = 0, ![b].offered = TRUE]
    /\ UNCHANGED <<jars, jarsMade, ideas, ideasMade, draws, pane, astray>>

KeepOnToday(b) ==
    /\ block[b].offered /\ PutsIdea(block[b].jar)
    /\ block' = [block EXCEPT ![b].offered = FALSE]
    /\ UNCHANGED <<jars, jarsMade, draws, pane>>

JarsNext ==
    \/ AddJar
    \/ \E x \in ideas : Unretire(x)
    \/ \E p \in Panes :
          \/ AddIdea(p) \/ AskAi(p) \/ KeepIdea(p) \/ Draw(p)
          \/ \E retire \in BOOLEAN : MarkDone(p, retire)
          \/ \E j \in 1..jarsMade : ChooseJar(p, j) \/ RemoveJar(p, j) \/ \E x \in ideas : SetIdeaJar(p, x, j)
          \/ \E x \in ideas : RemoveIdea(p, x)
    \/ \E b \in Blocks :
          \/ ShowBlock(b) \/ DrawOnToday(b) \/ SuggestOnToday(b) \/ KeepOnToday(b)
          \/ \E j \in 1..jarsMade : ChooseBlockJar(b, j)

-----------------------------------------------------------------------------
(* What the second row shows: a kind, and of the cameras and the devices those *)
(* that were picked, one of each here.                                     *)

\* A filter with nothing of its own shows what everyone does.
SecondBlockFor(all, f) ==
    IF all[f] # NotChosen THEN all[f]
    ELSE IF all[Everyone] # NotChosen THEN all[Everyone] ELSE [kind |-> "none", picks |-> {}]

\* The settings keep the choices they loaded for another kind until the new ones are there.
StillLoaded == loaded' = [f \in DOMAIN rows |-> IF SecondBlockFor(rows', f).kind \in Pickable THEN loaded[f] ELSE "nothing"]

\* Mutant: what was picked stays when the kind changes.
KeepsPicks(f, kind) == [kind |-> kind, picks |-> SecondBlockFor(rows, f).picks]
WithKind(f, kind) ==
    LET prev == SecondBlockFor(rows, f) IN [kind |-> kind, picks |-> IF prev.kind = kind THEN prev.picks ELSE {}]

\* What a row takes over of the one that everyone sees is as much astray in it.
TakenOver(f) ==
    LET row == IF rows[f] # NotChosen THEN f ELSE Everyone IN {t \in Pickable : <<"pick", <<row, t>>>> \in astray}
PicksAstray(f, things) ==
    (astray \ {<<"pick", <<f, t>>>> : t \in Pickable}) \cup {<<"pick", <<f, t>>>> : t \in things}

SetKind(f, kind) ==
    /\ rows' = [rows EXCEPT ![f] = WithKind(f, kind)] /\ StillLoaded
    /\ astray' = PicksAstray(f, IF kind = SecondBlockFor(rows, f).kind THEN TakenOver(f) ELSE {})

LoadChoices(f) ==
    /\ SecondBlockFor(rows, f).kind \in Pickable
    /\ loaded' = [loaded EXCEPT ![f] = SecondBlockFor(rows, f).kind] /\ UNCHANGED <<rows, astray>>

TogglePick(f) ==
    LET prev == SecondBlockFor(rows, f)
        thing == loaded[f]
    IN  /\ thing # "nothing" /\ prev.kind \in Pickable
        /\ rows' = [rows EXCEPT ![f] = [prev EXCEPT !.picks = IF thing \in @ THEN @ \ {thing} ELSE @ \cup {thing}]]
        /\ StillLoaded
        /\ astray' = PicksAstray(f, TakenOver(f) \cup ({thing} \ {prev.kind}))

RowsNext ==
    \E f \in Filters \cup {Everyone} : LoadChoices(f) \/ TogglePick(f) \/ \E kind \in BlockKinds : SetKind(f, kind)

-----------------------------------------------------------------------------

\* Every item to be bought is in one group of the list by stores, every idea that is offered
\* in one jar, and every pick belongs to the kind of its row, however stores, jars and kinds
\* come and go (App.jsx:3530, 4563-4572 and SecondBlock.jsx:343-353) -- but for what was
\* written to a place that was not there then, until it is moved or the place is there: a
\* form still had a store chosen that was removed, or one that is there in another spelling
\* (3525-3528), "Bought before" has where it was bought (3734-3738), the second row still had
\* a jar chosen that was removed, or a choice of the kind before was tapped.
InSight ==
    /\ \A g \in grocery : ~g.done /\ <<"grocery", g.id>> \notin astray => Cardinality(Groups(g)) = 1
    /\ \A x \in ideas : ~x.retired /\ <<"idea", x.id>> \notin astray => Cardinality({j \in jars : x \in InJar(j)}) = 1
    /\ \A f \in DOMAIN rows : \A thing \in rows[f].picks : <<"pick", <<f, thing>>>> \notin astray => rows[f].kind = thing

\* What a tab draws was not the last its jar gave unless it is alone there.  What the row
\* draws is only not what it shows: it may be the last the jar gave (App.jsx:3793-3794,
\* SecondBlock.jsx:73).
GoesRound ==
    \A x \in ideas, y \in ideas' : x.id = y.id /\ x.drawn # y.drawn =>
       \/ x.drawn = 0 \/ InJar(x.jar) = {x}
       \/ \E other \in InJar(x.jar) : other.drawn > x.drawn
       \/ \E b \in Blocks : block'[b].drawn = x.id /\ block[b].drawn # x.id

\* No step leaves anything out of sight, and a jar goes round.
NothingOutOfSight == [][InSight' /\ GoesRound]_shelfVars

=============================================================================
