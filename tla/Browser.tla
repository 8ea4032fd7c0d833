------------------------------- MODULE Browser -------------------------------
(***************************************************************************)
(* The tabs of one browser: signing in, coming back without a password,    *)
(* and the households a tab opens (web/src/lib/session.js,                 *)
(* lib/remember.js, Shell.jsx).  Keys are in the memory of a tab; what the *)
(* tabs share is the cookie of a session and the one key record a browser  *)
(* may keep.                                                               *)
(*                                                                         *)
(* Every await of the code is a step of its own here.  session.signIn      *)
(* takes whether the device is to be remembered; the form of auth-         *)
(* ui.jsx:103 never passes its tick on, so both values stand for a caller  *)
(* of session.js.                                                          *)
(***************************************************************************)
EXTENDS Integers, FiniteSets, FiniteSetsExt

CONSTANTS Accounts, Tabs, Homes,
          MaxSession   \* bound: sessions ever opened
ASSUME BrowserAssumption == MaxSession \in Nat

VARIABLES account,    \* per account: none yet, known to the server, or erased
          lasting,    \* accounts whose policy allows remembered devices
          opened,     \* sessions of the server, by number
          jar,        \* the session of the cookie, 0 for none
          kept,       \* whose key the browser keeps
          tab,        \* the tabs
          home,       \* per household: its only member, and whose key its key is wrapped to
          disturbed   \* auxiliary: two sign-ins overlapped, or one was cut short
browserVars == <<account, lasting, opened, jar, kept, tab, home, disturbed>>

NoAccount == "nobody"
NoHome == 0
NoSession == [of |-> NoAccount, live |-> FALSE, lasting |-> FALSE]
Closed == [at |-> "closed", token |-> 0, user |-> NoAccount, keys |-> NoAccount, open |-> NoHome]
Locked == [Closed EXCEPT !.at = "signin"]
NotMade == [member |-> NoAccount, sealedTo |-> NoAccount]
AccountOrNone == Accounts \cup {NoAccount}

BrowserTypeOK ==
    /\ account \in [Accounts -> {"none", "known", "erased"}] /\ lasting \subseteq Accounts
    /\ opened \in [1..MaxSession -> [of : AccountOrNone, live : BOOLEAN, lasting : BOOLEAN]]
    /\ jar \in 0..MaxSession /\ kept \in AccountOrNone
    /\ tab \in [Tabs -> [at : {"closed", "recalled", "signin", "unlocking", "landing", "listing",
                               "create", "pick", "ready", "fatal"},
                         token : 0..MaxSession, user : AccountOrNone, keys : AccountOrNone,
                         open : Homes \cup {NoHome}]]
    /\ home \in [Homes -> [member : AccountOrNone, sealedTo : AccountOrNone]]
    /\ disturbed \in BOOLEAN

BrowserInit ==
    /\ \E a \in Accounts : /\ account = [b \in Accounts |-> IF b = a THEN "known" ELSE "none"]
                           /\ lasting = {a}
    /\ opened = [s \in 1..MaxSession |-> NoSession]
    /\ jar = 0 /\ kept = NoAccount /\ disturbed = FALSE
    /\ tab = [t \in Tabs |-> Closed]
    /\ home = [h \in Homes |-> NotMade]

-----------------------------------------------------------------------------
(* What a request is made as: the token of the tab, or else the cookie.    *)

SessionOf(t) == IF tab[t].token # 0 THEN tab[t].token ELSE jar
AccountOf(s) == IF s # 0 /\ opened[s].live THEN opened[s].of ELSE NoAccount
Asker(t) == AccountOf(SessionOf(t))

Unused == {s \in 1..MaxSession : opened[s].of = NoAccount}
AtWork == {t \in Tabs : tab[t].at = "unlocking"}

OpenSession(a, remembered) ==
    LET s == Min(Unused)
    IN  /\ Unused # {}
        /\ opened' = [opened EXCEPT ![s] = [of |-> a, live |-> TRUE, lasting |-> remembered]]
        /\ jar' = s

EndSessions(ended) == opened' = [s \in 1..MaxSession |-> IF s \in ended THEN [opened[s] EXCEPT !.live = FALSE] ELSE opened[s]]

MoveTo(t, at) == tab' = [tab EXCEPT ![t].at = at]

-----------------------------------------------------------------------------
(* Opening a tab, and coming back.                                         *)

\* recall: the record, if there is one.  Until it has asked, the tab only knows whose it is.
OpenTab(t) ==
    /\ tab[t] = Closed
    /\ tab' = [tab EXCEPT ![t] = IF kept = NoAccount THEN Locked ELSE [Closed EXCEPT !.at = "recalled", !.keys = kept]]
    /\ UNCHANGED <<account, lasting, opened, jar, kept, home, disturbed>>

\* GET api/auth/me with the cookie: anything but that very account, and the record goes.
ResumeRemembered(t) ==
    /\ tab[t].at = "recalled"
    /\ IF Asker(t) = tab[t].keys
       THEN /\ tab' = [tab EXCEPT ![t].at = "landing", ![t].user = tab[t].keys]
            /\ UNCHANGED kept
       ELSE tab' = [tab EXCEPT ![t] = Locked] /\ kept' = NoAccount
    /\ UNCHANGED <<account, lasting, opened, jar, home, disturbed>>

-----------------------------------------------------------------------------
(* Signing in.                                                             *)

\* Mutant: a session that was not granted leaves the record as it is.
KeepOld(t) == IF opened[tab[t].token].lasting THEN tab[t].user ELSE kept

\* The record after a sign-in: put there when the server granted it, else deleted.
RecordAfter(t) == IF opened[tab[t].token].lasting THEN tab[t].user ELSE NoAccount

Register(t, a) ==
    /\ tab[t].at = "signin" /\ account[a] = "none"
    /\ account' = [account EXCEPT ![a] = "known"]
    /\ OpenSession(a, FALSE)
    /\ tab' = [tab EXCEPT ![t] = [Closed EXCEPT !.at = "landing", !.token = jar', !.user = a, !.keys = a]]
    /\ disturbed' = (disturbed \/ AtWork # {})
    /\ UNCHANGED <<lasting, kept, home>>

\* The server answers; the keys are still to be derived.
SignIn(t, a, remember) ==
    /\ tab[t].at = "signin" /\ account[a] = "known"
    /\ OpenSession(a, remember /\ a \in lasting)
    /\ tab' = [tab EXCEPT ![t] = [Closed EXCEPT !.at = "unlocking", !.token = jar', !.user = a]]
    /\ disturbed' = (disturbed \/ AtWork # {})
    /\ UNCHANGED <<account, lasting, kept, home>>

FinishSignIn(t) ==
    /\ tab[t].at = "unlocking"
    /\ tab' = [tab EXCEPT ![t].at = "landing", ![t].keys = tab[t].user]
    /\ kept' = RecordAfter(t)
    /\ UNCHANGED <<account, lasting, opened, jar, home, disturbed>>

-----------------------------------------------------------------------------
(* afterAuth: who one is, the households there are, and the only one of them. *)

LoadMe(t) ==
    /\ tab[t].at = "landing"
    /\ tab' = [tab EXCEPT ![t].at = IF Asker(t) = NoAccount THEN "signin" ELSE "listing",
                          ![t].user = IF Asker(t) = NoAccount THEN @ ELSE Asker(t)]
    /\ UNCHANGED <<account, lasting, opened, jar, kept, home, disturbed>>

HomesOf(a) == {h \in Homes : home[h].member = a /\ a # NoAccount}
Opens(t, h) == home[h].sealedTo = tab[t].keys

\* One is opened at once, and a key that does not fit is the end of it.
ListHouseholds(t) ==
    /\ tab[t].at = "listing"
    /\ LET mine == HomesOf(Asker(t))
       IN  \/ Asker(t) = NoAccount /\ MoveTo(t, "signin")
           \/ Asker(t) # NoAccount /\ mine = {} /\ MoveTo(t, "create")
           \/ Cardinality(mine) > 1 /\ MoveTo(t, "pick")
           \/ /\ Cardinality(mine) = 1
              /\ \E h \in mine :
                   IF Opens(t, h) THEN tab' = [tab EXCEPT ![t].at = "ready", ![t].open = h]
                   ELSE MoveTo(t, "fatal")
    /\ UNCHANGED <<account, lasting, opened, jar, kept, home, disturbed>>

OpenHousehold(t, h) ==
    /\ tab[t].at = "pick" /\ h \in HomesOf(Asker(t)) /\ Opens(t, h)
    /\ tab' = [tab EXCEPT ![t].at = "ready", ![t].open = h]
    /\ UNCHANGED <<account, lasting, opened, jar, kept, home, disturbed>>

\* Sealed to the keys of the tab, filed for whoever the request is made as.
CreateHousehold(t, h) ==
    /\ tab[t].at \in {"create", "pick"} /\ tab[t].keys # NoAccount /\ home[h] = NotMade
    /\ Asker(t) # NoAccount
    /\ home' = [home EXCEPT ![h] = [member |-> Asker(t), sealedTo |-> tab[t].keys]]
    /\ tab' = [tab EXCEPT ![t].at = "ready", ![t].open = h]
    /\ UNCHANGED <<account, lasting, opened, jar, kept, disturbed>>

SwitchHousehold(t) ==
    /\ tab[t].at = "ready"
    /\ tab' = [tab EXCEPT ![t].at = "pick", ![t].open = NoHome]
    /\ UNCHANGED <<account, lasting, opened, jar, kept, home, disturbed>>

DeleteHousehold(t, h) ==
    /\ tab[t].at = "pick" /\ h \in HomesOf(Asker(t))
    /\ home' = [home EXCEPT ![h] = NotMade]
    /\ UNCHANGED <<account, lasting, opened, jar, kept, tab, disturbed>>

-----------------------------------------------------------------------------
(* Leaving.                                                                *)

SignedIn(t) == tab[t].at \in {"create", "pick", "ready"}

\* The server is told, whether it hears it or not; the record and the memory go.
SignOut(t) ==
    /\ SignedIn(t)
    /\ \/ EndSessions({SessionOf(t)}) /\ jar' = 0
       \/ UNCHANGED <<opened, jar>>
    /\ kept' = NoAccount
    /\ tab' = [tab EXCEPT ![t] = Locked]
    /\ UNCHANGED <<account, lasting, home, disturbed>>

\* Switching the policy off ends every remembered session of the account, this tab's too.
SetSessionPolicy(t, allowed) ==
    /\ tab[t].at = "ready" /\ Asker(t) # NoAccount
    /\ LET a == Asker(t)
       IN  /\ lasting' = IF allowed THEN lasting \cup {a} ELSE lasting \ {a}
           /\ EndSessions({s \in 1..MaxSession : ~allowed /\ opened[s].of = a /\ opened[s].lasting})
    /\ kept' = IF allowed THEN kept ELSE NoAccount
    /\ UNCHANGED <<account, jar, tab, home, disturbed>>

\* The memory is wiped; the record of the browser is left.
EraseAccount(t) ==
    /\ tab[t].at = "ready" /\ Asker(t) # NoAccount
    /\ LET a == Asker(t)
       IN  /\ account' = [account EXCEPT ![a] = "erased"]
           /\ EndSessions({s \in 1..MaxSession : opened[s].of = a})
           /\ home' = [h \in Homes |-> IF home[h].member = a THEN NotMade ELSE home[h]]
           /\ lasting' = lasting \ {a}
    /\ tab' = [tab EXCEPT ![t] = Locked]
    /\ UNCHANGED <<jar, kept, disturbed>>

CloseTab(t) ==
    /\ tab[t] # Closed /\ tab' = [tab EXCEPT ![t] = Closed]
    /\ disturbed' = (disturbed \/ t \in AtWork)
    /\ UNCHANGED <<account, lasting, opened, jar, kept, home>>

\* The policy is switched off from another machine.
CutElsewhere(a) ==
    /\ a \in lasting /\ lasting' = lasting \ {a}
    /\ EndSessions({s \in 1..MaxSession : opened[s].of = a /\ opened[s].lasting})
    /\ UNCHANGED <<account, jar, kept, tab, home, disturbed>>

SessionExpires(s) ==
    /\ opened[s].live /\ EndSessions({s})
    /\ UNCHANGED <<account, lasting, jar, kept, tab, home, disturbed>>

BrowserNext ==
    \/ \E t \in Tabs :
          \/ OpenTab(t) \/ ResumeRemembered(t) \/ FinishSignIn(t) \/ LoadMe(t) \/ ListHouseholds(t)
          \/ SwitchHousehold(t) \/ SignOut(t) \/ EraseAccount(t) \/ CloseTab(t)
          \/ \E a \in Accounts : Register(t, a) \/ \E remember \in BOOLEAN : SignIn(t, a, remember)
          \/ \E h \in Homes : OpenHousehold(t, h) \/ CreateHousehold(t, h) \/ DeleteHousehold(t, h)
          \/ \E allowed \in BOOLEAN : SetSessionPolicy(t, allowed)
    \/ \E a \in Accounts : CutElsewhere(a)
    \/ \E s \in 1..MaxSession : SessionExpires(s)

\* The two halves of a remembered device belong together: a browser whose cookie and whose
\* key record are one account's has them from a sign-in that was granted, so that switching
\* the policy off anywhere ends it (session.js:124-138 and 166-168).  Only two sign-ins at a
\* time, or one cut short, can leave a record to a session that was granted nothing.
KeptByGrant ==
    AtWork = {} /\ ~disturbed /\ kept # NoAccount /\ AccountOf(jar) = kept => opened[jar].lasting

=============================================================================
