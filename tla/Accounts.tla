------------------------------ MODULE Accounts ------------------------------
(***************************************************************************)
(* An account, its sessions, its password and its second factor:           *)
(*   server/src/routes/auth.js       register, login, logout, password,    *)
(*                                   sessions, session-policy, totp        *)
(*   server/src/middleware/auth.js   resolveSession                        *)
(* None of these handlers runs in a transaction: each reads the account in *)
(* one statement and writes it in another, with a password check and other *)
(* requests in between.  Passwords and secrets are numbered as they are    *)
(* chosen; what an authenticator holds is the last secret scanned.         *)
(***************************************************************************)
EXTENDS Naturals, FiniteSets

CONSTANTS
    Visits,         \* request slots
    SessionIds,
    MaxFailed,      \* MAX_FAILED_LOGINS; also the bound of the counter
    MaxPasswords,   \* bound: passwords and ...
    MaxSecrets      \* ... secrets that are ever chosen
ASSUME AccountsAssumption == MaxFailed \in Nat \ {0} /\ MaxPasswords \in Nat /\ MaxSecrets \in Nat

VARIABLES
    account,    \* the row of users
    sessions,   \* the rows of sessions
    visit,      \* the requests in progress
    chosen,     \* passwords and secrets handed out so far
    phone,      \* the secret the authenticator holds
    cut,        \* auxiliary: what was cut off by the last answered request to do so
    proven,     \* auxiliary: secrets a code has proven
    crossed     \* auxiliary: which requests have run into each other

accountVars == <<account, sessions, visit, chosen, phone, cut, proven, crossed>>
factorVars == <<phone, proven>>

NoVisit == [op |-> "none", at |-> "none", session |-> 0, password |-> 0,
            failed |-> 0, flag |-> FALSE, secret |-> 0, late |-> FALSE]
NoSession == [state |-> "none", persistent |-> FALSE, password |-> 0,
              clock |-> "fresh", late |-> FALSE]

Ops == {"none", "register", "login", "password", "policy", "start", "enable", "disable"}
FactorOps == {"start", "enable", "disable"}

AccountsTypeOK ==
    /\ account \in [exists : BOOLEAN, hash : 0..MaxPasswords, key : 0..MaxPasswords,
                    failed : 0..MaxFailed, locked : BOOLEAN, policy : BOOLEAN,
                    on : BOOLEAN, secret : 0..MaxSecrets]
    /\ sessions \in [SessionIds ->
                       [state : {"none", "live", "revoked", "deleted"}, persistent : BOOLEAN,
                        password : 0..MaxPasswords, late : BOOLEAN,
                        clock : {"fresh", "quiet", "idle", "expired"}]]
    /\ visit \in [Visits -> [op : Ops, at : {"none", "read", "wrong", "written"},
                             session : SessionIds \cup {0}, password : 0..MaxPasswords,
                             failed : 0..MaxFailed, flag : BOOLEAN,
                             secret : 0..MaxSecrets, late : BOOLEAN]]
    /\ chosen \in [password : 0..MaxPasswords, secret : 0..MaxSecrets]
    /\ phone \in 0..MaxSecrets
    /\ cut \in [others : SessionIds \cup {0}, remembered : BOOLEAN]
    /\ proven \subseteq 1..MaxSecrets
    /\ crossed \in [login : BOOLEAN, factor : BOOLEAN]

AccountsInit ==
    /\ account = [exists |-> FALSE, hash |-> 0, key |-> 0, failed |-> 0, locked |-> FALSE,
                  policy |-> FALSE, on |-> FALSE, secret |-> 0]
    /\ sessions = [s \in SessionIds |-> NoSession]
    /\ visit = [v \in Visits |-> NoVisit]
    /\ chosen = [password |-> 0, secret |-> 0]
    /\ phone = 0
    /\ cut = [others |-> 0, remembered |-> FALSE]
    /\ proven = {}
    /\ crossed = [login |-> FALSE, factor |-> FALSE]

Enter(v, new) == visit' = [visit EXCEPT ![v] = new]
Leave(v) == visit' = [visit EXCEPT ![v] = NoVisit]

-----------------------------------------------------------------------------
(* Sessions.                                                               *)

\* resolveSession lets a request in: not revoked, neither over nor idle.
Admits(s) == sessions[s].state = "live" /\ sessions[s].clock \in {"fresh", "quiet"}

\* Fresh for a minute, so that a poll need not write each time.
Touched(s) == [sessions EXCEPT ![s].clock = "fresh"]

TouchSession(s) ==
    /\ Admits(s) /\ sessions' = Touched(s)
    /\ UNCHANGED <<account, visit, chosen, factorVars, cut, crossed>>

\* An idle session is revoked by the request that presents it.
PresentIdleSession(s) ==
    /\ sessions[s].state = "live" /\ sessions[s].clock = "idle"
    /\ sessions' = [sessions EXCEPT ![s].state = "revoked"]
    /\ UNCHANGED <<account, visit, chosen, factorVars, cut, crossed>>

\* Logout, or DELETE /sessions/:id from another session.
RevokeSession(s, t) ==
    /\ Admits(s) /\ sessions[t].state = "live"
    /\ sessions' = [Touched(s) EXCEPT ![t].state = "revoked"]
    /\ UNCHANGED <<account, visit, chosen, factorVars, cut, crossed>>

SessionAges(s) ==
    /\ sessions[s].state = "live"
    /\ \E next \in (CASE sessions[s].clock = "fresh" -> {"quiet", "expired"}
                      [] sessions[s].clock = "quiet" -> {"idle", "expired"}
                      [] sessions[s].clock = "idle" -> {"expired"}
                      [] OTHER -> {}) :
          sessions' = [sessions EXCEPT ![s].clock = next]
    /\ UNCHANGED <<account, visit, chosen, factorVars, cut, crossed>>

\* Maintenance: a week after it ended the row goes.
ExpireSessions ==
    /\ \E s \in SessionIds : sessions[s].state = "revoked" \/ sessions[s].clock = "expired"
    /\ sessions' = [s \in SessionIds |->
                      IF sessions[s].state = "revoked" \/ sessions[s].clock = "expired"
                      THEN [NoSession EXCEPT !.state = "deleted"] ELSE sessions[s]]
    /\ UNCHANGED <<account, visit, chosen, factorVars, cut, crossed>>

\* createSession, the last statement of register and of login.
OpenSession(v) ==
    /\ visit[v].op \in {"register", "login"} /\ visit[v].at = "written"
    /\ \E s \in SessionIds :
          /\ sessions[s].state = "none"
          /\ sessions' = [sessions EXCEPT ![s] =
                            [NoSession EXCEPT !.state = "live", !.persistent = visit[v].flag,
                                              !.password = visit[v].password,
                                              !.late = visit[v].late]]
    /\ Leave(v)
    /\ UNCHANGED <<account, chosen, factorVars, cut, crossed>>

-----------------------------------------------------------------------------
(* Register and login.                                                     *)

\* SELECT finds nobody with that address ...
RegisterRead(v) ==
    /\ visit[v] = NoVisit /\ ~account.exists /\ chosen.password < MaxPasswords
    /\ chosen' = [chosen EXCEPT !.password = @ + 1]
    /\ Enter(v, [NoVisit EXCEPT !.op = "register", !.at = "read", !.password = chosen.password + 1])
    /\ UNCHANGED <<account, sessions, factorVars, cut, crossed>>

\* ... and the unique index has the last word.
RegisterInsert(v) ==
    /\ visit[v].op = "register" /\ visit[v].at = "read"
    /\ IF account.exists
       THEN Leave(v) /\ UNCHANGED account
       ELSE /\ account' = [account EXCEPT !.exists = TRUE, !.hash = visit[v].password,
                                          !.key = visit[v].password]
            /\ visit' = [visit EXCEPT ![v].at = "written"]
    /\ UNCHANGED <<sessions, chosen, factorVars, cut, crossed>>

CodeMatches == account.secret # 0 /\ phone = account.secret

\* The account as it is now, and the check of the password and of the code.
\* resolveSessionLifetime: a session is remembered if it was asked for and the
\* policy that has been read allows it.
LoginRead(v) ==
    /\ visit[v] = NoVisit /\ account.exists /\ ~account.locked
    /\ \E p \in 1..chosen.password, remember \in BOOLEAN :
          \/ /\ p = account.hash
             /\ account.on => CodeMatches
             /\ Enter(v, [NoVisit EXCEPT !.op = "login", !.at = "read", !.password = p,
                          !.flag = remember /\ account.policy])
          \/ /\ p # account.hash
             /\ Enter(v, [NoVisit EXCEPT !.op = "login", !.at = "wrong", !.failed = account.failed])
    /\ UNCHANGED <<account, sessions, chosen, factorVars, cut, crossed>>

\* The counter is the one that was read, plus one.
LoginWrong(v) ==
    /\ visit[v].op = "login" /\ visit[v].at = "wrong"
    /\ LET failed == IF visit[v].failed < MaxFailed THEN visit[v].failed + 1 ELSE MaxFailed IN
       account' = [account EXCEPT !.failed = failed,
                                  !.locked = @ \/ failed >= MaxFailed]
    /\ Leave(v)
    /\ UNCHANGED <<sessions, chosen, factorVars, cut, crossed>>

\* The row is written whole again, the hash that was read with it.
LoginRight(v) ==
    /\ visit[v].op = "login" /\ visit[v].at = "read"
    /\ account' = [account EXCEPT !.failed = 0, !.locked = FALSE, !.hash = visit[v].password]
    /\ cut' = IF visit[v].password = account.hash THEN cut ELSE [cut EXCEPT !.others = 0]
    /\ visit' = [visit EXCEPT ![v].at = "written"]
    /\ UNCHANGED <<sessions, chosen, factorVars, crossed>>

LockoutEnds ==
    /\ account.locked
    /\ account' = [account EXCEPT !.locked = FALSE]
    /\ UNCHANGED <<sessions, visit, chosen, factorVars, cut, crossed>>

-----------------------------------------------------------------------------
(* Password and policy.                                                    *)

PasswordRead(v) ==
    /\ visit[v] = NoVisit /\ chosen.password < MaxPasswords
    /\ \E s \in SessionIds, others \in BOOLEAN :
          /\ Admits(s) /\ sessions' = Touched(s)
          /\ Enter(v, [NoVisit EXCEPT !.op = "password", !.at = "read", !.session = s, !.flag = others,
                       !.password = chosen.password + 1])
    /\ chosen' = [chosen EXCEPT !.password = @ + 1]
    /\ UNCHANGED <<account, factorVars, cut, crossed>>

\* Mutant: the keys wrapped under the new password are stored by another request.
HashAlone(p) == [account EXCEPT !.hash = p]

NewPassword(p) == [account EXCEPT !.hash = p, !.key = p]

PasswordWrite(v) ==
    /\ visit[v].op = "password" /\ visit[v].at = "read"
    /\ account' = NewPassword(visit[v].password)
    /\ cut' = [cut EXCEPT !.others = 0]
    /\ crossed' = [crossed EXCEPT !.login =
                     @ \/ \E w \in Visits : visit[w].op = "login" /\ visit[w].at = "read"]
    /\ IF visit[v].flag THEN visit' = [visit EXCEPT ![v].at = "written"] ELSE Leave(v)
    /\ UNCHANGED <<sessions, chosen, factorVars>>

PolicyWrite(v) ==
    /\ visit[v] = NoVisit /\ account.exists
    /\ \E s \in SessionIds, policy \in BOOLEAN :
          /\ Admits(s) /\ sessions' = Touched(s)
          /\ account' = [account EXCEPT !.policy = policy]
          /\ IF policy THEN UNCHANGED visit
             ELSE Enter(v, [NoVisit EXCEPT !.op = "policy", !.at = "written", !.session = s])
    /\ cut' = [cut EXCEPT !.remembered = FALSE]
    /\ UNCHANGED <<chosen, factorVars, crossed>>

\* Mutant: the session that asks is the only one that is revoked.
OwnSession(v) == {visit[v].session}

\* The sessions that the second statement of PUT /session-policy, and of
\* POST /password, revokes.
CutOff(v) == IF visit[v].op = "policy" THEN {s \in SessionIds : sessions[s].persistent}
             ELSE SessionIds \ {visit[v].session}

RevokeOthers(v) ==
    /\ visit[v].op \in {"policy", "password"} /\ visit[v].at = "written"
    /\ sessions' = [s \in SessionIds |->
                      IF s \in CutOff(v) /\ sessions[s].state = "live"
                      THEN [sessions[s] EXCEPT !.state = "revoked"] ELSE sessions[s]]
    /\ cut' = IF visit[v].op = "policy" THEN [cut EXCEPT !.remembered = ~account.policy]
              ELSE [cut EXCEPT !.others = visit[v].session]
    /\ visit' = [[w \in Visits |->
                    IF visit[w].op \in {"register", "login"} THEN [visit[w] EXCEPT !.late = TRUE] ELSE visit[w]]
                 EXCEPT ![v] = NoVisit]
    /\ UNCHANGED <<account, chosen, factorVars, crossed>>

-----------------------------------------------------------------------------
(* The second factor.                                                      *)

Meets(v) == \E w \in Visits \ {v} : visit[w].op \in FactorOps

\* Mutant: two-factor may be started again while it is on.
StartAnyway == TRUE

MayStart == ~account.on

FactorRead(v) ==
    /\ visit[v] = NoVisit
    /\ \E s \in SessionIds :
          /\ Admits(s) /\ sessions' = Touched(s)
          /\ \/ MayStart /\ chosen.secret < MaxSecrets
                /\ Enter(v, [NoVisit EXCEPT !.op = "start", !.at = "read", !.session = s])
             \/ ~account.on /\ CodeMatches
                /\ Enter(v, [NoVisit EXCEPT !.op = "enable", !.at = "read", !.session = s,
                             !.secret = account.secret])
             \/ (account.on => CodeMatches)
                /\ Enter(v, [NoVisit EXCEPT !.op = "disable", !.at = "read", !.session = s])
    /\ crossed' = [crossed EXCEPT !.factor = @ \/ Meets(v)]
    /\ UNCHANGED <<account, chosen, factorVars, cut>>

\* A new secret takes the place of the old one, and is scanned or is not.
StartWrite(v) ==
    /\ visit[v].op = "start" /\ chosen.secret < MaxSecrets
    /\ chosen' = [chosen EXCEPT !.secret = @ + 1]
    /\ account' = [account EXCEPT !.secret = chosen.secret + 1]
    /\ phone' \in {phone, chosen.secret + 1}
    /\ Leave(v)
    /\ UNCHANGED <<sessions, cut, proven, crossed>>

EnableWrite(v) ==
    /\ visit[v].op = "enable"
    /\ account' = [account EXCEPT !.on = TRUE]
    /\ proven' = proven \cup {visit[v].secret}
    /\ Leave(v)
    /\ UNCHANGED <<sessions, chosen, phone, cut, crossed>>

DisableWrite(v) ==
    /\ visit[v].op = "disable"
    /\ account' = [account EXCEPT !.on = FALSE, !.secret = 0]
    /\ Leave(v)
    /\ UNCHANGED <<sessions, chosen, factorVars, cut, crossed>>

StopAuthServer ==
    /\ \E v \in Visits : visit[v] # NoVisit
    /\ visit' = [v \in Visits |-> NoVisit]
    /\ UNCHANGED <<account, sessions, chosen, factorVars, cut, crossed>>

-----------------------------------------------------------------------------

AccountsNext ==
    \/ \E s \in SessionIds :
          \/ TouchSession(s) \/ PresentIdleSession(s) \/ SessionAges(s)
          \/ \E t \in SessionIds : RevokeSession(s, t)
    \/ ExpireSessions \/ LockoutEnds \/ StopAuthServer
    \/ \E v \in Visits :
          \/ RegisterRead(v) \/ RegisterInsert(v) \/ OpenSession(v)
          \/ LoginRead(v) \/ LoginWrong(v) \/ LoginRight(v)
          \/ PasswordRead(v) \/ PasswordWrite(v) \/ PolicyWrite(v) \/ RevokeOthers(v)
          \/ FactorRead(v) \/ StartWrite(v) \/ EnableWrite(v) \/ DisableWrite(v)

-----------------------------------------------------------------------------

Live(s) == sessions[s].state = "live" /\ ~sessions[s].late

\* Once a change of password that revokes the other sessions is answered, and
\* until the next change, every live session but the one that changed it was
\* opened with the new password; once the policy is switched off no remembered
\* device is left (routes/auth.js:417-430, :556-571 "must actually cut the
\* remembered devices loose, not just stop new ones being made").  A login or a
\* registration on its way when the others were revoked is let in after them all
\* the same: sessions marked late are those.
CutSessionsStayOut ==
    /\ cut.others # 0 =>
          \A s \in SessionIds \ {cut.others} : Live(s) => sessions[s].password = account.hash
    /\ cut.remembered => \A s \in SessionIds : Live(s) => ~sessions[s].persistent

\* The password that logs in is the one that opens the keys: a browser derives
\* both from it (routes/auth.js:392-397).  Only a login that has read the account
\* when a change is written breaks the two apart, by writing back the hash it
\* read (:320-324).
KeyFollowsPassword == account.hash # account.key => crossed.login

\* "Held pending until a code proves the authenticator actually has it": a login
\* asks for a code of a secret only if one has been given (routes/auth.js:462-494),
\* unless requests that set the second factor up have run side by side.
SecondFactorIsProven ==
    account.on /\ ~crossed.factor => account.secret \in proven

=============================================================================
