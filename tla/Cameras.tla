------------------------------- MODULE Cameras --------------------------------
(***************************************************************************)
(* A household's own camera system, reached through the server             *)
(* (services/camwatch.js, routes/cameras.js): one row with its address,    *)
(* its password and what may be shown, and one cached session.             *)
(*                                                                         *)
(* Each system accepts one password, and the session it opened last.       *)
(* Requests wait for a system while the others run.  A request for a live  *)
(* picture stands for the other proxied reads.                             *)
(***************************************************************************)
EXTENDS Integers

CONSTANTS CamSystems,     \* the addresses there are
          CamPasswords,   \* the passwords there are
          CamRequests,    \* requests at a time
          MaxCookie       \* bound: sessions a system opens
ASSUME CamerasAssumption == MaxCookie \in Nat /\ CamSystems # {} /\ CamPasswords # {}

VARIABLES cam,         \* household_cameras
          camSession,  \* sessions: the cookie kept for the household
          camSystem,   \* per system: the password it accepts, its open session, whether it is up
          camRequest,  \* the requests in progress
          answered     \* auxiliary: the log-ins a system has accepted
camVars == <<cam, camSession, camSystem, camRequest, answered>>

NoPassword == "none"
NoCookie == [of |-> "nobody", serial |-> 0]
NotConnected == [there |-> FALSE, url |-> "nowhere", password |-> NoPassword, shown |-> "all",
                 faces |-> FALSE, failed |-> FALSE]
NoRequest == [op |-> "none", at |-> "done", url |-> "nowhere", password |-> NoPassword,
              cookie |-> NoCookie, again |-> FALSE]

Cookies == {NoCookie} \cup [of : CamSystems, serial : 1..MaxCookie]

CamerasTypeOK ==
    /\ cam \in [there : BOOLEAN, url : CamSystems \cup {"nowhere"}, password : CamPasswords \cup {NoPassword},
                shown : {"all", "some"}, faces : BOOLEAN, failed : BOOLEAN]
    /\ camSession \in Cookies
    /\ camSystem \in [CamSystems -> [password : CamPasswords, serial : 0..MaxCookie, up : BOOLEAN]]
    /\ camRequest \in [CamRequests -> [op : {"none", "watch", "connect"},
                                       at : {"done", "allowed", "configured", "asking", "loggedIn"},
                                       url : CamSystems \cup {"nowhere"},
                                       password : CamPasswords \cup {NoPassword},
                                       cookie : Cookies, again : BOOLEAN]]
    /\ answered \subseteq (CamSystems \X CamPasswords)

CamerasInit ==
    /\ cam = NotConnected /\ camSession = NoCookie /\ answered = {}
    /\ camSystem \in [CamSystems -> [password : CamPasswords, serial : {0}, up : {TRUE}]]
    /\ camRequest = [r \in CamRequests |-> NoRequest]

-----------------------------------------------------------------------------
(* Logging in to a system.                                                 *)

Accepts(url, password) == camSystem[url].up /\ camSystem[url].password = password /\ camSystem[url].serial < MaxCookie
Fresh(url) == [of |-> url, serial |-> camSystem[url].serial + 1]

LogIn(url, password) ==
    /\ Accepts(url, password)
    /\ camSystem' = [camSystem EXCEPT ![url].serial = @ + 1]
    /\ answered' = answered \cup {<<url, password>>}

Finish(r) == camRequest' = [camRequest EXCEPT ![r] = NoRequest]

-----------------------------------------------------------------------------
(* Connecting.                                                             *)

\* The address is checked, the row is read; a password left out is the one it holds.
ReadConnection(r, url, typed) ==
    /\ camRequest[r] = NoRequest
    /\ LET password == IF typed = NoPassword THEN cam.password ELSE typed
       IN  /\ password # NoPassword
           /\ camRequest' = [camRequest EXCEPT ![r] =
                  [NoRequest EXCEPT !.op = "connect", !.at = "configured", !.url = url, !.password = password]]
    /\ UNCHANGED <<cam, camSession, camSystem, answered>>

\* Proven before it is stored.
ProveConnection(r) ==
    /\ camRequest[r].op = "connect" /\ camRequest[r].at = "configured"
    /\ LogIn(camRequest[r].url, camRequest[r].password)
    /\ camRequest' = [camRequest EXCEPT ![r].at = "loggedIn"]
    /\ UNCHANGED <<cam, camSession>>

\* A mutant of the next: the row keeps a password it has.
KeptPassword(r) == IF cam.password # NoPassword THEN cam.password ELSE camRequest[r].password

StoredPassword(r) == camRequest[r].password

\* The row is written whole; cameras left out stay, faces left out are off.
SaveConnection(r, shown, faces) ==
    /\ camRequest[r].op = "connect" /\ camRequest[r].at = "loggedIn"
    /\ cam' = [there |-> TRUE, url |-> camRequest[r].url, password |-> StoredPassword(r),
               shown |-> shown, faces |-> faces, failed |-> FALSE]
    /\ camSession' = NoCookie
    /\ Finish(r)
    /\ UNCHANGED <<camSystem, answered>>

RemoveConnection ==
    /\ cam.there /\ cam' = NotConnected /\ camSession' = NoCookie
    /\ UNCHANGED <<camSystem, camRequest, answered>>

-----------------------------------------------------------------------------
(* Watching.                                                               *)

\* isAllowedCamera reads the row once ...
AskPicture(r, camera) ==
    /\ camRequest[r] = NoRequest
    /\ cam.there /\ (cam.shown = "all" \/ camera = "chosen")
    /\ camRequest' = [camRequest EXCEPT ![r] = [NoRequest EXCEPT !.op = "watch", !.at = "allowed"]]
    /\ UNCHANGED <<cam, camSession, camSystem, answered>>

\* ... and call reads it again.
ReadForCall(r) ==
    /\ camRequest[r].op = "watch" /\ camRequest[r].at = "allowed"
    /\ IF cam.there
       THEN camRequest' = [camRequest EXCEPT ![r].at = "configured", ![r].url = cam.url, ![r].password = cam.password]
       ELSE Finish(r)
    /\ UNCHANGED <<cam, camSession, camSystem, answered>>

\* The cookie that is kept, whatever system it is of.
UseSession(r) ==
    /\ camRequest[r].op = "watch" /\ camRequest[r].at = "configured"
    /\ camSession # NoCookie
    /\ camRequest' = [camRequest EXCEPT ![r].at = "asking", ![r].cookie = camSession]
    /\ UNCHANGED <<cam, camSession, camSystem, answered>>

OpenSessionFor(r) ==
    /\ camRequest[r].op = "watch" /\ camRequest[r].at = "configured"
    /\ camSession = NoCookie
    /\ LogIn(camRequest[r].url, camRequest[r].password)
    /\ camSession' = Fresh(camRequest[r].url)
    /\ camRequest' = [camRequest EXCEPT ![r].at = "asking", ![r].cookie = Fresh(camRequest[r].url)]
    /\ UNCHANGED cam

Recognised(r) ==
    LET url == camRequest[r].url
    IN  camRequest[r].cookie = [of |-> url, serial |-> camSystem[url].serial]

\* Not recognised: the cookie is thrown away, and one more attempt is made.
RetryPicture(r) ==
    /\ camRequest[r].at = "asking" /\ ~camRequest[r].again
    /\ camSystem[camRequest[r].url].up /\ ~Recognised(r)
    /\ camSession' = NoCookie
    /\ camRequest' = [camRequest EXCEPT ![r].at = "configured", ![r].again = TRUE, ![r].cookie = NoCookie]
    /\ UNCHANGED <<cam, camSystem, answered>>

\* Answered; another status than 200 is written to the row there is now.
EndPicture(r) ==
    /\ camRequest[r].at = "asking"
    /\ \/ camSystem[camRequest[r].url].up /\ Recognised(r) /\ UNCHANGED cam
       \/ camSystem[camRequest[r].url].up /\ (Recognised(r) \/ camRequest[r].again)
          /\ cam' = [cam EXCEPT !.failed = @ \/ cam.there]
    /\ Finish(r)
    /\ UNCHANGED <<camSession, camSystem, answered>>

\* status: it answered, and the error that was noted is over.
CheckStatus ==
    /\ cam.there /\ camSystem[cam.url].up /\ camSession = [of |-> cam.url, serial |-> camSystem[cam.url].serial]
    /\ cam' = [cam EXCEPT !.failed = FALSE]
    /\ UNCHANGED <<camSession, camSystem, camRequest, answered>>

\* A log-in refused, a system that does not answer, or a lost request; nothing is written.
CamRequestFails(r) ==
    /\ camRequest[r].at \in {"configured", "asking"}
    /\ ~camSystem[camRequest[r].url].up \/ ~Accepts(camRequest[r].url, camRequest[r].password)
    /\ Finish(r)
    /\ UNCHANGED <<cam, camSession, camSystem, answered>>

\* The kept cookie has aged out (SESSION_TTL_MS), or the server starts again.
ForgetSession ==
    /\ camSession # NoCookie /\ camSession' = NoCookie
    /\ UNCHANGED <<cam, camSystem, camRequest, answered>>

\* The system is switched off or on, or its owner changes the password.
SystemChanges(s) ==
    /\ \/ camSystem' = [camSystem EXCEPT ![s].up = ~@]
       \/ \E p \in CamPasswords : camSystem' = [camSystem EXCEPT ![s].password = p]
    /\ UNCHANGED <<cam, camSession, camRequest, answered>>

CamerasNext ==
    \/ \E r \in CamRequests :
          \/ \E s \in CamSystems, p \in CamPasswords \cup {NoPassword} : ReadConnection(r, s, p)
          \/ \E shown \in {"all", "some"}, faces \in BOOLEAN : SaveConnection(r, shown, faces)
          \/ \E camera \in {"chosen", "other"} : AskPicture(r, camera)
          \/ ProveConnection(r) \/ ReadForCall(r) \/ UseSession(r) \/ OpenSessionFor(r)
          \/ RetryPicture(r) \/ EndPicture(r) \/ CamRequestFails(r)
    \/ RemoveConnection \/ CheckStatus \/ ForgetSession
    \/ \E s \in CamSystems : SystemChanges(s)

CamerasSpec == CamerasInit /\ [][CamerasNext]_camVars

\* The address and the password that are stored have worked together, however the saves of
\* two admins overlap (camwatch.js:106, "proven before it is stored").
ConnectionWasProven == cam.there => <<cam.url, cam.password>> \in answered

=============================================================================
