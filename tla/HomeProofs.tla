----------------------------- MODULE HomeProofs ------------------------------
(***************************************************************************)
(* What is proved of the devices and services of a home: its cameras, its  *)
(* controls, the calendar its events are pushed to and those it reads.     *)
(* One section for each component, in which its invariant is stated and    *)
(* shown inductive.                                                        *)
(***************************************************************************)
EXTENDS Cameras, HomeDevices, CalDavPush, Feeds, FiniteSetTheorems, TLAPS,
        WellFoundedInduction

(***************************************************************************)
(* The address and the password that are stored have worked together, for  *)
(* any number of systems, passwords and requests at a time (Cameras).      *)
(*                                                                         *)
(* A request carries what it read until it has tried it: what it brings    *)
(* back from the system is a pair that was accepted (Tried), and it stores *)
(* that pair whole.                                                        *)
(***************************************************************************)
Request == [op : {"none", "watch", "connect"},
            at : {"done", "allowed", "configured", "asking", "loggedIn"},
            url : CamSystems \cup {"nowhere"}, password : CamPasswords \cup {NoPassword},
            cookie : Cookies, again : BOOLEAN]

\* What is asked of a system is an address and a password there are.
Addressed ==
    \A r \in CamRequests : camRequest[r].at \in {"configured", "asking", "loggedIn"} =>
        camRequest[r].url \in CamSystems /\ camRequest[r].password \in CamPasswords

\* Who has logged in was let in.
Tried ==
    \A r \in CamRequests : camRequest[r].at = "loggedIn" =>
        <<camRequest[r].url, camRequest[r].password>> \in answered

CamInv == CamerasTypeOK /\ Addressed /\ Tried /\ ConnectionWasProven

-----------------------------------------------------------------------------

\* A log-in adds a session and an answer that was yes.
LEMMA LogInIs ==
    ASSUME CamInv, NEW url \in CamSystems, NEW password \in CamPasswords, LogIn(url, password)
    PROVE  /\ camSystem' \in [CamSystems -> [password : CamPasswords, serial : 0..MaxCookie, up : BOOLEAN]]
           /\ answered' = answered \cup {<<url, password>>}
           /\ answered' \subseteq (CamSystems \X CamPasswords)
           /\ Fresh(url) \in Cookies
<1> USE CamerasAssumption
<1>1. /\ camSystem \in [CamSystems -> [password : CamPasswords, serial : 0..MaxCookie, up : BOOLEAN]]
      /\ answered \subseteq (CamSystems \X CamPasswords)
  BY DEF CamInv, CamerasTypeOK
<1>2. camSystem[url].serial + 1 \in 1..MaxCookie
  BY <1>1 DEF LogIn, Accepts
<1>3. camSystem' = [camSystem EXCEPT ![url].serial = camSystem[url].serial + 1]
      /\ answered' = answered \cup {<<url, password>>}
  BY DEF LogIn
<1>4. camSystem[url].serial + 1 \in 0..MaxCookie
  BY <1>2
<1>5. camSystem' \in [CamSystems -> [password : CamPasswords, serial : 0..MaxCookie, up : BOOLEAN]]
  BY <1>1, <1>3, <1>4
<1> QED BY <1>1, <1>2, <1>3, <1>5 DEF Fresh, Cookies

\* A request that goes on keeps everything as long as it says no more than it knows.
LEMMA RequestKeeps ==
    ASSUME CamInv, NEW r \in CamRequests, NEW q \in Request,
           camRequest' = [camRequest EXCEPT ![r] = q],
           q.at \in {"configured", "asking", "loggedIn"} => q.url \in CamSystems /\ q.password \in CamPasswords,
           q.at = "loggedIn" => <<q.url, q.password>> \in answered',
           answered \subseteq answered'
    PROVE  /\ camRequest' \in [CamRequests -> Request]
           /\ Addressed' /\ Tried'
<1>1. camRequest \in [CamRequests -> Request]
  BY DEF CamInv, CamerasTypeOK, Request
<1>2. camRequest' \in [CamRequests -> Request]
  BY <1>1
<1>3. \A p \in CamRequests : camRequest'[p] = IF p = r THEN q ELSE camRequest[p]
  BY <1>1
<1>4. Addressed'
  BY <1>3 DEF CamInv, Addressed
<1>5. Tried'
  BY <1>3 DEF CamInv, Tried
<1> QED BY <1>2, <1>4, <1>5

\* The rest of the types, where the row and the systems stay.
LEMMA TypesFollow ==
    ASSUME CamInv, camRequest' \in [CamRequests -> Request], Addressed', Tried',
           camSession' \in Cookies, cam' = cam, answered \subseteq answered',
           answered' \subseteq (CamSystems \X CamPasswords),
           camSystem' \in [CamSystems -> [password : CamPasswords, serial : 0..MaxCookie, up : BOOLEAN]]
    PROVE  CamInv'
<1>1. CamerasTypeOK'
  BY DEF CamInv, CamerasTypeOK, Request
<1>2. ConnectionWasProven'
  BY DEF CamInv, ConnectionWasProven
<1> QED BY <1>1, <1>2 DEF CamInv

LEMMA CamerasInitially == CamerasInit => CamInv
<1> SUFFICES ASSUME CamerasInit PROVE CamInv OBVIOUS
<1>1. NoCookie \in Cookies /\ 0 \in 0..MaxCookie
  BY CamerasAssumption DEF Cookies
<1>2. NoRequest \in Request /\ NoRequest.at = "done"
  BY <1>1 DEF NoRequest, Request
<1>3. camRequest \in [CamRequests -> Request] /\ \A r \in CamRequests : camRequest[r].at = "done"
  BY <1>2 DEF CamerasInit
<1>4. cam \in [there : BOOLEAN, url : CamSystems \cup {"nowhere"}, password : CamPasswords \cup {NoPassword},
               shown : {"all", "some"}, faces : BOOLEAN, failed : BOOLEAN] /\ ~cam.there
  BY DEF CamerasInit, NotConnected
<1>5. camSystem \in [CamSystems -> [password : CamPasswords, serial : 0..MaxCookie, up : BOOLEAN]]
  <2>1. [CamSystems -> [password : CamPasswords, serial : {0}, up : {TRUE}]]
          \subseteq [CamSystems -> [password : CamPasswords, serial : 0..MaxCookie, up : BOOLEAN]]
    BY <1>1
  <2> QED BY <2>1 DEF CamerasInit
<1>6. CamerasTypeOK
  BY <1>1, <1>3, <1>4, <1>5 DEF CamerasInit, CamerasTypeOK, Request
<1> QED BY <1>3, <1>4, <1>6 DEF CamInv, Addressed, Tried, ConnectionWasProven

-----------------------------------------------------------------------------
(* The steps.                                                              *)

\* What a request finds when it starts.
LEMMA CamFacts ==
    ASSUME CamInv
    PROVE  /\ camRequest \in [CamRequests -> Request]
           /\ cam.url \in CamSystems \cup {"nowhere"} /\ cam.password \in CamPasswords \cup {NoPassword}
           /\ cam.there => cam.url \in CamSystems /\ cam.password \in CamPasswords
           /\ camSession \in Cookies /\ NoCookie \in Cookies
           /\ answered \subseteq (CamSystems \X CamPasswords)
           /\ camSystem \in [CamSystems -> [password : CamPasswords, serial : 0..MaxCookie, up : BOOLEAN]]
           /\ NoRequest \in Request /\ NoRequest.at = "done"
<1>1. NoCookie \in Cookies
  BY DEF Cookies
<1>2. NoRequest \in Request /\ NoRequest.at = "done"
  BY <1>1 DEF NoRequest, Request
<1> QED BY <1>1, <1>2 DEF CamInv, CamerasTypeOK, ConnectionWasProven, Request

\* A request that ends knows nothing any more.
LEMMA FinishKeeps ==
    ASSUME CamInv, NEW r \in CamRequests, Finish(r), cam' = cam, UNCHANGED <<camSession, camSystem, answered>>
    PROVE  CamInv'
<1>1. camRequest' \in [CamRequests -> Request] /\ Addressed' /\ Tried'
  BY CamFacts, RequestKeeps DEF Finish
<1> QED BY <1>1, CamFacts, TypesFollow

\* One that moves on without asking a system keeps everything as well.
LEMMA MoveKeeps ==
    ASSUME CamInv, NEW r \in CamRequests, NEW q \in Request, camRequest' = [camRequest EXCEPT ![r] = q],
           q.at \in {"allowed", "configured", "asking"},
           q.at # "allowed" => q.url \in CamSystems /\ q.password \in CamPasswords,
           camSession' \in Cookies, UNCHANGED <<cam, camSystem, answered>>
    PROVE  CamInv'
<1>1. camRequest' \in [CamRequests -> Request] /\ Addressed' /\ Tried'
  BY RequestKeeps
<1> QED BY <1>1, CamFacts, TypesFollow

LEMMA ReadConnectionKeeps ==
    ASSUME CamInv, NEW r \in CamRequests, NEW s \in CamSystems, NEW p \in CamPasswords \cup {NoPassword},
           ReadConnection(r, s, p)
    PROVE  CamInv'
<1> DEFINE password == IF p = NoPassword THEN cam.password ELSE p
           q == [NoRequest EXCEPT !.op = "connect", !.at = "configured", !.url = s, !.password = password]
<1>1. password \in CamPasswords
  BY CamFacts DEF ReadConnection
<1> HIDE DEF password
<1>2. q \in Request /\ q.at = "configured" /\ q.url = s /\ q.password = password
  BY <1>1, CamFacts DEF NoRequest, Request
<1>3. camRequest' = [camRequest EXCEPT ![r] = q] /\ UNCHANGED <<cam, camSession, camSystem, answered>>
  BY DEF ReadConnection, password
<1> HIDE DEF q
<1> QED BY <1>1, <1>2, <1>3, CamFacts, MoveKeeps

LEMMA ProveConnectionKeeps ==
    ASSUME CamInv, NEW r \in CamRequests, ProveConnection(r)
    PROVE  CamInv'
<1> DEFINE q == [camRequest[r] EXCEPT !.at = "loggedIn"]
<1>1. camRequest[r] \in Request /\ camRequest[r].url \in CamSystems /\ camRequest[r].password \in CamPasswords
  BY CamFacts DEF ProveConnection, CamInv, Addressed
<1>2. q \in Request /\ q.url = camRequest[r].url /\ q.password = camRequest[r].password
  BY <1>1 DEF Request
<1>3. /\ camSystem' \in [CamSystems -> [password : CamPasswords, serial : 0..MaxCookie, up : BOOLEAN]]
      /\ answered' = answered \cup {<<q.url, q.password>>} /\ answered' \subseteq (CamSystems \X CamPasswords)
  BY <1>1, <1>2, LogInIs DEF ProveConnection
<1>4. camRequest' = [camRequest EXCEPT ![r] = q] /\ UNCHANGED <<cam, camSession>>
  BY CamFacts DEF ProveConnection
<1> HIDE DEF q
<1>5. camRequest' \in [CamRequests -> Request] /\ Addressed' /\ Tried'
  BY <1>1, <1>2, <1>3, <1>4, RequestKeeps
<1> QED BY <1>3, <1>4, <1>5, CamFacts, TypesFollow

LEMMA SaveConnectionKeeps ==
    ASSUME CamInv, NEW r \in CamRequests, NEW shown \in {"all", "some"}, NEW faces \in BOOLEAN,
           SaveConnection(r, shown, faces)
    PROVE  CamInv'
<1>1. /\ camRequest[r] \in Request /\ camRequest[r].url \in CamSystems /\ camRequest[r].password \in CamPasswords
      /\ <<camRequest[r].url, camRequest[r].password>> \in answered
  BY CamFacts DEF SaveConnection, CamInv, Addressed, Tried
<1>2. /\ cam' = [there |-> TRUE, url |-> camRequest[r].url, password |-> camRequest[r].password,
                 shown |-> shown, faces |-> faces, failed |-> FALSE]
      /\ camSession' = NoCookie /\ Finish(r) /\ UNCHANGED <<camSystem, answered>>
  BY DEF SaveConnection, StoredPassword
<1>3. cam' \in [there : BOOLEAN, url : CamSystems \cup {"nowhere"}, password : CamPasswords \cup {NoPassword},
                shown : {"all", "some"}, faces : BOOLEAN, failed : BOOLEAN]
      /\ cam'.url = camRequest[r].url /\ cam'.password = camRequest[r].password
  BY <1>1, <1>2
<1>4. camRequest' \in [CamRequests -> Request] /\ Addressed' /\ Tried'
  BY <1>2, CamFacts, RequestKeeps DEF Finish
<1>5. CamerasTypeOK'
  BY <1>2, <1>3, <1>4, CamFacts DEF CamerasTypeOK, Request
<1>6. ConnectionWasProven'
  BY <1>1, <1>2, <1>3 DEF ConnectionWasProven
<1> QED BY <1>4, <1>5, <1>6 DEF CamInv

LEMMA WatchKeeps ==
    ASSUME CamInv, NEW r \in CamRequests,
           \/ \E camera \in {"chosen", "other"} : AskPicture(r, camera)
           \/ ReadForCall(r) \/ UseSession(r) \/ RetryPicture(r) \/ CamRequestFails(r)
    PROVE  CamInv'
<1>1. camRequest[r] \in Request
  BY CamFacts
<1>2. CASE \E camera \in {"chosen", "other"} : AskPicture(r, camera)
  <2> DEFINE q == [NoRequest EXCEPT !.op = "watch", !.at = "allowed"]
  <2>1. q \in Request /\ q.at = "allowed"
    BY CamFacts DEF NoRequest, Request
  <2>2. camRequest' = [camRequest EXCEPT ![r] = q] /\ UNCHANGED <<cam, camSession, camSystem, answered>>
    BY <1>2 DEF AskPicture
  <2> HIDE DEF q
  <2> QED BY <2>1, <2>2, CamFacts, MoveKeeps
<1>3. CASE ReadForCall(r)
  <2>1. CASE ~cam.there
    BY <1>3, <2>1, FinishKeeps DEF ReadForCall
  <2>2. CASE cam.there
    <3> DEFINE q == [camRequest[r] EXCEPT !.at = "configured", !.url = cam.url, !.password = cam.password]
    <3>1. q \in Request /\ q.at = "configured" /\ q.url = cam.url /\ q.password = cam.password
      BY <1>1, CamFacts DEF Request
    <3>2. camRequest' = [camRequest EXCEPT ![r] = q] /\ UNCHANGED <<cam, camSession, camSystem, answered>>
      BY <1>3, <2>2, CamFacts DEF ReadForCall
    <3> HIDE DEF q
    <3> QED BY <2>2, <3>1, <3>2, CamFacts, MoveKeeps
  <2> QED BY <2>1, <2>2
<1>4. CASE UseSession(r)
  <2> DEFINE q == [camRequest[r] EXCEPT !.at = "asking", !.cookie = camSession]
  <2>1. q \in Request /\ q.at = "asking" /\ q.url = camRequest[r].url /\ q.password = camRequest[r].password
    BY <1>1, CamFacts DEF Request
  <2>2. camRequest' = [camRequest EXCEPT ![r] = q] /\ UNCHANGED <<cam, camSession, camSystem, answered>>
    BY <1>4, CamFacts DEF UseSession
  <2>3. camRequest[r].url \in CamSystems /\ camRequest[r].password \in CamPasswords
    BY <1>4 DEF UseSession, CamInv, Addressed
  <2> HIDE DEF q
  <2> QED BY <2>1, <2>2, <2>3, CamFacts, MoveKeeps
<1>5. CASE RetryPicture(r)
  <2> DEFINE q == [camRequest[r] EXCEPT !.at = "configured", !.again = TRUE, !.cookie = NoCookie]
  <2>1. q \in Request /\ q.at = "configured" /\ q.url = camRequest[r].url /\ q.password = camRequest[r].password
    BY <1>1, CamFacts DEF Request
  <2>2. camRequest' = [camRequest EXCEPT ![r] = q] /\ camSession' = NoCookie /\ UNCHANGED <<cam, camSystem, answered>>
    BY <1>5, CamFacts DEF RetryPicture
  <2>3. camRequest[r].url \in CamSystems /\ camRequest[r].password \in CamPasswords
    BY <1>5 DEF RetryPicture, CamInv, Addressed
  <2> HIDE DEF q
  <2> QED BY <2>1, <2>2, <2>3, CamFacts, MoveKeeps
<1>6. CASE CamRequestFails(r)
  BY <1>6, FinishKeeps DEF CamRequestFails
<1> QED BY <1>2, <1>3, <1>4, <1>5, <1>6

LEMMA OpenSessionKeeps ==
    ASSUME CamInv, NEW r \in CamRequests, OpenSessionFor(r)
    PROVE  CamInv'
<1> DEFINE url == camRequest[r].url
           q == [camRequest[r] EXCEPT !.at = "asking", !.cookie = Fresh(url)]
<1>1. camRequest[r] \in Request /\ url \in CamSystems /\ camRequest[r].password \in CamPasswords
  BY CamFacts DEF OpenSessionFor, CamInv, Addressed
<1>2. /\ camSystem' \in [CamSystems -> [password : CamPasswords, serial : 0..MaxCookie, up : BOOLEAN]]
      /\ answered' = answered \cup {<<url, camRequest[r].password>>}
      /\ answered' \subseteq (CamSystems \X CamPasswords) /\ Fresh(url) \in Cookies
  BY <1>1, LogInIs DEF OpenSessionFor
<1>3. q \in Request /\ q.at = "asking" /\ q.url = url /\ q.password = camRequest[r].password
  BY <1>1, <1>2 DEF Request
<1>4. camRequest' = [camRequest EXCEPT ![r] = q] /\ camSession' = Fresh(url) /\ cam' = cam
  BY CamFacts DEF OpenSessionFor
<1> HIDE DEF q
<1>5. camRequest' \in [CamRequests -> Request] /\ Addressed' /\ Tried'
  BY <1>1, <1>2, <1>3, <1>4, RequestKeeps
<1> QED BY <1>2, <1>4, <1>5, TypesFollow

\* What is noted of the last answer concerns neither the address nor the password.
LEMMA NoteKeeps ==
    ASSUME CamInv, NEW failed \in BOOLEAN, cam' = [cam EXCEPT !.failed = failed],
           camRequest' \in [CamRequests -> Request], Addressed', Tried',
           UNCHANGED <<camSession, camSystem, answered>>
    PROVE  CamInv'
<1>1. cam' \in [there : BOOLEAN, url : CamSystems \cup {"nowhere"}, password : CamPasswords \cup {NoPassword},
                shown : {"all", "some"}, faces : BOOLEAN, failed : BOOLEAN]
      /\ cam'.there = cam.there /\ cam'.url = cam.url /\ cam'.password = cam.password
  BY DEF CamInv, CamerasTypeOK
<1>2. CamerasTypeOK'
  BY <1>1, CamFacts DEF CamerasTypeOK, Request
<1>3. ConnectionWasProven'
  BY <1>1 DEF CamInv, ConnectionWasProven
<1> QED BY <1>2, <1>3 DEF CamInv

LEMMA EndPictureKeeps ==
    ASSUME CamInv, NEW r \in CamRequests, EndPicture(r)
    PROVE  CamInv'
<1>1. CASE cam' = cam
  BY <1>1, FinishKeeps DEF EndPicture
<1>2. CASE cam' = [cam EXCEPT !.failed = cam.failed \/ cam.there]
  <2>1. camRequest' \in [CamRequests -> Request] /\ Addressed' /\ Tried'
    BY CamFacts, RequestKeeps DEF EndPicture, Finish
  <2>2. (cam.failed \/ cam.there) \in BOOLEAN
    OBVIOUS
  <2> QED BY <1>2, <2>1, <2>2, NoteKeeps DEF EndPicture
<1> QED BY <1>1, <1>2 DEF EndPicture

LEMMA CamerasStep == CamInv /\ [CamerasNext]_camVars => CamInv'
<1> SUFFICES ASSUME CamInv, [CamerasNext]_camVars PROVE CamInv' OBVIOUS
<1>1. ASSUME NEW r \in CamRequests, NEW s \in CamSystems, NEW p \in CamPasswords \cup {NoPassword},
             ReadConnection(r, s, p)
      PROVE  CamInv'
  BY <1>1, ReadConnectionKeeps
<1>2. ASSUME NEW r \in CamRequests, NEW shown \in {"all", "some"}, NEW faces \in BOOLEAN,
             SaveConnection(r, shown, faces)
      PROVE  CamInv'
  BY <1>2, SaveConnectionKeeps
<1>3. ASSUME NEW r \in CamRequests,
             \/ \E camera \in {"chosen", "other"} : AskPicture(r, camera)
             \/ ReadForCall(r) \/ UseSession(r) \/ RetryPicture(r) \/ CamRequestFails(r)
      PROVE  CamInv'
  BY <1>3, WatchKeeps
<1>4. ASSUME NEW r \in CamRequests, ProveConnection(r) \/ OpenSessionFor(r) \/ EndPicture(r) PROVE CamInv'
  BY <1>4, ProveConnectionKeeps, OpenSessionKeeps, EndPictureKeeps
<1>5. CASE RemoveConnection
  <2>1. /\ cam' = NotConnected /\ camSession' = NoCookie /\ UNCHANGED <<camSystem, camRequest, answered>>
    BY <1>5 DEF RemoveConnection
  <2>2. cam' \in [there : BOOLEAN, url : CamSystems \cup {"nowhere"}, password : CamPasswords \cup {NoPassword},
                  shown : {"all", "some"}, faces : BOOLEAN, failed : BOOLEAN] /\ ~cam'.there
    BY <2>1 DEF NotConnected
  <2>3. CamerasTypeOK' /\ ConnectionWasProven'
    BY <2>1, <2>2, CamFacts DEF CamerasTypeOK, ConnectionWasProven, Request
  <2> QED BY <2>1, <2>3 DEF CamInv, Addressed, Tried
<1>6. CASE CheckStatus
  BY <1>6, CamFacts, NoteKeeps DEF CheckStatus, CamInv, Addressed, Tried
<1>7. CASE ForgetSession
  BY <1>7, CamFacts, TypesFollow DEF ForgetSession, CamInv, Addressed, Tried
<1>8. ASSUME NEW s \in CamSystems, SystemChanges(s) PROVE CamInv'
  <2>1. camSystem' \in [CamSystems -> [password : CamPasswords, serial : 0..MaxCookie, up : BOOLEAN]]
    <3>1. CASE camSystem' = [camSystem EXCEPT ![s].up = ~camSystem[s].up]
      <4>1. (~camSystem[s].up) \in BOOLEAN
        OBVIOUS
      <4>2. \A up \in BOOLEAN : [camSystem EXCEPT ![s].up = up]
               \in [CamSystems -> [password : CamPasswords, serial : 0..MaxCookie, up : BOOLEAN]]
        BY CamFacts
      <4> QED BY <3>1, <4>1, <4>2
    <3>2. ASSUME NEW p \in CamPasswords, camSystem' = [camSystem EXCEPT ![s].password = p]
          PROVE  camSystem' \in [CamSystems -> [password : CamPasswords, serial : 0..MaxCookie, up : BOOLEAN]]
      BY <3>2, CamFacts
    <3> QED BY <1>8, <3>1, <3>2 DEF SystemChanges
  <2> QED BY <1>8, <2>1, CamFacts, TypesFollow DEF SystemChanges, CamInv, Addressed, Tried
<1>9. CASE UNCHANGED camVars
  BY <1>9 DEF camVars, CamInv, CamerasTypeOK, Addressed, Tried, ConnectionWasProven
<1> QED BY <1>1, <1>2, <1>3, <1>4, <1>5, <1>6, <1>7, <1>8, <1>9 DEF CamerasNext

\* The address and the password that are stored have worked together, however the saves of
\* any number of admins overlap with one another, with removals and with changes on the
\* system itself (services/camwatch.js:101-140).
THEOREM StoredConnectionsWereProven == CamerasSpec => []ConnectionWasProven
<1>1. CamInv => ConnectionWasProven
  BY DEF CamInv
<1> QED BY CamerasInitially, CamerasStep, <1>1, PTL DEF CamerasSpec

------------------------------------------------------------------------------
(***************************************************************************)
(* Names stick and controls show, for any number of devices, names and     *)
(* requests at a time (HomeDevices).                                       *)
(*                                                                         *)
(* Names: as long as no two people organise at a time, whoever does holds  *)
(* what is stored (Names).  States: a control that is answered has been    *)
(* carried out, and what a poll was told before it is marked as older or   *)
(* is at least as new (Shows); the cache is emptied with every answer, and *)
(* so never holds less than what was answered.                             *)
(***************************************************************************)
Asking == [at : {"none", "organise", "allowed", "called", "asked", "told"},
           read : [Devices -> Labels \cup Nat], device : Devices \cup {0}]
States == [Devices -> Nat]

\* What was read is what the request is about.
ReadsWell(q) ==
    /\ q.at \in {"called", "told"} => q.read \in States
    /\ q.at = "organise" => q.read \in [Devices -> Labels \cup {0}]

HomeTypes ==
    /\ {named, given} \subseteq [Devices -> Labels \cup {0}]
    /\ {house, done} \subseteq States
    /\ held \in States \cup {NotHeld}
    /\ asker \in [Askers -> Asking]
    /\ \A a \in Askers : ReadsWell(asker[a])
    /\ crowded \in BOOLEAN
    /\ older \in [askers : SUBSET Askers, held : BOOLEAN]

\* One at a time, and with what there is.
Names ==
    ~crowded =>
        /\ named = given
        /\ \A a, b \in Organising : a = b
        /\ \A a \in Organising : asker[a].read = named

AtLeast(states, other) == \A d \in Devices : states[d] >= other[d]

Shows ==
    /\ AtLeast(house, done)
    /\ \A a \in Askers : asker[a].at = "called" => AtLeast(house, asker[a].read)
    /\ \A a \in Askers : asker[a].at = "told" /\ a \notin older.askers => AtLeast(asker[a].read, done)
    /\ held # NotHeld /\ ~older.held => AtLeast(held, done)

HomeInv == HomeTypes /\ Names /\ Shows

-----------------------------------------------------------------------------

\* A request that comes or moves on says where it is and what it has read.
LEMMA AskerMoves ==
    ASSUME HomeTypes, NEW a \in Askers, NEW q \in Asking, asker' = [asker EXCEPT ![a] = q],
           ReadsWell(q)
    PROVE  /\ asker' \in [Askers -> Asking]
           /\ \A b \in Askers : asker'[b] = IF b = a THEN q ELSE asker[b]
           /\ \A b \in Askers : ReadsWell(asker'[b])
<1>1. asker' \in [Askers -> Asking]
  BY DEF HomeTypes
<1>2. \A b \in Askers : asker'[b] = IF b = a THEN q ELSE asker[b]
  BY DEF HomeTypes
<1> QED BY <1>1, <1>2 DEF HomeTypes

LEMMA NoAskerIs ==
    NoAsker \in Asking /\ NoAsker.at = "none" /\ ReadsWell(NoAsker) /\ Unnamed \in [Devices -> Labels \cup {0}]
<1>1. Unnamed \in [Devices -> Labels \cup {0}] /\ Unnamed \in [Devices -> Labels \cup Nat]
  BY DEF Unnamed
<1> QED BY <1>1 DEF NoAsker, Asking, ReadsWell

\* Somebody who asks for no names, and switches nothing, disturbs nobody.
LEMMA QuietMove ==
    ASSUME HomeInv, NEW a \in Askers, NEW q \in Asking, asker' = [asker EXCEPT ![a] = q],
           q.at \in {"none", "allowed", "asked"},
           UNCHANGED <<named, house, held, given, crowded, done>>,
           older' = older \/ older' = [older EXCEPT !.askers = older.askers \ {a}]
    PROVE  HomeInv'
<1>1. /\ asker' \in [Askers -> Asking]
      /\ \A b \in Askers : asker'[b] = IF b = a THEN q ELSE asker[b]
      /\ \A b \in Askers : ReadsWell(asker'[b])
  BY AskerMoves DEF HomeInv, ReadsWell
<1>2. older'.held = older.held /\ older' \in [askers : SUBSET Askers, held : BOOLEAN]
      /\ \A b \in Askers \ {a} : b \in older'.askers <=> b \in older.askers
  BY DEF HomeInv, HomeTypes
<1>3. HomeTypes'
  BY <1>1, <1>2 DEF HomeInv, HomeTypes
<1>4. Organising' \subseteq Organising /\ \A b \in Organising' : asker'[b] = asker[b]
  BY <1>1 DEF Organising
<1>5. Names'
  BY <1>4 DEF HomeInv, Names
<1>6. Shows'
  BY <1>1, <1>2 DEF HomeInv, Shows, AtLeast
<1> QED BY <1>3, <1>5, <1>6 DEF HomeInv

\* The cache is emptied, and who has been told is marked.
LEMMA InvalidateIs ==
    ASSUME HomeTypes, Invalidate
    PROVE  /\ held' = NotHeld /\ older' \in [askers : SUBSET Askers, held : BOOLEAN]
           /\ \A a \in Askers : asker[a].at = "told" => a \in older'.askers
BY DEF Invalidate, AfterChange

LEMMA ConnectionKeeps ==
    ASSUME HomeInv, ConfigureHome \/ DisconnectHome \/ GrantDomains \/ StatesExpire
    PROVE  HomeInv'
<1>1. CASE ConfigureHome
  <2>1. UNCHANGED <<named, house, asker, given, crowded, done>> /\ Invalidate
    BY <1>1 DEF ConfigureHome
  <2>2. HomeTypes'
    BY <2>1, InvalidateIs DEF HomeInv, HomeTypes
  <2>3. Names' /\ Shows'
    BY <2>1, InvalidateIs DEF HomeInv, Names, Shows, Organising, AtLeast
  <2> QED BY <2>2, <2>3 DEF HomeInv
<1>2. CASE DisconnectHome
  <2>1. UNCHANGED <<house, asker, done>> /\ Invalidate /\ named' = Unnamed /\ given' = Unnamed
        /\ crowded' = (crowded \/ Organising # {})
    BY <1>2 DEF DisconnectHome
  <2>2. (crowded \/ Organising # {}) \in BOOLEAN
    OBVIOUS
  <2>3. HomeTypes'
    BY <2>1, <2>2, InvalidateIs, NoAskerIs DEF HomeInv, HomeTypes
  <2>4. Names'
    BY <2>1 DEF Names, Organising
  <2>5. Shows'
    BY <2>1, InvalidateIs DEF HomeInv, Shows, AtLeast
  <2> QED BY <2>3, <2>4, <2>5 DEF HomeInv
<1>3. CASE GrantDomains
  BY <1>3 DEF GrantDomains, HomeInv, HomeTypes, Names, Shows, Organising, AtLeast
<1>4. CASE StatesExpire
  <2>1. held' = NotHeld /\ older' \in [askers : SUBSET Askers, held : BOOLEAN] /\ older'.askers = older.askers
        /\ UNCHANGED <<named, house, asker, given, crowded, done>>
    BY <1>4 DEF StatesExpire, HomeInv, HomeTypes
  <2> QED BY <2>1 DEF HomeInv, HomeTypes, Names, Shows, Organising, AtLeast
<1> QED BY <1>1, <1>2, <1>3, <1>4

LEMMA ReadDevicesKeeps ==
    ASSUME HomeInv, NEW a \in Askers, ReadDevices(a)
    PROVE  HomeInv'
<1> DEFINE q == [NoAsker EXCEPT !.at = "organise", !.read = named]
<1>1. q \in Asking /\ q.at = "organise" /\ q.read = named /\ ReadsWell(q)
  <2>1. named \in [Devices -> Labels \cup {0}] /\ named \in [Devices -> Labels \cup Nat]
    BY DEF HomeInv, HomeTypes
  <2> QED BY <2>1, NoAskerIs DEF Asking, ReadsWell
<1>2. asker' = [asker EXCEPT ![a] = q] /\ crowded' = (crowded \/ Organising # {})
      /\ UNCHANGED <<named, house, held, given, done, older>>
  BY DEF ReadDevices, Comes
<1> HIDE DEF q
<1>3. /\ asker' \in [Askers -> Asking]
      /\ \A b \in Askers : asker'[b] = IF b = a THEN q ELSE asker[b]
      /\ \A b \in Askers : ReadsWell(asker'[b])
  BY <1>1, <1>2, AskerMoves DEF HomeInv
<1>4. HomeTypes'
  <2>1. (crowded \/ Organising # {}) \in BOOLEAN
    OBVIOUS
  <2> QED BY <1>2, <1>3, <2>1 DEF HomeInv, HomeTypes
<1>5. Names'
  <2> SUFFICES ASSUME ~crowded'
               PROVE  named' = given' /\ (\A b \in Organising' : b = a /\ asker'[b].read = named')
    BY DEF Names
  <2>1. ~crowded /\ Organising = {}
    BY <1>2
  <2>2. \A b \in Organising' : b = a
    BY <1>3, <2>1 DEF Organising
  <2> QED BY <1>1, <1>2, <1>3, <2>1, <2>2 DEF HomeInv, Names
<1>6. Shows'
  BY <1>1, <1>2, <1>3 DEF HomeInv, Shows, AtLeast
<1> QED BY <1>4, <1>5, <1>6 DEF HomeInv

LEMMA WriteDevicesKeeps ==
    ASSUME HomeInv, NEW a \in Askers, WriteDevices(a)
    PROVE  HomeInv'
<1>1. asker' = [asker EXCEPT ![a] = NoAsker] /\ UNCHANGED <<house, held, crowded, done, older>> /\ a \in Organising
  BY DEF WriteDevices, Leaves, Organising
<1>2. /\ asker' \in [Askers -> Asking]
      /\ \A b \in Askers : asker'[b] = IF b = a THEN NoAsker ELSE asker[b]
      /\ \A b \in Askers : ReadsWell(asker'[b])
  BY <1>1, NoAskerIs, AskerMoves DEF HomeInv
<1>3. PICK d \in Devices, name \in Labels \cup {0} :
        IF ha.connected
        THEN named' = Merged(asker[a].read, d, name) /\ given' = [given EXCEPT ![d] = name]
        ELSE UNCHANGED <<named, given>>
  BY DEF WriteDevices
<1>4. crowded \/ (asker[a].read = named /\ named = given)
  BY <1>1 DEF HomeInv, Names
<1>5. Organising' = Organising \ {a}
  BY <1>2, NoAskerIs DEF Organising
<1>6. Names'
  <2> SUFFICES ASSUME ~crowded' PROVE named' = given' /\ Organising' = {}
    BY DEF Names
  <2>1. Organising' = {}
    BY <1>1, <1>5 DEF HomeInv, Names
  <2>2. named' = given'
    BY <1>1, <1>3, <1>4 DEF Merged
  <2> QED BY <2>1, <2>2
<1>7. Shows'
  BY <1>1, <1>2, NoAskerIs DEF HomeInv, Shows, AtLeast
<1>8. {named', given'} \subseteq [Devices -> Labels \cup {0}]
  <2>1. asker[a].read \in [Devices -> Labels \cup {0}] /\ {named, given} \subseteq [Devices -> Labels \cup {0}]
    BY <1>1 DEF HomeInv, HomeTypes, ReadsWell, Organising
  <2> QED BY <1>3, <2>1 DEF Merged
<1> QED BY <1>1, <1>2, <1>6, <1>7, <1>8 DEF HomeInv, HomeTypes

-----------------------------------------------------------------------------
(* Switching and polling.                                                  *)

\* A control is asked for, or a poll: nothing has been read yet.  Or a request is gone.
LEMMA AskKeeps ==
    ASSUME HomeInv, NEW a \in Askers,
           \/ \E by \in {"member", "display"}, d \in Devices : AskControl(a, by, d)
           \/ AskStates(a) \/ AskerFails(a)
    PROVE  HomeInv'
<1>1. ASSUME NEW by \in {"member", "display"}, NEW d \in Devices, AskControl(a, by, d) PROVE HomeInv'
  <2> DEFINE q == [NoAsker EXCEPT !.at = "allowed", !.device = d]
  <2>1. q \in Asking /\ q.at = "allowed"
    BY NoAskerIs DEF Asking
  <2>2. asker' = [asker EXCEPT ![a] = q] /\ UNCHANGED <<named, house, held, given, crowded, done, older>>
    BY <1>1 DEF AskControl, Comes
  <2> HIDE DEF q
  <2> QED BY <2>1, <2>2, QuietMove
<1>2. CASE AskStates(a)
  <2> DEFINE q == [NoAsker EXCEPT !.at = "asked"]
  <2>1. q \in Asking /\ q.at = "asked"
    BY NoAskerIs DEF Asking
  <2>2. asker' = [asker EXCEPT ![a] = q] /\ UNCHANGED <<named, house, held, given, crowded, done, older>>
    BY <1>2 DEF AskStates, Comes
  <2> HIDE DEF q
  <2> QED BY <2>1, <2>2, QuietMove
<1>3. CASE AskerFails(a)
  BY <1>3, NoAskerIs, QuietMove DEF AskerFails, Leaves
<1> QED BY <1>1, <1>2, <1>3

\* A device is switched: the states only go on.
LEMMA HouseGoesOn ==
    ASSUME HomeInv, NEW d, house' = [house EXCEPT ![d] = house[d] + 1]
    PROVE  house' \in States /\ AtLeast(house', house)
<1>1. house \in States
  BY DEF HomeInv, HomeTypes
<1>2. \A e \in Devices : house'[e] \in Nat /\ house'[e] >= house[e]
  BY <1>1 DEF States
<1> QED BY <1>1, <1>2 DEF States, AtLeast

\* At least as new is transitive.
LEMMA StillAtLeast ==
    ASSUME NEW x \in States, NEW y \in States, NEW z \in States, AtLeast(x, y), AtLeast(y, z)
    PROVE  AtLeast(x, z)
<1>1. ASSUME NEW d \in Devices PROVE x[d] >= z[d]
  BY DEF States, AtLeast
<1> QED BY <1>1 DEF AtLeast

LEMMA SwitchByHandKeeps ==
    ASSUME HomeInv, NEW d \in Devices, SwitchByHand(d)
    PROVE  HomeInv'
<1>1. house' = [house EXCEPT ![d] = house[d] + 1] /\ UNCHANGED <<named, held, asker, given, crowded, done, older>>
  BY DEF SwitchByHand
<1>2. house' \in States /\ AtLeast(house', house) /\ house \in States /\ done \in States
  BY <1>1, HouseGoesOn DEF HomeInv, HomeTypes
<1>3. HomeTypes' /\ Names'
  BY <1>1, <1>2 DEF HomeInv, HomeTypes, Names, Organising
<1>4. \A a \in Askers : asker[a].at = "called" => AtLeast(house', asker[a].read)
  BY <1>2, StillAtLeast DEF HomeInv, HomeTypes, ReadsWell, Shows
<1>5. AtLeast(house', done)
  BY <1>2, StillAtLeast DEF HomeInv, Shows
<1>6. Shows'
  BY <1>1, <1>4, <1>5 DEF HomeInv, Shows, AtLeast
<1> QED BY <1>3, <1>6 DEF HomeInv

LEMMA CallServiceKeeps ==
    ASSUME HomeInv, NEW a \in Askers, CallService(a)
    PROVE  HomeInv'
<1> DEFINE d == asker[a].device
           q == [asker[a] EXCEPT !.at = "called", !.read = house']
<1>1. house' = [house EXCEPT ![d] = house[d] + 1] /\ UNCHANGED <<named, held, given, crowded, done, older>>
      /\ asker[a].at = "allowed"
  BY DEF CallService
<1>2. house' \in States /\ AtLeast(house', house) /\ house \in States /\ done \in States
  BY <1>1, HouseGoesOn DEF HomeInv, HomeTypes
<1>3. q \in Asking /\ q.at = "called" /\ q.read = house' /\ ReadsWell(q)
  <2>1. asker[a] \in Asking /\ house' \in [Devices -> Labels \cup Nat]
    BY <1>2 DEF HomeInv, HomeTypes, States
  <2> QED BY <1>2, <2>1 DEF Asking, ReadsWell
<1>4. asker' = [asker EXCEPT ![a] = q]
  BY DEF CallService, HomeInv, HomeTypes
<1> HIDE DEF q, d
<1>5. /\ asker' \in [Askers -> Asking]
      /\ \A b \in Askers : asker'[b] = IF b = a THEN q ELSE asker[b]
      /\ \A b \in Askers : ReadsWell(asker'[b])
  BY <1>3, <1>4, AskerMoves DEF HomeInv
<1>6. HomeTypes'
  BY <1>1, <1>2, <1>5 DEF HomeInv, HomeTypes
<1>7. Organising' = Organising /\ \A b \in Organising : asker'[b] = asker[b]
  BY <1>1, <1>3, <1>5 DEF Organising
<1>8. Names'
  BY <1>1, <1>7 DEF HomeInv, Names
<1>9. \A b \in Askers : asker'[b].at = "called" => AtLeast(house', asker'[b].read)
  <2>1. AtLeast(house', house')
    BY <1>2 DEF AtLeast, States
  <2>2. ASSUME NEW b \in Askers, b # a, asker[b].at = "called" PROVE AtLeast(house', asker[b].read)
    BY <1>2, <2>2, StillAtLeast DEF HomeInv, HomeTypes, ReadsWell, Shows
  <2> QED BY <1>3, <1>5, <2>1, <2>2
<1>10. AtLeast(house', done)
  BY <1>2, StillAtLeast DEF HomeInv, Shows
<1>11. Shows'
  BY <1>1, <1>3, <1>5, <1>9, <1>10 DEF HomeInv, Shows, AtLeast
<1> QED BY <1>6, <1>8, <1>11 DEF HomeInv

LEMMA AnswerControlKeeps ==
    ASSUME HomeInv, NEW a \in Askers, AnswerControl(a)
    PROVE  HomeInv'
<1> DEFINE d == asker[a].device
<1>1. /\ done' = [done EXCEPT ![d] = IF done[d] < asker[a].read[d] THEN asker[a].read[d] ELSE done[d]]
      /\ Invalidate /\ asker' = [asker EXCEPT ![a] = NoAsker] /\ UNCHANGED <<named, house, given, crowded>>
      /\ asker[a].at = "called"
  BY DEF AnswerControl, Leaves
<1>2. /\ asker' \in [Askers -> Asking]
      /\ \A b \in Askers : asker'[b] = IF b = a THEN NoAsker ELSE asker[b]
      /\ \A b \in Askers : ReadsWell(asker'[b])
  BY <1>1, NoAskerIs, AskerMoves DEF HomeInv
<1>3. asker[a].read \in States /\ AtLeast(house, asker[a].read) /\ done \in States /\ house \in States
      /\ AtLeast(house, done)
  BY <1>1 DEF HomeInv, HomeTypes, ReadsWell, Shows
<1>4. done' \in States /\ AtLeast(house, done')
  <2>1. \A e \in Devices : done'[e] \in Nat /\ house[e] >= done'[e]
    BY <1>1, <1>3 DEF States, AtLeast
  <2>2. done' = [e \in Devices |-> done'[e]]
    BY <1>1, <1>3 DEF States
  <2> QED BY <2>1, <2>2 DEF States, AtLeast
<1>5. HomeTypes'
  BY <1>1, <1>2, <1>4, InvalidateIs DEF HomeInv, HomeTypes
<1>6. Organising' = Organising /\ \A b \in Organising : asker'[b] = asker[b]
  BY <1>1, <1>2, NoAskerIs DEF Organising
<1>7. Names'
  BY <1>1, <1>6 DEF HomeInv, Names
<1>8. held' = NotHeld /\ \A b \in Askers : asker'[b].at = "told" => b \in older'.askers
  BY <1>1, <1>2, NoAskerIs, InvalidateIs DEF HomeInv
<1>9. \A b \in Askers : asker'[b].at = "called" => AtLeast(house, asker'[b].read)
  BY <1>2, NoAskerIs DEF HomeInv, Shows
<1>10. Shows'
  BY <1>1, <1>4, <1>8, <1>9 DEF Shows, AtLeast
<1> QED BY <1>5, <1>7, <1>10 DEF HomeInv

LEMMA TellStatesKeeps ==
    ASSUME HomeInv, NEW a \in Askers, TellStates(a)
    PROVE  HomeInv'
<1> DEFINE q == [asker[a] EXCEPT !.at = "told", !.read = house]
<1>1. house \in States /\ AtLeast(house, done) /\ asker[a] \in Asking /\ house \in [Devices -> Labels \cup Nat]
  BY DEF HomeInv, HomeTypes, Shows, States
<1>2. q \in Asking /\ q.at = "told" /\ q.read = house /\ ReadsWell(q)
  BY <1>1 DEF Asking, ReadsWell
<1>3. asker' = [asker EXCEPT ![a] = q] /\ UNCHANGED <<named, house, held, given, crowded, done, older>>
      /\ asker[a].at = "asked"
  BY DEF TellStates, HomeInv, HomeTypes
<1> HIDE DEF q
<1>4. /\ asker' \in [Askers -> Asking]
      /\ \A b \in Askers : asker'[b] = IF b = a THEN q ELSE asker[b]
      /\ \A b \in Askers : ReadsWell(asker'[b])
  BY <1>2, <1>3, AskerMoves DEF HomeInv
<1>5. HomeTypes'
  BY <1>3, <1>4 DEF HomeInv, HomeTypes
<1>6. Organising' = Organising /\ \A b \in Organising : asker'[b] = asker[b]
  BY <1>2, <1>3, <1>4 DEF Organising
<1>7. Names'
  BY <1>3, <1>6 DEF HomeInv, Names
<1>8. Shows'
  BY <1>1, <1>2, <1>3, <1>4 DEF HomeInv, Shows, AtLeast
<1> QED BY <1>5, <1>7, <1>8 DEF HomeInv

LEMMA KeepStatesKeeps ==
    ASSUME HomeInv, NEW a \in Askers, KeepStates(a)
    PROVE  HomeInv'
<1>1. /\ held' = asker[a].read /\ older' = [askers |-> older.askers \ {a}, held |-> a \in older.askers]
      /\ asker' = [asker EXCEPT ![a] = NoAsker] /\ UNCHANGED <<named, house, given, crowded, done>>
      /\ asker[a].at = "told"
  BY DEF KeepStates, Leaves
<1>2. /\ asker' \in [Askers -> Asking]
      /\ \A b \in Askers : asker'[b] = IF b = a THEN NoAsker ELSE asker[b]
      /\ \A b \in Askers : ReadsWell(asker'[b])
  BY <1>1, NoAskerIs, AskerMoves DEF HomeInv
<1>3. older' \in [askers : SUBSET Askers, held : BOOLEAN]
  <2>1. (a \in older.askers) \in BOOLEAN /\ older.askers \ {a} \in SUBSET Askers
    BY DEF HomeInv, HomeTypes
  <2> QED BY <1>1, <2>1
<1>4. asker[a].read \in States /\ (a \notin older.askers => AtLeast(asker[a].read, done))
  BY <1>1 DEF HomeInv, HomeTypes, ReadsWell, Shows
<1>5. HomeTypes'
  BY <1>1, <1>2, <1>3, <1>4 DEF HomeInv, HomeTypes
<1>6. Organising' = Organising /\ \A b \in Organising : asker'[b] = asker[b]
  BY <1>1, <1>2, NoAskerIs DEF Organising
<1>7. Names'
  BY <1>1, <1>6 DEF HomeInv, Names
<1>8. held' # NotHeld /\ ~older'.held => AtLeast(held', done')
  BY <1>1, <1>4
<1>9. \A b \in Askers : asker'[b].at = "told" /\ b \notin older'.askers => AtLeast(asker'[b].read, done)
  BY <1>1, <1>2, NoAskerIs DEF HomeInv, Shows
<1>10. \A b \in Askers : asker'[b].at = "called" => AtLeast(house, asker'[b].read)
  BY <1>2, NoAskerIs DEF HomeInv, Shows
<1>11. Shows'
  BY <1>1, <1>8, <1>9, <1>10 DEF HomeInv, Shows, AtLeast
<1> QED BY <1>5, <1>7, <1>11 DEF HomeInv

-----------------------------------------------------------------------------

LEMMA HomeInitially == HomeInit => HomeInv
<1> SUFFICES ASSUME HomeInit PROVE HomeInv OBVIOUS
<1>1. /\ named = Unnamed /\ given = Unnamed /\ house = Untouched /\ done = Untouched /\ held = NotHeld
      /\ asker = [a \in Askers |-> NoAsker] /\ older = [askers |-> {}, held |-> FALSE]
  BY DEF HomeInit
<1>2. Untouched \in States
  BY DEF Untouched, States
<1>3a. crowded \in BOOLEAN
  BY DEF HomeInit
<1>3b. [askers |-> {}, held |-> FALSE] \in [askers : SUBSET Askers, held : BOOLEAN]
  OBVIOUS
<1>3. crowded \in BOOLEAN /\ older \in [askers : SUBSET Askers, held : BOOLEAN]
  BY <1>1, <1>3a, <1>3b
<1>4. asker \in [Askers -> Asking] /\ \A a \in Askers : asker[a] = NoAsker
  BY <1>1, NoAskerIs
<1>5. HomeTypes
  BY <1>1, <1>2, <1>3, <1>4, NoAskerIs DEF HomeTypes
<1>6. Organising = {}
  BY <1>4, NoAskerIs DEF Organising
<1>7. AtLeast(Untouched, Untouched)
  BY <1>2 DEF AtLeast, States
<1> QED BY <1>1, <1>4, <1>5, <1>6, <1>7, NoAskerIs DEF HomeInv, Names, Shows

LEMMA HomeStep == HomeInv /\ [HomeNext]_homeVars => HomeInv'
<1> SUFFICES ASSUME HomeInv, [HomeNext]_homeVars PROVE HomeInv' OBVIOUS
<1>1. CASE ConfigureHome \/ DisconnectHome \/ GrantDomains \/ StatesExpire
  BY <1>1, ConnectionKeeps
<1>2. ASSUME NEW d \in Devices, SwitchByHand(d) PROVE HomeInv'
  BY <1>2, SwitchByHandKeeps
<1>3. ASSUME NEW a \in Askers,
             \/ \E by \in {"member", "display"}, d \in Devices : AskControl(a, by, d)
             \/ AskStates(a) \/ AskerFails(a)
      PROVE  HomeInv'
  BY <1>3, AskKeeps
<1>4. ASSUME NEW a \in Askers, ReadDevices(a) \/ WriteDevices(a) PROVE HomeInv'
  BY <1>4, ReadDevicesKeeps, WriteDevicesKeeps
<1>5. ASSUME NEW a \in Askers, CallService(a) \/ AnswerControl(a) PROVE HomeInv'
  BY <1>5, CallServiceKeeps, AnswerControlKeeps
<1>6. ASSUME NEW a \in Askers, TellStates(a) \/ KeepStates(a) PROVE HomeInv'
  BY <1>6, TellStatesKeeps, KeepStatesKeeps
<1>7. CASE UNCHANGED homeVars
  BY <1>7 DEF homeVars, HomeInv, HomeTypes, ReadsWell, Names, Shows, Organising, AtLeast
<1> QED BY <1>1, <1>2, <1>3, <1>4, <1>5, <1>6, <1>7 DEF HomeNext

\* Every device has the name it was given last, as long as no two people organised at a
\* time (routes/home.js:278-310).
THEOREM GivenNamesStick == HomeSpec => []NamesStick
<1>1. HomeInv => NamesStick
  BY DEF HomeInv, Names, NamesStick
<1> QED BY HomeInitially, HomeStep, <1>1, PTL DEF HomeSpec

\* Once a control is answered no screen is shown the state from before it, but for what
\* Home Assistant said before (services/homeassistant.js:200-225).
THEOREM AnsweredControlsShow == HomeSpec => []ControlsShow
<1>1. HomeInv => ControlsShow
  BY DEF HomeInv, Shows, AtLeast, ControlsShow
<1> QED BY HomeInitially, HomeStep, <1>1, PTL DEF HomeSpec

------------------------------------------------------------------------------
(***************************************************************************)
(* A push that was clean and alone is true, and what a phone wrote stands, *)
(* for any number of events, texts and pushes (CalDavPush).                *)
(*                                                                         *)
(* What is known of a row is of an object the household wrote: a phone's   *)
(* object has an etag that nobody has noted (PhonesAreUnknown), so that no *)
(* conditional request finds it; and what a push has noted is what is      *)
(* there, unless it went astray (NotesAreTrue, RowsAreTrue).               *)
(***************************************************************************)
DavSpec == DavInit /\ [][DavNext]_davVars

PushRecord ==
    [on : BOOLEAN, todo : SUBSET Jobs, wrote : SUBSET Jobs, clean : BOOLEAN, alone : BOOLEAN,
     set : [Events -> 0..Texts]]
HeldRecord == [etag : 0..MaxEtag, text : 0..Texts, phone : BOOLEAN]
KnownRecord == [kept : BOOLEAN, etag : 0..MaxEtag, text : 0..Texts]

Writes == {"create", "update", "remove"}

\* Something a push has written and has not taken note of.
Unnoted(e) == \E p \in Pushes : \E job \in push[p].wrote : job.uid = e /\ job.do \in Writes

\* What a push sends is its set; it takes note of one write before the next.
SendsItsSet ==
    \A p \in Pushes :
       /\ ~push[p].on => push[p].todo = {} /\ push[p].wrote = {}
       /\ \A a, b \in push[p].wrote : a = b
       /\ \A job \in push[p].todo :
             \/ job.do \in {"create", "update"} /\ job.text = push[p].set[job.uid]
             \/ job.do = "remove" /\ job.text = 0 /\ push[p].set[job.uid] = 0

\* No etag is known before it is given out, and that of an event as a phone has
\* left it is known to nobody.
PhonesAreUnknown ==
    /\ \A e \in Events :
          /\ remote[e].etag <= etags /\ pushed[e].etag <= etags
          /\ remote[e].text # 0 => remote[e].etag # 0
          /\ remote[e].phone /\ remote[e].text # 0 => pushed[e].etag # remote[e].etag
    /\ \A p \in Pushes : \A job \in push[p].todo \cup push[p].wrote :
          /\ job.etag <= etags
          /\ remote[job.uid].phone /\ remote[job.uid].text # 0 => job.etag # remote[job.uid].etag

\* A note with the etag of what is on the calendar has its text.
NotesAreTrue ==
    \A p \in Pushes : \A job \in push[p].wrote :
       /\ job.do = "adopt" => job.text = 0
       /\ job.do \in {"create", "update"} =>
             /\ job.etag # 0
             /\ ~remote[job.uid].phone /\ job.etag = remote[job.uid].etag => job.text = remote[job.uid].text

\* The rows say what the calendar holds, but for what is astray, unnoted, adopted or
\* a phone's.
RowsAreTrue ==
    \A e \in Events \ astray :
       \/ Unnoted(e) \/ remote[e].phone
       \/ pushed[e].kept /\ pushed[e].text \in {0, remote[e].text}
       \/ ~pushed[e].kept /\ remote[e].text = 0

Settled(p, e) == remote[e].phone \/ remote[e].text = push[p].set[e]

\* A push that is alone has settled whatever it has no job left for, and never had
\* one for what the rows take for unchanged.
CleanSoFar ==
    \A p \in Pushes :
       push[p].on /\ push[p].alone =>
          /\ \A q \in Pushes \ {p} : ~push[q].on
          /\ push[p].clean =>
                /\ \A job \in push[p].wrote : Settled(p, job.uid)
                /\ \A e \in Events : \/ Settled(p, e) \/ TakenForUnchanged(p, e)
                                      \/ \E job \in push[p].todo : job.uid = e

DavInv ==
    /\ DavTypeOK /\ SendsItsSet
    /\ PhonesAreUnknown /\ NotesAreTrue /\ RowsAreTrue /\ CleanSoFar

LEMMA DavTypesAre ==
    DavTypeOK <=>
       /\ local \in [Events -> 0..Texts] /\ enabled \in BOOLEAN
       /\ remote \in [Events -> HeldRecord] /\ pushed \in [Events -> KnownRecord]
       /\ etags \in 0..MaxEtag /\ astray \subseteq Events /\ push \in [Pushes -> PushRecord]
BY DEF DavTypeOK, HeldRecord, KnownRecord, PushRecord

LEMMA NothingIs ==
    /\ Absent \in HeldRecord /\ Absent.etag = 0 /\ Absent.text = 0 /\ ~Absent.phone
    /\ NoRecord \in KnownRecord /\ ~NoRecord.kept /\ NoRecord.etag = 0 /\ NoRecord.text = 0
    /\ NoPush \in PushRecord /\ NoPush.todo = {} /\ NoPush.wrote = {} /\ ~NoPush.on
BY DavAssumption DEF Absent, NoRecord, NoPush, HeldRecord, KnownRecord, PushRecord

LEMMA DavInitially == DavInit => DavInv
<1> SUFFICES ASSUME DavInit PROVE DavInv OBVIOUS
<1> USE DavAssumption
<1>1. DavTypeOK
  <2>1. local \in [Events -> 0..Texts] /\ etags \in 0..MaxEtag
    BY DEF DavInit
  <2>. QED
    BY <2>1, NothingIs, DavTypesAre DEF DavInit
<1>2. \A p \in Pushes : push[p] = NoPush
  BY DEF DavInit
<1>3. \A e \in Events : remote[e] = Absent /\ pushed[e] = NoRecord
  BY DEF DavInit
<1>4. SendsItsSet /\ NotesAreTrue /\ CleanSoFar
  BY <1>2, NothingIs DEF SendsItsSet, NotesAreTrue, CleanSoFar
<1>5. PhonesAreUnknown
  BY <1>2, <1>3, NothingIs DEF PhonesAreUnknown, DavInit
<1>6. RowsAreTrue
  BY <1>3, NothingIs DEF RowsAreTrue
<1>. QED
  BY <1>1, <1>4, <1>5, <1>6 DEF DavInv

-----------------------------------------------------------------------------
(* Steps of the household and of the phone.                                *)

LEMMA EditsKeep ==
    ASSUME DavInv, NEW e \in Events, EditEvent(e) \/ SetPushEnabled
    PROVE  DavInv'
<1>1. /\ UNCHANGED <<remote, pushed, etags, push, astray>>
      /\ local' \in [Events -> 0..Texts] /\ enabled' \in BOOLEAN
  BY DavTypesAre DEF DavInv, EditEvent, SetPushEnabled
<1>2. DavTypeOK'
  BY <1>1, DavTypesAre DEF DavInv, DavTypeOK
<1>. QED
  BY <1>1, <1>2 DEF DavInv, SendsItsSet, PhonesAreUnknown, NotesAreTrue, RowsAreTrue, Unnoted, CleanSoFar, Settled, TakenForUnchanged

LEMMA ShakenIs ==
    ASSUME DavTypeOK
    PROVE  /\ Shaken \in [Pushes -> PushRecord]
           /\ \A p \in Pushes : /\ Shaken[p].on = push[p].on /\ Shaken[p].todo = push[p].todo
                                /\ Shaken[p].wrote = push[p].wrote /\ Shaken[p].set = push[p].set
                                /\ ~Shaken[p].alone
BY DavTypesAre DEF Shaken, PushRecord

\* A phone's etag is new, and no push is alone with the calendar any more.
LEMMA PhoneEditsKeep ==
    ASSUME DavInv, NEW e \in Events, EditOnPhone(e)
    PROVE  DavInv'
<1> USE DavAssumption
<1>1. /\ DavTypeOK /\ remote \in [Events -> HeldRecord] /\ pushed \in [Events -> KnownRecord]
      /\ etags \in 0..MaxEtag /\ push \in [Pushes -> PushRecord]
  BY DavTypesAre DEF DavInv
<1>2. /\ etags + 1 \in 0..MaxEtag /\ etags' = etags + 1 /\ remote[e].text # 0
      /\ UNCHANGED <<local, enabled, pushed, astray>> /\ push' = Shaken
  BY <1>1 DEF EditOnPhone
<1>3. PICK new \in HeldRecord :
        /\ remote' = [remote EXCEPT ![e] = new] /\ new.phone
        /\ new.etag = etags + 1 \/ (new.etag = 0 /\ new.text = 0)
  <2> DEFINE off == [Absent EXCEPT !.phone = TRUE]
             changed == [remote[e] EXCEPT !.etag = etags + 1, !.phone = TRUE]
  <2>1. off \in HeldRecord /\ off.phone /\ off.etag = 0 /\ off.text = 0
    BY NothingIs DEF HeldRecord
  <2>2. changed \in HeldRecord /\ changed.phone /\ changed.etag = etags + 1
    BY <1>1, <1>2 DEF HeldRecord
  <2>3. remote' = [remote EXCEPT ![e] = off] \/ remote' = [remote EXCEPT ![e] = changed]
    BY <1>1 DEF EditOnPhone
  <2> HIDE DEF off, changed
  <2>. QED
    BY <2>1, <2>2, <2>3
<1>4. DavTypeOK'
  BY <1>1, <1>2, <1>3, ShakenIs DEF DavTypeOK, HeldRecord, PushRecord
<1>5. /\ remote'[e] = new /\ \A f \in Events : f # e => remote'[f] = remote[f]
  BY <1>1, <1>3
<1>6. SendsItsSet' /\ CleanSoFar'
  BY <1>1, <1>2, ShakenIs DEF DavInv, SendsItsSet, CleanSoFar
<1>7. PhonesAreUnknown'
  <2>1. \A f \in Events : /\ remote'[f].etag <= etags' /\ pushed'[f].etag <= etags'
                          /\ remote'[f].text # 0 => remote'[f].etag # 0
                          /\ remote'[f].phone /\ remote'[f].text # 0 => pushed'[f].etag # remote'[f].etag
    BY <1>1, <1>2, <1>3, <1>5 DEF DavInv, PhonesAreUnknown, HeldRecord, KnownRecord
  <2>2. ASSUME NEW p \in Pushes, NEW job \in push'[p].todo \cup push'[p].wrote
        PROVE  /\ job.etag <= etags'
               /\ remote'[job.uid].phone /\ remote'[job.uid].text # 0 => job.etag # remote'[job.uid].etag
    <3>1. job \in push[p].todo \cup push[p].wrote /\ job \in Jobs
      BY <1>1, <1>2, <2>2, ShakenIs DEF PushRecord
    <3>2. /\ job.etag \in Nat /\ job.etag <= etags /\ job.uid \in Events
          /\ remote[job.uid].phone /\ remote[job.uid].text # 0 => job.etag # remote[job.uid].etag
      BY <3>1 DEF DavInv, PhonesAreUnknown, Jobs
    <3>. QED
      BY <1>1, <1>2, <1>3, <1>5, <3>2 DEF HeldRecord
  <2>. QED
    BY <2>1, <2>2 DEF PhonesAreUnknown
<1>8. RowsAreTrue'
  BY <1>1, <1>2, <1>3, <1>5, ShakenIs DEF DavInv, RowsAreTrue, Unnoted
<1>9. NotesAreTrue'
  BY <1>1, <1>2, <1>3, <1>5, ShakenIs DEF DavInv, NotesAreTrue
<1>. QED
  BY <1>4, <1>6, <1>7, <1>8, <1>9 DEF DavInv

-----------------------------------------------------------------------------
(* A push begins, ends, and breaks off.                                    *)

\* planSync plans for what is in the set and for what the rows know of, and for
\* nothing else.
LEMMA PlanIs ==
    ASSUME DavTypeOK
    PROVE  /\ PlanSync(local) \subseteq Jobs
           /\ \A job \in PlanSync(local) :
                 /\ job.etag \in {0, pushed[job.uid].etag}
                 /\ \/ job.do \in {"create", "update"} /\ job.text = local[job.uid]
                    \/ job.do = "remove" /\ job.text = 0 /\ local[job.uid] = 0
           /\ \A e \in Events : \/ \E job \in PlanSync(local) : job.uid = e
                                \/ local[e] # 0 /\ pushed[e].kept /\ pushed[e].text = local[e]
                                \/ local[e] = 0 /\ ~pushed[e].kept
<1> USE DavAssumption
<1>1. local \in [Events -> 0..Texts] /\ pushed \in [Events -> KnownRecord]
  BY DavTypesAre
<1>2. \A e \in Events, do \in {"create", "update", "remove"}, text \in 0..Texts, etag \in 0..MaxEtag :
         Job(do, e, text, etag) \in Jobs /\ Job(do, e, text, etag).do = do /\ Job(do, e, text, etag).uid = e
         /\ Job(do, e, text, etag).text = text /\ Job(do, e, text, etag).etag = etag
  BY DEF Job, Jobs
<1>3. \A e \in Events : local[e] \in 0..Texts /\ pushed[e].etag \in 0..MaxEtag /\ 0 \in 0..Texts /\ 0 \in 0..MaxEtag
  BY <1>1 DEF KnownRecord
<1> HIDE DEF Job
<1>4. ASSUME NEW job \in PlanSync(local)
      PROVE  /\ job \in Jobs /\ job.etag \in {0, pushed[job.uid].etag}
             /\ \/ job.do \in {"create", "update"} /\ job.text = local[job.uid]
                \/ job.do = "remove" /\ job.text = 0 /\ local[job.uid] = 0
  <2>1. PICK e \in Events : \/ job = Job("create", e, local[e], 0)
                            \/ job = Job("update", e, local[e], pushed[e].etag)
                            \/ job = Job("remove", e, 0, pushed[e].etag) /\ local[e] = 0
    BY <1>4 DEF PlanSync
  <2>. QED
    BY <1>2, <1>3, <2>1
<1>5. ASSUME NEW e \in Events
      PROVE  \/ \E job \in PlanSync(local) : job.uid = e
             \/ local[e] # 0 /\ pushed[e].kept /\ pushed[e].text = local[e]
             \/ local[e] = 0 /\ ~pushed[e].kept
  <2>1. CASE local[e] # 0 /\ ~pushed[e].kept
    <3>1. Job("create", e, local[e], 0) \in PlanSync(local)
      BY <2>1 DEF PlanSync
    <3>. QED
      BY <1>2, <1>3, <3>1
  <2>2. CASE local[e] # 0 /\ pushed[e].kept /\ pushed[e].text # local[e]
    <3>1. Job("update", e, local[e], pushed[e].etag) \in PlanSync(local)
      BY <2>2 DEF PlanSync
    <3>. QED
      BY <1>2, <1>3, <3>1
  <2>3. CASE local[e] = 0 /\ pushed[e].kept
    <3>1. Job("remove", e, 0, pushed[e].etag) \in PlanSync(local)
      BY <2>3 DEF PlanSync
    <3>. QED
      BY <1>2, <1>3, <3>1
  <2>. QED
    BY <2>1, <2>2, <2>3
<1>. QED
  BY <1>4, <1>5

LEMMA StartingKeeps ==
    ASSUME DavInv, NEW p \in Pushes, StartPush(p)
    PROVE  DavInv'
<1> USE DavAssumption
<1>1. /\ DavTypeOK /\ remote \in [Events -> HeldRecord] /\ pushed \in [Events -> KnownRecord]
      /\ etags \in 0..MaxEtag /\ push \in [Pushes -> PushRecord] /\ local \in [Events -> 0..Texts]
  BY DavTypesAre DEF DavInv
<1> DEFINE plan == PlanSync(local)
           single == \A q \in Pushes : ~push[q].on
           new == [NoPush EXCEPT !.on = TRUE, !.todo = plan, !.clean = TRUE, !.set = local, !.alone = single]
<1>2. ~push[p].on /\ push' = [Shaken EXCEPT ![p] = new] /\ UNCHANGED <<local, enabled, remote, pushed, etags, astray>>
  BY DEF StartPush
<1>3. plan \in SUBSET Jobs /\ single \in BOOLEAN
  BY <1>1, PlanIs
<1>4. /\ new \in PushRecord /\ new.on /\ new.todo = plan /\ new.wrote = {} /\ new.clean /\ new.set = local
      /\ new.alone = single
  <2> HIDE DEF plan, single
  <2>. QED
    BY <1>1, <1>3, NothingIs DEF PushRecord
<1> HIDE DEF new
<1>5. /\ push' \in [Pushes -> PushRecord] /\ push'[p] = new
      /\ \A q \in Pushes \ {p} : /\ push'[q].on = push[q].on /\ push'[q].todo = push[q].todo
                                 /\ push'[q].wrote = push[q].wrote /\ push'[q].set = push[q].set
                                 /\ ~push'[q].alone
  BY <1>1, <1>2, <1>4, ShakenIs
<1>6. DavTypeOK'
  BY <1>1, <1>2, <1>5 DEF DavTypeOK, PushRecord
<1>7. SendsItsSet'
  <2>1. \A job \in plan : \/ job.do \in {"create", "update"} /\ job.text = local[job.uid]
                          \/ job.do = "remove" /\ job.text = 0 /\ local[job.uid] = 0
    BY <1>1, PlanIs
  <2>. QED
    BY <1>4, <1>5, <2>1 DEF DavInv, SendsItsSet
<1>8. PhonesAreUnknown'
  <2>1. ASSUME NEW job \in plan
        PROVE  /\ job.etag <= etags
               /\ remote[job.uid].phone /\ remote[job.uid].text # 0 => job.etag # remote[job.uid].etag
    <3>1. job.uid \in Events /\ job.etag \in {0, pushed[job.uid].etag}
      BY <1>1, <1>3, <2>1, PlanIs DEF Jobs
    <3>. QED
      BY <1>1, <3>1 DEF DavInv, PhonesAreUnknown
  <2>2. ASSUME NEW q \in Pushes, NEW job \in push'[q].todo \cup push'[q].wrote
        PROVE  /\ job.etag <= etags
               /\ remote[job.uid].phone /\ remote[job.uid].text # 0 => job.etag # remote[job.uid].etag
    <3>1. CASE q = p
      BY <1>4, <1>5, <2>1, <2>2, <3>1
    <3>2. CASE q # p
      BY <1>5, <2>2, <3>2 DEF DavInv, PhonesAreUnknown
    <3>. QED
      BY <3>1, <3>2
  <2>. QED
    BY <1>2, <2>2 DEF DavInv, PhonesAreUnknown
<1>9. \A q \in Pushes : push'[q].wrote = push[q].wrote
  BY <1>2, <1>4, <1>5 DEF DavInv, SendsItsSet
<1>10. RowsAreTrue'
  BY <1>2, <1>9 DEF DavInv, RowsAreTrue, Unnoted
<1>12. NotesAreTrue'
  BY <1>2, <1>9 DEF DavInv, NotesAreTrue
<1>11. CleanSoFar'
  <2>1. ASSUME push'[p].alone
        PROVE  /\ \A q \in Pushes \ {p} : ~push'[q].on
               /\ \A e \in Events : \/ remote[e].phone \/ remote[e].text = local[e]
                                    \/ \E job \in plan : job.uid = e
                                    \/ /\ e \in astray
                                       /\ IF pushed[e].kept THEN pushed[e].text = local[e] ELSE local[e] = 0
    <3>1. \A q \in Pushes : ~push[q].on
      BY <1>4, <1>5, <2>1
    <3>2. \A e \in Events : ~Unnoted(e)
      BY <3>1 DEF DavInv, SendsItsSet, Unnoted
    <3>3. \A e \in Events : \/ \E job \in plan : job.uid = e
                            \/ local[e] # 0 /\ pushed[e].kept /\ pushed[e].text = local[e]
                            \/ local[e] = 0 /\ ~pushed[e].kept
      BY <1>1, PlanIs
    <3>4. \A e \in Events \ astray : \/ remote[e].phone
                                     \/ pushed[e].kept /\ pushed[e].text \in {0, remote[e].text}
                                     \/ ~pushed[e].kept /\ remote[e].text = 0
      BY <3>2 DEF DavInv, RowsAreTrue
    <3>. QED
      BY <1>5, <3>1, <3>3, <3>4
  <2>. QED
    BY <1>2, <1>4, <1>5, <2>1 DEF CleanSoFar, Settled, TakenForUnchanged
<1>. QED
  BY <1>6, <1>7, <1>8, <1>10, <1>11, <1>12 DEF DavInv

LEMMA EndingKeeps ==
    ASSUME DavInv, NEW p \in Pushes, FinishPush(p) \/ BreakOff(p)
    PROVE  DavInv'
<1>1. /\ DavTypeOK /\ remote \in [Events -> HeldRecord] /\ pushed \in [Events -> KnownRecord]
      /\ push \in [Pushes -> PushRecord]
  BY DavTypesAre DEF DavInv
<1>2. /\ push' = [push EXCEPT ![p] = NoPush] /\ UNCHANGED <<local, enabled, remote, pushed, etags>>
      /\ astray \subseteq astray' /\ astray' \subseteq Events
      /\ \A job \in push[p].wrote : job.uid \in astray'
  <2>1. \A job \in push[p].wrote : job.uid \in Events
    BY <1>1 DEF PushRecord, Jobs
  <2>2. CASE FinishPush(p)
    BY <1>1, <2>2 DEF FinishPush, DavTypeOK
  <2>3. CASE BreakOff(p)
    BY <1>1, <2>1, <2>3 DEF BreakOff, DavTypeOK
  <2>. QED
    BY <2>2, <2>3
<1>3. /\ push' \in [Pushes -> PushRecord] /\ push'[p] = NoPush
      /\ \A q \in Pushes \ {p} : push'[q] = push[q]
  BY <1>1, <1>2, NothingIs
<1>4. DavTypeOK'
  BY <1>1, <1>2, <1>3 DEF DavTypeOK, PushRecord
<1>5. SendsItsSet' /\ CleanSoFar' /\ PhonesAreUnknown' /\ NotesAreTrue'
  BY <1>2, <1>3, NothingIs DEF DavInv, SendsItsSet, CleanSoFar, Settled, TakenForUnchanged, PhonesAreUnknown, NotesAreTrue
<1>6. RowsAreTrue'
  <2>1. \A e \in Events \ astray' : Unnoted(e) => Unnoted(e)'
    BY <1>2, <1>3 DEF Unnoted
  <2>. QED
    BY <1>2, <2>1 DEF DavInv, RowsAreTrue
<1>. QED
  BY <1>4, <1>5, <1>6 DEF DavInv

-----------------------------------------------------------------------------
(* The jobs of a push.                                                     *)

LEMMA TookIs ==
    ASSUME DavTypeOK, NEW p \in Pushes, NEW job \in Jobs
    PROVE  /\ Took(p, job) \in [Pushes -> PushRecord]
           /\ \A q \in Pushes \ {p} : Took(p, job)[q] = push[q]
           /\ Took(p, job)[p].todo = push[p].todo \ {job} /\ Took(p, job)[p].wrote = push[p].wrote
           /\ Took(p, job)[p].on = push[p].on /\ Took(p, job)[p].set = push[p].set
           /\ Took(p, job)[p].alone = push[p].alone /\ Took(p, job)[p].clean = push[p].clean
BY DavTypesAre DEF Took, PushRecord

\* A job that fails, or that the calendar refuses, ends a clean push.
LEMMA RefusedJobsKeep ==
    ASSUME DavInv, NEW p \in Pushes, NEW job \in Jobs, push[p].wrote = {},
           UNCHANGED <<local, enabled, remote, pushed, etags, astray>>,
           push' \in [Pushes -> PushRecord], \A q \in Pushes \ {p} : push'[q] = push[q],
           push'[p].todo = push[p].todo \ {job}, push'[p].on = push[p].on, push[p].on,
           push'[p].set = push[p].set, push'[p].alone = push[p].alone, ~push'[p].clean,
           \/ push'[p].wrote = {}
           \/ \E note \in Jobs : push'[p].wrote = {note} /\ note.do \notin Writes /\ note.etag = 0 /\ note.text = 0
    PROVE  DavInv'
<1> USE DavAssumption
<1>1. DavTypeOK /\ remote \in [Events -> HeldRecord] /\ push \in [Pushes -> PushRecord] /\ etags \in 0..MaxEtag
  BY DavTypesAre DEF DavInv
<1>2. DavTypeOK'
  BY <1>1 DEF DavTypeOK, PushRecord
<1>3. SendsItsSet'
  <2>1. \A a, b \in push'[p].wrote : a = b
    OBVIOUS
  <2>2. ASSUME NEW q \in Pushes
        PROVE  /\ ~push'[q].on => push'[q].todo = {} /\ push'[q].wrote = {}
               /\ \A a, b \in push'[q].wrote : a = b
               /\ \A some \in push'[q].todo :
                     \/ some.do \in {"create", "update"} /\ some.text = push'[q].set[some.uid]
                     \/ some.do = "remove" /\ some.text = 0 /\ push'[q].set[some.uid] = 0
    <3>1. CASE q = p
      <4>1. \A some \in push[p].todo :
                     \/ some.do \in {"create", "update"} /\ some.text = push[p].set[some.uid]
                     \/ some.do = "remove" /\ some.text = 0 /\ push[p].set[some.uid] = 0
        BY DEF DavInv, SendsItsSet
      <4>. QED
        BY <2>1, <3>1, <4>1
    <3>2. CASE q # p
      <4>1. push'[q] = push[q]
        BY <3>2
      <4>. QED
        BY <4>1 DEF DavInv, SendsItsSet
    <3>. QED
      BY <3>1, <3>2
  <2>. QED
    BY <2>2 DEF SendsItsSet
<1>4. CleanSoFar'
  BY DEF DavInv, CleanSoFar, Settled, TakenForUnchanged
<1>5. PhonesAreUnknown'
  <2>1. ASSUME NEW q \in Pushes, NEW some \in push'[q].todo \cup push'[q].wrote
        PROVE  /\ some.etag <= etags
               /\ remote[some.uid].phone /\ remote[some.uid].text # 0 => some.etag # remote[some.uid].etag
    <3>1. CASE some \in push[q].todo \cup push[q].wrote
      BY <3>1 DEF DavInv, PhonesAreUnknown
    <3>2. CASE some \notin push[q].todo \cup push[q].wrote
      <4>1. some \in Jobs /\ some.etag = 0
        BY <2>1, <3>2
      <4>. QED
        BY <1>1, <4>1 DEF DavInv, PhonesAreUnknown, Jobs
    <3>. QED
      BY <3>1, <3>2
  <2>. QED
    BY <2>1 DEF DavInv, PhonesAreUnknown
<1>6. \A e \in Events : Unnoted(e) => Unnoted(e)'
  BY DEF Unnoted
<1>7. RowsAreTrue'
  BY <1>6 DEF DavInv, RowsAreTrue
<1>8. NotesAreTrue'
  BY DEF DavInv, NotesAreTrue, Writes
<1>. QED
  BY <1>2, <1>3, <1>4, <1>5, <1>7, <1>8 DEF DavInv

\* A job that is done leaves its event on the calendar as the set has it.
LEMMA DoneJobsKeep ==
    ASSUME DavInv, NEW p \in Pushes, NEW job \in push[p].todo, push[p].wrote = {}, push[p].on,
           UNCHANGED <<local, enabled, pushed, astray>>,
           etags' \in 0..MaxEtag, etags <= etags',
           NEW new \in HeldRecord, remote' = [remote EXCEPT ![job.uid] = new], ~new.phone,
           new.text = push[p].set[job.uid], new.etag <= etags', new.text # 0 => new.etag # 0,
           new.etag = 0 \/ new.etag > etags,
           NEW note \in Jobs, note.do \in Writes, note.uid = job.uid, note.etag <= etags',
           note.do # "remove" => note.etag = new.etag /\ note.etag # 0 /\ note.text = new.text,
           push' \in [Pushes -> PushRecord], \A q \in Pushes \ {p} : push'[q] = push[q],
           push'[p].todo = push[p].todo \ {job}, push'[p].wrote = {note}, push'[p].on = push[p].on,
           push'[p].set = push[p].set, push'[p].alone = push[p].alone, push'[p].clean = push[p].clean
    PROVE  DavInv'
<1> USE DavAssumption
<1>1. /\ DavTypeOK /\ remote \in [Events -> HeldRecord] /\ pushed \in [Events -> KnownRecord]
      /\ push \in [Pushes -> PushRecord] /\ etags \in 0..MaxEtag
  BY DavTypesAre DEF DavInv
<1>2. /\ push' \in [Pushes -> PushRecord] /\ (\A q \in Pushes \ {p} : push'[q] = push[q])
      /\ push'[p].todo = push[p].todo \ {job} /\ push'[p].wrote = {note} /\ push'[p].on = push[p].on
      /\ push'[p].set = push[p].set /\ push'[p].alone = push[p].alone /\ push'[p].clean = push[p].clean
  OBVIOUS
<1>3. /\ job.uid \in Events /\ remote'[job.uid] = new /\ remote' \in [Events -> HeldRecord]
      /\ \A e \in Events : e # job.uid => remote'[e] = remote[e]
  BY <1>1 DEF PushRecord, Jobs
<1>4. DavTypeOK'
  BY <1>1, <1>2, <1>3 DEF DavTypeOK, PushRecord, HeldRecord
<1>5. SendsItsSet'
  <2>1. \A a, b \in push'[p].wrote : a = b
    BY <1>2
  <2>2. ASSUME NEW q \in Pushes
        PROVE  /\ ~push'[q].on => push'[q].todo = {} /\ push'[q].wrote = {}
               /\ \A a, b \in push'[q].wrote : a = b
               /\ \A some \in push'[q].todo :
                     \/ some.do \in {"create", "update"} /\ some.text = push'[q].set[some.uid]
                     \/ some.do = "remove" /\ some.text = 0 /\ push'[q].set[some.uid] = 0
    <3>1. CASE q = p
      <4>1. \A some \in push[p].todo :
                     \/ some.do \in {"create", "update"} /\ some.text = push[p].set[some.uid]
                     \/ some.do = "remove" /\ some.text = 0 /\ push[p].set[some.uid] = 0
        BY DEF DavInv, SendsItsSet
      <4>. QED
        BY <1>2, <2>1, <3>1, <4>1
    <3>2. CASE q # p
      <4>1. push'[q] = push[q]
        BY <1>2, <3>2
      <4>. QED
        BY <4>1 DEF DavInv, SendsItsSet
    <3>. QED
      BY <3>1, <3>2
  <2>. QED
    BY <2>2 DEF SendsItsSet
<1>6. PhonesAreUnknown'
  <2>1. \A e \in Events : /\ remote'[e].etag <= etags' /\ pushed'[e].etag <= etags'
                          /\ remote'[e].text # 0 => remote'[e].etag # 0
                          /\ remote'[e].phone /\ remote'[e].text # 0 => pushed'[e].etag # remote'[e].etag
    BY <1>1, <1>3 DEF DavInv, PhonesAreUnknown, HeldRecord, KnownRecord
  <2>2. ASSUME NEW q \in Pushes, NEW some \in push'[q].todo \cup push'[q].wrote
        PROVE  /\ some.etag <= etags'
               /\ remote'[some.uid].phone /\ remote'[some.uid].text # 0 => some.etag # remote'[some.uid].etag
    <3>1. CASE some \in push[q].todo \cup push[q].wrote
      <4>1. some \in Jobs /\ some.etag <= etags /\ some.etag \in Nat /\ some.uid \in Events
        BY <1>1, <3>1 DEF DavInv, PhonesAreUnknown, PushRecord, Jobs
      <4>. QED
        BY <1>1, <1>3, <3>1, <4>1 DEF DavInv, PhonesAreUnknown
    <3>2. CASE some \notin push[q].todo \cup push[q].wrote
      <4>1. some = note
        BY <1>2, <2>2, <3>2
      <4>. QED
        BY <1>3, <4>1
    <3>. QED
      BY <3>1, <3>2
  <2>. QED
    BY <2>1, <2>2 DEF PhonesAreUnknown
<1>7. RowsAreTrue'
  <2>1. Unnoted(job.uid)' /\ \A e \in Events : Unnoted(e) => Unnoted(e)'
    BY <1>2 DEF Unnoted
  <2>. QED
    BY <1>3, <2>1 DEF DavInv, RowsAreTrue
<1>8. CleanSoFar'
  <2>1. ASSUME NEW q \in Pushes, push'[q].on, push'[q].alone, NEW o \in Pushes \ {q}
        PROVE  ~push'[o].on
    BY <1>2, <2>1 DEF DavInv, CleanSoFar
  <2>2. ASSUME push'[p].alone, push'[p].clean
        PROVE  /\ \A some \in push'[p].wrote : Settled(p, some.uid)'
               /\ \A e \in Events : \/ Settled(p, e)' \/ TakenForUnchanged(p, e)'
                                    \/ \E some \in push'[p].todo : some.uid = e
    <3>1. Settled(p, job.uid)'
      BY <1>2, <1>3 DEF Settled
    <3>2. ASSUME NEW e \in Events, e # job.uid
          PROVE  \/ Settled(p, e)' \/ TakenForUnchanged(p, e)'
                 \/ \E some \in push'[p].todo : some.uid = e
      <4>1. push[p].on /\ push[p].alone /\ push[p].clean
        BY <1>2, <2>2
      <4>2. Settled(p, e) \/ TakenForUnchanged(p, e) \/ \E some \in push[p].todo : some.uid = e
        BY <3>2, <4>1 DEF DavInv, CleanSoFar
      <4>. QED
        BY <1>2, <1>3, <3>2, <4>2 DEF Settled, TakenForUnchanged
    <3>. QED
      BY <1>2, <3>1, <3>2
  <2>3. \A q \in Pushes \ {p} : push'[q].on => ~push'[q].alone
    BY <1>2 DEF DavInv, CleanSoFar
  <2>. QED
    BY <2>1, <2>2, <2>3 DEF CleanSoFar
<1>9. NotesAreTrue'
  <2>1. ASSUME NEW q \in Pushes \ {p}, NEW some \in push'[q].wrote, some.do \in {"create", "update"}
        PROVE  /\ some.etag # 0
               /\ ~remote'[some.uid].phone /\ some.etag = remote'[some.uid].etag => some.text = remote'[some.uid].text
    <3>1. some \in push[q].wrote
      BY <1>2, <2>1
    <3>2. some.etag # 0 /\ some.etag \in Nat /\ some.etag <= etags /\ some.uid \in Events
      BY <1>1, <2>1, <3>1 DEF DavInv, NotesAreTrue, PhonesAreUnknown, PushRecord, Jobs
    <3>3. CASE some.uid = job.uid
      <4>1. some.etag # new.etag
        BY <1>1, <3>2 DEF HeldRecord
      <4>. QED
        BY <1>3, <3>2, <3>3, <4>1
    <3>4. CASE some.uid # job.uid
      BY <1>3, <2>1, <3>1, <3>2, <3>4 DEF DavInv, NotesAreTrue
    <3>. QED
      BY <3>3, <3>4
  <2>2. \A q \in Pushes \ {p} : \A some \in push'[q].wrote : some.do = "adopt" => some.text = 0
    BY <1>2 DEF DavInv, NotesAreTrue
  <2>3. \A some \in push'[p].wrote : some = note
    BY <1>2
  <2>. QED
    BY <1>3, <2>1, <2>2, <2>3 DEF NotesAreTrue, Writes
<1>. QED
  BY <1>4, <1>5, <1>6, <1>7, <1>8, <1>9 DEF DavInv

LEMMA JobsKeep ==
    ASSUME DavInv, NEW p \in Pushes, NEW job \in push[p].todo,
           PutEvent(p, job) \/ PutConflict(p, job) \/ DeleteEvent(p, job) \/ WriteFails(p, job)
    PROVE  DavInv'
<1> USE DavAssumption
<1>1. /\ DavTypeOK /\ remote \in [Events -> HeldRecord] /\ push \in [Pushes -> PushRecord]
      /\ etags \in 0..MaxEtag /\ push[p].wrote = {} /\ push[p].on /\ job \in Jobs
  BY DavTypesAre DEF DavInv, SendsItsSet, PutEvent, PutConflict, DeleteEvent, WriteFails, PushRecord
<1>2. /\ job.uid \in Events /\ job.text \in 0..Texts /\ job.etag <= etags
      /\ \/ job.do \in {"create", "update"} /\ job.text = push[p].set[job.uid]
         \/ job.do = "remove" /\ job.text = 0 /\ push[p].set[job.uid] = 0
  BY <1>1 DEF DavInv, SendsItsSet, PhonesAreUnknown, Jobs
<1>3. CASE PutEvent(p, job)
  <2> DEFINE new == [etag |-> etags + 1, text |-> job.text, phone |-> FALSE]
             note == [job EXCEPT !.etag = etags + 1]
  <2>1. /\ etags < MaxEtag /\ etags' = etags + 1 /\ UNCHANGED <<local, enabled, pushed, astray>>
        /\ remote' = [remote EXCEPT ![job.uid] = new] /\ push' = Wrote(p, job, note)
        /\ job.do \in {"create", "update"}
    BY <1>3 DEF PutEvent
  <2>2. etags + 1 \in 0..MaxEtag /\ etags + 1 # 0 /\ etags <= etags + 1 /\ etags + 1 <= etags + 1
    BY <1>1, <2>1
  <2>3. new \in HeldRecord /\ ~new.phone /\ new.text = push[p].set[job.uid] /\ new.etag = etags + 1
    BY <1>2, <2>1, <2>2 DEF HeldRecord
  <2>4. note \in Jobs /\ note.do \in Writes /\ note.uid = job.uid /\ note.etag = etags + 1
        /\ note.text = job.text
    BY <1>1, <2>1, <2>2 DEF Jobs, Writes
  <2> HIDE DEF new, note
  <2>5. /\ push' \in [Pushes -> PushRecord] /\ (\A q \in Pushes \ {p} : push'[q] = push[q])
        /\ push'[p].todo = push[p].todo \ {job} /\ push'[p].wrote = {note} /\ push'[p].on = push[p].on
        /\ push'[p].set = push[p].set /\ push'[p].alone = push[p].alone /\ push'[p].clean = push[p].clean
    BY <1>1, <2>1, <2>4 DEF Wrote, PushRecord
  <2>6. /\ etags' \in 0..MaxEtag /\ etags <= etags' /\ new.etag <= etags' /\ note.etag <= etags'
        /\ new.etag # 0 /\ new.etag > etags /\ note.etag = new.etag /\ note.text = new.text
    BY <1>1, <1>2, <2>1, <2>2, <2>3, <2>4
  <2>. QED
    BY <1>1, <2>1, <2>3, <2>4, <2>5, <2>6, DoneJobsKeep
<1>4. CASE PutConflict(p, job)
  <2> DEFINE note == Job(IF job.do = "create" THEN "adopt" ELSE "forget", job.uid, 0, 0)
             wrote == Wrote(p, job, note)
  <2>1. push' = [wrote EXCEPT ![p].clean = FALSE] /\ UNCHANGED <<local, enabled, remote, pushed, etags, astray>>
    BY <1>4 DEF PutConflict
  <2>2. note \in Jobs /\ note.do \notin Writes /\ note.etag = 0 /\ note.text = 0
    BY <1>2 DEF Job, Jobs, Writes
  <2> HIDE DEF note
  <2>3. /\ wrote \in [Pushes -> PushRecord] /\ (\A q \in Pushes \ {p} : wrote[q] = push[q])
        /\ wrote[p].todo = push[p].todo \ {job} /\ wrote[p].wrote = {note} /\ wrote[p].on = push[p].on
        /\ wrote[p].set = push[p].set /\ wrote[p].alone = push[p].alone
    BY <1>1, <2>2 DEF Wrote, PushRecord
  <2> HIDE DEF wrote
  <2>4. /\ push' \in [Pushes -> PushRecord] /\ (\A q \in Pushes \ {p} : push'[q] = push[q])
        /\ push'[p].todo = push[p].todo \ {job} /\ push'[p].wrote = {note} /\ push'[p].on = push[p].on
        /\ push'[p].set = push[p].set /\ push'[p].alone = push[p].alone /\ ~push'[p].clean
    BY <2>1, <2>3 DEF PushRecord
  <2>5. \E some \in Jobs : push'[p].wrote = {some} /\ some.do \notin Writes /\ some.etag = 0 /\ some.text = 0
    BY <2>2, <2>4
  <2>. QED
    BY <1>1, <2>1, <2>4, <2>5, RefusedJobsKeep
<1>5. ASSUME push' = [Took(p, job) EXCEPT ![p].clean = FALSE],
             UNCHANGED <<local, enabled, remote, pushed, etags, astray>>
      PROVE  DavInv'
  <2> DEFINE took == Took(p, job)
  <2>1. push' = [took EXCEPT ![p].clean = FALSE]
    BY <1>5
  <2>2. /\ took \in [Pushes -> PushRecord] /\ (\A q \in Pushes \ {p} : took[q] = push[q])
        /\ took[p].todo = push[p].todo \ {job} /\ took[p].wrote = {} /\ took[p].on = push[p].on
        /\ took[p].set = push[p].set /\ took[p].alone = push[p].alone
    BY <1>1, TookIs
  <2> HIDE DEF took
  <2>3. /\ push' \in [Pushes -> PushRecord] /\ (\A q \in Pushes \ {p} : push'[q] = push[q])
        /\ push'[p].todo = push[p].todo \ {job} /\ push'[p].wrote = {} /\ push'[p].on = push[p].on
        /\ push'[p].set = push[p].set /\ push'[p].alone = push[p].alone /\ ~push'[p].clean
    BY <2>1, <2>2 DEF PushRecord
  <2>. QED
    BY <1>1, <1>5, <2>3, RefusedJobsKeep
<1>6. CASE WriteFails(p, job)
  BY <1>5, <1>6 DEF WriteFails
<1>7. CASE DeleteEvent(p, job)
  <2>1. CASE ~DeleteAllowed(job)
    BY <1>5, <1>7, <2>1 DEF DeleteEvent
  <2>2. CASE DeleteAllowed(job)
    <3>1. /\ remote' = [remote EXCEPT ![job.uid] = Absent] /\ push' = Wrote(p, job, job)
          /\ UNCHANGED <<local, enabled, pushed, etags, astray>> /\ job.do = "remove"
      BY <1>7, <2>2 DEF DeleteEvent
    <3>2. Absent.text = push[p].set[job.uid] /\ Absent.etag <= etags' /\ etags <= etags' /\ etags' \in 0..MaxEtag
          /\ job.etag <= etags' /\ job.do \in Writes
      BY <1>1, <1>2, <3>1, NothingIs DEF Writes
    <3>3. /\ push' \in [Pushes -> PushRecord] /\ (\A q \in Pushes \ {p} : push'[q] = push[q])
          /\ push'[p].todo = push[p].todo \ {job} /\ push'[p].wrote = {job} /\ push'[p].on = push[p].on
          /\ push'[p].set = push[p].set /\ push'[p].alone = push[p].alone /\ push'[p].clean = push[p].clean
      BY <1>1, <3>1 DEF Wrote, PushRecord
    <3>. QED
      BY <1>1, <3>1, <3>2, <3>3, NothingIs, DoneJobsKeep
  <2>. QED
    BY <2>1, <2>2
<1>. QED
  BY <1>3, <1>4, <1>6, <1>7

\* A note that agrees with the calendar makes its row true, and one that does not
\* is astray from then on.
LEMMA NotesKeep ==
    ASSUME DavInv, NEW p \in Pushes, Remember(p)
    PROVE  DavInv'
<1> USE DavAssumption
<1>1. /\ DavTypeOK /\ remote \in [Events -> HeldRecord] /\ pushed \in [Events -> KnownRecord]
      /\ push \in [Pushes -> PushRecord] /\ etags \in 0..MaxEtag
  BY DavTypesAre DEF DavInv
<1>2. PICK job \in push[p].wrote :
        /\ pushed' = [pushed EXCEPT ![job.uid] = Recorded(job)]
        /\ push' = [push EXCEPT ![p].wrote = {}]
        /\ astray' = IF job.do \in {"adopt", "forget"} THEN astray
                     ELSE IF Tells(job) THEN astray \ {job.uid} ELSE astray \cup {job.uid}
        /\ UNCHANGED <<local, enabled, remote, etags>>
  BY DEF Remember
<1>3. /\ job \in Jobs /\ job.uid \in Events /\ job.etag \in 0..MaxEtag /\ job.text \in 0..Texts /\ job.etag <= etags
      /\ remote[job.uid].phone /\ remote[job.uid].text # 0 => job.etag # remote[job.uid].etag
      /\ push[p].on /\ \A other \in push[p].wrote : other = job
  BY <1>1 DEF PushRecord, Jobs, DavInv, SendsItsSet, PhonesAreUnknown
<1> DEFINE row == Recorded(job)
<1>4. /\ row \in KnownRecord /\ row.etag \in {0, job.etag}
      /\ job.do \in {"create", "update", "adopt"} => row.kept /\ row.text = job.text
      /\ job.do = "forget" => row.kept = pushed[job.uid].kept /\ row.text = pushed[job.uid].text
      /\ job.do = "remove" => ~row.kept
  <2>1. CASE job.do \in {"create", "update", "adopt"}
    BY <1>3, <2>1 DEF Recorded, KnownRecord
  <2>2. CASE job.do = "forget"
    BY <1>1, <1>3, <2>2 DEF Recorded, KnownRecord
  <2>3. CASE job.do = "remove"
    BY <1>3, <2>3, NothingIs DEF Recorded
  <2>. QED
    BY <1>3, <2>1, <2>2, <2>3 DEF Jobs
<1>5. pushed' = [pushed EXCEPT ![job.uid] = row]
  BY <1>2
<1> HIDE DEF row
<1>6. /\ pushed' \in [Events -> KnownRecord] /\ pushed'[job.uid] = row
      /\ \A e \in Events : e # job.uid => pushed'[e] = pushed[e]
  BY <1>1, <1>3, <1>4, <1>5
<1>7. /\ push' \in [Pushes -> PushRecord] /\ (\A q \in Pushes \ {p} : push'[q] = push[q])
      /\ push'[p].todo = push[p].todo /\ push'[p].wrote = {} /\ push'[p].on = push[p].on
      /\ push'[p].set = push[p].set /\ push'[p].alone = push[p].alone /\ push'[p].clean = push[p].clean
  BY <1>1, <1>2 DEF PushRecord
<1>8. astray' \subseteq Events /\ \A e \in Events \ {job.uid} : e \in astray' <=> e \in astray
  BY <1>1, <1>2, <1>3 DEF DavTypeOK
<1>9. DavTypeOK'
  BY <1>1, <1>2, <1>6, <1>7, <1>8 DEF DavTypeOK, PushRecord, KnownRecord
<1>10. SendsItsSet' /\ NotesAreTrue'
  BY <1>2, <1>7 DEF DavInv, SendsItsSet, NotesAreTrue
<1>11. PhonesAreUnknown'
  <2>1. /\ row.etag <= etags
        /\ remote[job.uid].phone /\ remote[job.uid].text # 0 => row.etag # remote[job.uid].etag
    BY <1>1, <1>3, <1>4 DEF DavInv, PhonesAreUnknown
  <2>2. \A q \in Pushes : push'[q].todo \cup push'[q].wrote \subseteq push[q].todo \cup push[q].wrote
    BY <1>7
  <2>. QED
    BY <1>2, <1>6, <2>1, <2>2 DEF DavInv, PhonesAreUnknown
<1>12. RowsAreTrue'
  <2>1. ASSUME NEW e \in Events \ astray', e # job.uid
        PROVE  \/ Unnoted(e)' \/ remote'[e].phone
               \/ pushed'[e].kept /\ pushed'[e].text \in {0, remote'[e].text}
               \/ ~pushed'[e].kept /\ remote'[e].text = 0
    <3>1. Unnoted(e) => Unnoted(e)'
      BY <1>3, <1>7, <2>1 DEF Unnoted
    <3>. QED
      BY <1>2, <1>6, <1>8, <2>1, <3>1 DEF DavInv, RowsAreTrue
  <2>2. ASSUME job.uid \notin astray', ~remote[job.uid].phone, job.do \in Writes
        PROVE  \/ Unnoted(job.uid)'
               \/ row.kept /\ row.text \in {0, remote[job.uid].text}
               \/ ~row.kept /\ remote[job.uid].text = 0
    <3>1. Tells(job)
      BY <1>2, <2>2 DEF Writes
    <3>2. CASE job.do = "remove"
      BY <1>4, <2>2, <3>1, <3>2 DEF Tells
    <3>3. CASE job.do \in {"create", "update"}
      <4>1. job.etag = remote[job.uid].etag
        BY <2>2, <3>1, <3>3 DEF Tells
      <4>2. job.text = remote[job.uid].text
        BY <2>2, <3>3, <4>1 DEF DavInv, NotesAreTrue
      <4>. QED
        BY <1>4, <3>3, <4>2
    <3>. QED
      BY <2>2, <3>2, <3>3 DEF Writes
  <2>3. ASSUME job.uid \notin astray', ~remote[job.uid].phone, job.do \in {"adopt", "forget"}
        PROVE  \/ Unnoted(job.uid)'
               \/ row.kept /\ row.text \in {0, remote[job.uid].text}
               \/ ~row.kept /\ remote[job.uid].text = 0
    <3>1. job.uid \notin astray /\ job.uid \in Events
      BY <1>2, <1>3, <2>3
    <3>2. Unnoted(job.uid) => Unnoted(job.uid)'
      BY <1>3, <1>7, <2>3 DEF Unnoted, Writes
    <3>3. CASE job.do = "adopt"
      BY <1>4, <3>3 DEF DavInv, NotesAreTrue
    <3>4. CASE job.do = "forget"
      BY <1>4, <2>3, <3>1, <3>2, <3>4 DEF DavInv, RowsAreTrue
    <3>. QED
      BY <2>3, <3>3, <3>4
  <2>. QED
    BY <1>2, <1>3, <1>6, <2>1, <2>2, <2>3 DEF RowsAreTrue, Jobs, Writes
<1>13. CleanSoFar'
  <2>1. ASSUME NEW e \in Events, push[p].on, push[p].alone, push[p].clean
        PROVE  Settled(p, e) \/ TakenForUnchanged(p, e)' \/ \E some \in push[p].todo : some.uid = e
    <3>1. Settled(p, job.uid)
      BY <2>1 DEF DavInv, CleanSoFar
    <3>2. e # job.uid /\ TakenForUnchanged(p, e) => TakenForUnchanged(p, e)'
      BY <1>6, <1>7, <1>8 DEF TakenForUnchanged
    <3>. QED
      BY <2>1, <3>1, <3>2 DEF DavInv, CleanSoFar
  <2>2. \A q \in Pushes : push'[q].on => push[q].on
    BY <1>7
  <2>3. \A q \in Pushes \ {p} : ~(push'[q].on /\ push'[q].alone)
    BY <1>3, <1>7 DEF DavInv, CleanSoFar
  <2>4. push'[p].alone => \A q \in Pushes \ {p} : ~push'[q].on
    BY <1>3, <1>7 DEF DavInv, CleanSoFar
  <2>5. \A e \in Events : Settled(p, e)' <=> Settled(p, e)
    BY <1>2, <1>7 DEF Settled
  <2>. QED
    BY <1>7, <2>1, <2>3, <2>4, <2>5 DEF CleanSoFar
<1>. QED
  BY <1>9, <1>10, <1>11, <1>12, <1>13 DEF DavInv

LEMMA DavStep == DavInv /\ [DavNext]_davVars => DavInv'
<1> SUFFICES ASSUME DavInv, [DavNext]_davVars PROVE DavInv' OBVIOUS
<1>1. CASE UNCHANGED davVars
  BY <1>1 DEF davVars, DavInv, DavTypeOK, SendsItsSet, PhonesAreUnknown, NotesAreTrue, RowsAreTrue, Unnoted, CleanSoFar, Settled, TakenForUnchanged
<1>2. CASE SetPushEnabled
  <2>1. UNCHANGED <<local, remote, pushed, etags, push, astray>> /\ enabled' \in BOOLEAN
    BY <1>2, DavTypesAre DEF DavInv, SetPushEnabled
  <2>2. DavTypeOK'
    BY <2>1 DEF DavInv, DavTypeOK
  <2>. QED
    BY <2>1, <2>2 DEF DavInv, SendsItsSet, PhonesAreUnknown, NotesAreTrue, RowsAreTrue, Unnoted, CleanSoFar, Settled, TakenForUnchanged
<1>3. ASSUME NEW e \in Events, EditEvent(e) \/ EditOnPhone(e)
      PROVE  DavInv'
  BY <1>3, EditsKeep, PhoneEditsKeep
<1>4. ASSUME NEW p \in Pushes, StartPush(p) \/ Remember(p) \/ FinishPush(p) \/ BreakOff(p)
      PROVE  DavInv'
  BY <1>4, StartingKeeps, NotesKeep, EndingKeeps
<1>5. ASSUME NEW p \in Pushes, NEW job \in push[p].todo,
             PutEvent(p, job) \/ PutConflict(p, job) \/ DeleteEvent(p, job) \/ WriteFails(p, job)
      PROVE  DavInv'
  BY <1>5, JobsKeep
<1>. QED
  BY <1>1, <1>2, <1>3, <1>4, <1>5 DEF DavNext

LEMMA DavAlways == DavSpec => []DavInv
BY DavInitially, DavStep, PTL DEF DavSpec

\* A push that was clean and alone leaves the calendar as its set has it; of what an
\* earlier push wrote and did not note, or noted late, it leaves alone what the rows
\* take for unchanged, and nothing else (services/caldav-sync.js:130-132, 163-165).
THEOREM CleanPushes == DavSpec => []CleanPushIsTrue
<1>1. DavInv => CleanPushIsTrue
  BY DEF DavInv, CleanSoFar, Settled, TakenForUnchanged, CleanPushIsTrue
<1>. QED
  BY <1>1, DavAlways, PTL

LEMMA PhonesStand ==
    ASSUME DavInv, [DavNext]_davVars, NEW e \in Events,
           remote[e].phone, remote[e].text # 0, remote'[e] # remote[e]
    PROVE  \/ remote'[e].phone \/ ~\E p \in Pushes : push'[p].wrote # push[p].wrote
           \/ remote'[e] = Absent /\ \E p \in Pushes : Job("remove", e, 0, 0) \in push[p].todo
<1>1. /\ DavTypeOK /\ remote \in [Events -> HeldRecord] /\ push \in [Pushes -> PushRecord]
  BY DavTypesAre DEF DavInv
<1>2. CASE \E f \in Events : EditOnPhone(f)
  <2>1. push' = Shaken
    BY <1>2 DEF EditOnPhone
  <2>2. \A p \in Pushes : push'[p].wrote = push[p].wrote
    BY <1>1, <2>1, ShakenIs
  <2>. QED
    BY <2>2
<1>3. ASSUME NEW p \in Pushes, NEW job \in push[p].todo, PutEvent(p, job) \/ DeleteEvent(p, job)
      PROVE  remote'[e] = Absent /\ Job("remove", e, 0, 0) \in push[p].todo
  <2>1. /\ job \in Jobs /\ remote[e].etag # 0 /\ job.uid \in Events
        /\ job.uid = e => job.etag # remote[e].etag
        /\ job.do = "remove" => job.text = 0
    BY <1>1, <1>3 DEF PushRecord, Jobs, DavInv, PhonesAreUnknown, SendsItsSet
  <2>2. CASE PutEvent(p, job)
    BY <1>1, <2>1, <2>2 DEF PutEvent, PutAllowed
  <2>3. CASE DeleteEvent(p, job)
    <3>1. DeleteAllowed(job) /\ remote' = [remote EXCEPT ![job.uid] = Absent] /\ job.do = "remove" /\ job.uid = e
      BY <1>1, <2>1, <2>3 DEF DeleteEvent
    <3>2. job.etag = 0
      BY <2>1, <3>1 DEF DeleteAllowed
    <3>3. job = Job("remove", e, 0, 0)
      BY <2>1, <3>1, <3>2 DEF Job, Jobs
    <3>. QED
      BY <1>1, <2>1, <3>1, <3>3
  <2>. QED
    BY <1>3, <2>2, <2>3
<1>4. ASSUME UNCHANGED remote PROVE FALSE
  BY <1>4
<1>5. ASSUME NEW p \in Pushes,
             \/ StartPush(p) \/ Remember(p) \/ FinishPush(p) \/ BreakOff(p)
             \/ \E job \in push[p].todo : PutConflict(p, job) \/ WriteFails(p, job)
      PROVE  UNCHANGED remote
  BY <1>5 DEF StartPush, Remember, FinishPush, BreakOff, PutConflict, WriteFails
<1>6. ASSUME SetPushEnabled \/ UNCHANGED davVars \/ \E f \in Events : EditEvent(f)
      PROVE  UNCHANGED remote
  BY <1>6 DEF SetPushEnabled, davVars, EditEvent
<1>. QED
  BY <1>2, <1>3, <1>4, <1>5, <1>6 DEF DavNext

\* A push takes from a phone only what the household has dropped and whose etag it
\* has forgotten (services/caldav-sync.js:13-14, services/caldav.js:372-375).
THEOREM PhonesAreHeard == DavSpec => PhoneEditsStand
<1>1. DavInv /\ [DavNext]_davVars =>
        [\A e \in Events :
           remote[e].phone /\ remote[e].text # 0 /\ remote'[e] # remote[e] =>
             \/ remote'[e].phone \/ ~\E p \in Pushes : push'[p].wrote # push[p].wrote
             \/ remote'[e] = Absent /\ \E p \in Pushes : Job("remove", e, 0, 0) \in push[p].todo]_davVars
  BY PhonesStand
<1>. QED
  BY <1>1, DavAlways, PTL DEF DavSpec, PhoneEditsStand

------------------------------------------------------------------------------
(***************************************************************************)
(* A subscribed calendar comes up in its turn, for any number of rows, any *)
(* batch, any number of passes at a time and any refreshes by hand         *)
(* (Feeds).                                                                *)
(*                                                                         *)
(* The passes that left a calendar out and the subscribed rows that were   *)
(* read before it are together fewer than the rows; while a pass that      *)
(* counts for it is under way, they are fewer by one more, or the pass has *)
(* still to read one of those rows (InTurn).                               *)
(***************************************************************************)
FeedsSpec == FeedsInit /\ [][FeedsNext]_feedVars

ReaderRecord == [todo : SUBSET Feeds, answer : SUBSET [feed : Feeds, text : 0..Contents],
                 left : SUBSET Feeds]

\* The subscribed rows that were read before this one.
InFront(f) == Ahead(Kept("url"), f)

Fewer(f, n) == missed[f] + Cardinality(InFront(f)) + n < Cardinality(Feeds)
CountedOnce ==
    /\ \A r \in Readers : reader[r].left \subseteq Kept("url")
    /\ \A r, q \in Readers : \A f \in reader[r].left \cap reader[q].left : r = q
InTurn ==
    \A f \in Kept("url") :
        /\ Fewer(f, 0)
        /\ \A r \in Readers :
              f \in reader[r].left => Fewer(f, 1) \/ reader[r].todo \cap InFront(f) # {}

FeedsInv == FeedsTypeOK /\ CountedOnce /\ InTurn

LEMMA FeedsTypesAre ==
    ASSUME FeedsTypeOK
    PROVE  /\ rows \in [Feeds -> [kind : {"none", "url", "file"}, text : 0..Contents]]
           /\ ByAge(syncedBefore, Present) /\ due \subseteq Present /\ listed \subseteq Feeds
           /\ origin \in [Feeds -> 1..Contents] /\ reader \in [Readers -> ReaderRecord]
           /\ Passes \subseteq Readers /\ "hand" \in Readers
           /\ missed \in [Feeds -> Nat] /\ Cardinality(Feeds) \in Nat
           /\ Kept("url") \subseteq Present /\ Present \subseteq Feeds
<1>1. /\ Kept("url") \subseteq Present /\ Present \subseteq Feeds /\ Cardinality(Feeds) \in Nat
      /\ Passes \subseteq Readers /\ "hand" \in Readers
  BY FeedsAssumption, FS_CardinalityType DEF Kept, Present, Readers
<1>. QED
  BY <1>1 DEF FeedsTypeOK, ReaderRecord

LEMMA RestIs ==
    AtRest \in ReaderRecord /\ AtRest.todo = {} /\ AtRest.answer = {} /\ AtRest.left = {}
BY DEF AtRest, ReaderRecord

-----------------------------------------------------------------------------
(* The order of the rows.                                                  *)

LEMMA LeavingOrders ==
    ASSUME NEW f, ByAge(syncedBefore, Present)
    PROVE  ByAge(Without(f), Present \ {f})
BY DEF ByAge, Without

LEMMA ArrivingOrders ==
    ASSUME NEW f, ByAge(syncedBefore, Present)
    PROVE  ByAge(Youngest(f), Present \cup {f})
<1>1. ByAge(Without(f), Present \ {f})
  BY LeavingOrders
<1>2. Youngest(f) = Without(f) \cup ((Present \ {f}) \X {f})
  BY DEF Youngest
<1> DEFINE o == Youngest(f)
           fs == Present \cup {f}
<1>3. /\ o \subseteq fs \X fs
      /\ \A g \in fs : <<f, g>> \notin o
      /\ \A g \in fs : g # f => <<g, f>> \in o
      /\ \A g, h \in Present \ {f} : <<g, h>> \in o <=> <<g, h>> \in Without(f)
  BY <1>1, <1>2 DEF ByAge
<1> HIDE DEF o
<1>4. \A g, h \in fs : g # h <=> <<g, h>> \in o \/ <<h, g>> \in o
  BY <1>1, <1>3 DEF ByAge
<1>5. \A g, h, k \in fs : <<g, h>> \in o /\ <<h, k>> \in o => <<g, k>> \in o
  BY <1>1, <1>3 DEF ByAge
<1>6. ByAge(o, fs)
  BY <1>3, <1>4, <1>5 DEF ByAge
<1>. QED
  BY <1>6 DEF o

\* A row that was read just now is ahead of nobody, and nobody else has moved.
LEMMA NobodyMovesUp ==
    ASSUME NEW f, NEW g, NEW h
    PROVE  /\ <<g, h>> \in Without(f) => <<g, h>> \in syncedBefore /\ g # f /\ h # f
           /\ h # f /\ <<g, h>> \in Youngest(f) => <<g, h>> \in syncedBefore /\ g # f
BY DEF Without, Youngest

LEMMA LeastOf ==
    ASSUME NEW T \in SUBSET Nat, T # {}
    PROVE  \E x \in T : \A y \in T : x <= y
<1> DEFINE Lower == {ss \in Nat \X Nat : ss[1] < ss[2]}
<1>1. IsWellFoundedOn(Lower, Nat)
  BY NatLessThanWellFounded DEF OpToRel
<1> HIDE DEF Lower
<1>2. PICK x \in T : \A y \in T : ~(<<y, x>> \in Lower)
  BY <1>1, WFMin
<1>3. \A y \in T : ~(y < x)
  BY <1>2 DEF Lower
<1>. QED
  BY <1>3

\* Some rows have an oldest.
LEMMA OldestIs ==
    ASSUME ByAge(syncedBefore, Present), NEW some \in SUBSET Present, some # {}
    PROVE  \E g \in some : \A h \in some : <<h, g>> \notin syncedBefore
<1> DEFINE Rank(g) == Cardinality(Ahead(some, g))
           T == {Rank(g) : g \in some}
<1>1. IsFiniteSet(some) /\ \A g \in some : Ahead(some, g) \subseteq some
  BY FeedsAssumption, FS_Subset DEF Present, Ahead
<1>2. \A g \in some : IsFiniteSet(Ahead(some, g)) /\ Rank(g) \in Nat
  BY <1>1, FS_Subset, FS_CardinalityType
<1>3. T \in SUBSET Nat /\ T # {}
  BY <1>2
<1>4. PICK x \in T : \A y \in T : x <= y
  BY <1>3, LeastOf
<1>5. PICK g \in some : x = Rank(g)
  BY <1>4
<1>6. ASSUME NEW h \in some, <<h, g>> \in syncedBefore PROVE FALSE
  <2>1. Ahead(some, h) \subseteq Ahead(some, g) /\ h \in Ahead(some, g) /\ h \notin Ahead(some, h)
    BY <1>6 DEF Ahead, ByAge
  <2>2. Rank(h) <= Rank(g) /\ (Rank(g) = Rank(h) => Ahead(some, g) = Ahead(some, h))
    BY <1>2, <2>1, FS_Subset
  <2>3. Rank(g) <= Rank(h) /\ Rank(h) \in Nat /\ Rank(g) \in Nat
    BY <1>2, <1>4, <1>5
  <2> HIDE DEF Rank
  <2>. QED
    BY <2>1, <2>2, <2>3
<1>. QED
  BY <1>6

-----------------------------------------------------------------------------
(* The steps.                                                              *)

\* In front of a row are fewer than all.
LEMMA FewerInFront ==
    ASSUME FeedsTypeOK, NEW f \in Kept("url")
    PROVE  /\ IsFiniteSet(InFront(f)) /\ Cardinality(InFront(f)) \in Nat
           /\ Cardinality(InFront(f)) < Cardinality(Feeds)
<1>1. f \in Feeds /\ f \notin InFront(f) /\ InFront(f) \subseteq Feeds \ {f}
  BY FeedsTypesAre DEF InFront, Ahead, ByAge, Kept
<1>2. /\ IsFiniteSet(Feeds \ {f}) /\ Cardinality(Feeds \ {f}) = Cardinality(Feeds) - 1
      /\ Cardinality(Feeds) \in Nat
  BY <1>1, FeedsAssumption, FS_RemoveElement, FS_CardinalityType
<1>3. IsFiniteSet(InFront(f)) /\ Cardinality(InFront(f)) <= Cardinality(Feeds \ {f})
  BY <1>1, <1>2, FS_Subset
<1>. QED
  BY <1>2, <1>3, FS_CardinalityType

\* The same at the end of a step.
LEMMA FewerInFrontThen ==
    ASSUME FeedsTypeOK', NEW f \in Kept("url")'
    PROVE  /\ IsFiniteSet(InFront(f)') /\ Cardinality(InFront(f)') \in Nat
           /\ Cardinality(InFront(f)') < Cardinality(Feeds) /\ f \in Feeds /\ missed'[f] \in Nat
<1>1. f \in Feeds /\ f \notin InFront(f)' /\ InFront(f)' \subseteq Feeds \ {f} /\ missed'[f] \in Nat
  BY DEF InFront, Ahead, ByAge, Kept, Present, FeedsTypeOK
<1>2. /\ IsFiniteSet(Feeds \ {f}) /\ Cardinality(Feeds \ {f}) = Cardinality(Feeds) - 1
      /\ Cardinality(Feeds) \in Nat
  BY <1>1, FeedsAssumption, FS_RemoveElement, FS_CardinalityType
<1>3. IsFiniteSet(InFront(f)') /\ Cardinality(InFront(f)') <= Cardinality(Feeds \ {f})
  BY <1>1, <1>2, FS_Subset
<1>. QED
  BY <1>1, <1>2, <1>3, FS_CardinalityType

\* Nobody comes in front of a row; when somebody goes, there are fewer.
LEMMA FewerThan ==
    ASSUME FeedsTypeOK, FeedsTypeOK', NEW f \in Kept("url"), f \in Kept("url")',
           InFront(f)' \subseteq InFront(f)
    PROVE  /\ Cardinality(InFront(f)') <= Cardinality(InFront(f))
           /\ InFront(f)' # InFront(f) => Cardinality(InFront(f)') + 1 <= Cardinality(InFront(f))
<1>1. /\ IsFiniteSet(InFront(f)) /\ Cardinality(InFront(f)) \in Nat
      /\ IsFiniteSet(InFront(f)') /\ Cardinality(InFront(f)') \in Nat
  BY FewerInFront, FewerInFrontThen
<1>2. Cardinality(InFront(f)') <= Cardinality(InFront(f))
  BY <1>1, FS_Subset
<1>3. ASSUME InFront(f)' # InFront(f)
      PROVE  Cardinality(InFront(f)') + 1 <= Cardinality(InFront(f))
  <2>1. Cardinality(InFront(f)') # Cardinality(InFront(f))
    BY <1>1, <1>3, FS_Subset
  <2>. QED
    BY <1>1, <1>2, <2>1
<1>. QED
  BY <1>2, <1>3

\* What becomes of a row in a step that leaves all in turn: it is new or was read; or
\* what a pass still counts for it goes on, begins; or a pass has ended and counted.
Starts(f) == missed'[f] = 0 /\ \A r \in Readers : f \notin reader'[r].left
Stays(f) ==
    /\ f \in Kept("url") /\ InFront(f)' \subseteq InFront(f)
    /\ missed'[f] = missed[f]
    /\ \A r \in Readers : f \in reader'[r].left =>
          \/ reader'[r].todo \cap InFront(f)' # {}
          \/ f \in reader[r].left /\ reader[r].todo \cap InFront(f)' \subseteq reader'[r].todo
Counts(f) ==
    /\ f \in Kept("url") /\ InFront(f)' \subseteq InFront(f)
    /\ missed'[f] = missed[f] + 1
    /\ \E r \in Readers : f \in reader[r].left /\ reader[r].todo \cap InFront(f)' = {}
    /\ \A r \in Readers : f \notin reader'[r].left

LEMMA StayingInTurn ==
    ASSUME FeedsInv, FeedsTypeOK', CountedOnce',
           \A f \in Kept("url")' : Starts(f) \/ Stays(f) \/ Counts(f)
    PROVE  FeedsInv'
<1>1. ASSUME NEW f \in Kept("url")'
      PROVE  /\ missed'[f] + Cardinality(InFront(f)') < Cardinality(Feeds)
             /\ \A r \in Readers : f \in reader'[r].left =>
                  \/ missed'[f] + Cardinality(InFront(f)') + 1 < Cardinality(Feeds)
                  \/ reader'[r].todo \cap InFront(f)' # {}
  <2>1. /\ Cardinality(InFront(f)') \in Nat /\ Cardinality(InFront(f)') < Cardinality(Feeds)
        /\ Cardinality(Feeds) \in Nat
    BY FewerInFrontThen, FeedsAssumption, FS_CardinalityType
  <2>2. CASE Starts(f)
    BY <2>1, <2>2 DEF Starts
  <2>3. ASSUME f \in Kept("url"), InFront(f)' \subseteq InFront(f)
        PROVE  /\ Cardinality(InFront(f)) \in Nat /\ missed[f] \in Nat
               /\ missed[f] + Cardinality(InFront(f)) < Cardinality(Feeds)
               /\ \A r \in Readers : f \in reader[r].left =>
                    \/ missed[f] + Cardinality(InFront(f)) + 1 < Cardinality(Feeds)
                    \/ reader[r].todo \cap InFront(f) # {}
               /\ Cardinality(InFront(f)') <= Cardinality(InFront(f))
               /\ InFront(f)' # InFront(f) => Cardinality(InFront(f)') + 1 <= Cardinality(InFront(f))
    <3>1. f \in Feeds /\ missed[f] \in Nat /\ Cardinality(InFront(f)) \in Nat
      BY <2>3, FewerInFront, FeedsTypesAre DEF FeedsInv, Kept
    <3>2. Fewer(f, 0) /\ \A r \in Readers :
              f \in reader[r].left => Fewer(f, 1) \/ reader[r].todo \cap InFront(f) # {}
      BY <2>3 DEF FeedsInv, InTurn
    <3>3. /\ missed[f] + Cardinality(InFront(f)) < Cardinality(Feeds)
          /\ Fewer(f, 1) => missed[f] + Cardinality(InFront(f)) + 1 < Cardinality(Feeds)
      BY <2>1, <3>1, <3>2 DEF Fewer
    <3>. QED
      BY <2>3, <3>1, <3>2, <3>3, FewerThan DEF FeedsInv
  <2>4. CASE Stays(f)
    <3>1. /\ f \in Kept("url") /\ InFront(f)' \subseteq InFront(f) /\ missed'[f] = missed[f]
      BY <2>4 DEF Stays
    <3>2. ASSUME NEW r \in Readers, f \in reader'[r].left, reader'[r].todo \cap InFront(f)' = {}
          PROVE  missed'[f] + Cardinality(InFront(f)') + 1 < Cardinality(Feeds)
      <4>1. f \in reader[r].left /\ reader[r].todo \cap InFront(f)' = {}
        BY <2>4, <3>2 DEF Stays
      <4>2. CASE missed[f] + Cardinality(InFront(f)) + 1 < Cardinality(Feeds)
        BY <2>1, <2>3, <3>1, <4>2
      <4>3. CASE reader[r].todo \cap InFront(f) # {}
        <5>1. InFront(f)' # InFront(f)
          BY <4>1, <4>3
        <5>. QED
          BY <2>1, <2>3, <3>1, <5>1
      <4>. QED
        BY <2>3, <3>1, <4>1, <4>2, <4>3
    <3>. QED
      BY <2>1, <2>3, <3>1, <3>2
  <2>5. CASE Counts(f)
    <3>1. /\ f \in Kept("url") /\ InFront(f)' \subseteq InFront(f) /\ missed'[f] = missed[f] + 1
          /\ \A r \in Readers : f \notin reader'[r].left
      BY <2>5 DEF Counts
    <3>2. PICK r \in Readers : f \in reader[r].left /\ reader[r].todo \cap InFront(f)' = {}
      BY <2>5 DEF Counts
    <3>3. CASE missed[f] + Cardinality(InFront(f)) + 1 < Cardinality(Feeds)
      BY <2>1, <2>3, <3>1, <3>3
    <3>4. CASE reader[r].todo \cap InFront(f) # {}
      <4>1. InFront(f)' # InFront(f)
        BY <3>2, <3>4
      <4>. QED
        BY <2>1, <2>3, <3>1, <4>1
    <3>. QED
      BY <2>3, <3>1, <3>2, <3>3, <3>4
  <2>. QED
    BY <1>1, <2>2, <2>4, <2>5
<1>2. ASSUME NEW f \in Kept("url")' PROVE Fewer(f, 0)' /\ \A r \in Readers :
          f \in reader'[r].left => Fewer(f, 1)' \/ reader'[r].todo \cap InFront(f)' # {}
  <2>1. /\ Cardinality(InFront(f)') \in Nat /\ missed'[f] \in Nat /\ Cardinality(Feeds) \in Nat
    BY FewerInFrontThen, FeedsAssumption, FS_CardinalityType
  <2>2. missed'[f] + Cardinality(InFront(f)') + 0 = missed'[f] + Cardinality(InFront(f)')
    BY <2>1
  <2>. QED
    BY <1>1, <2>2 DEF Fewer
<1>3. InTurn'
  BY <1>2 DEF InTurn
<1>. QED
  BY <1>3 DEF FeedsInv

LEMMA FeedsInitially == FeedsInit => FeedsInv
<1>. SUFFICES ASSUME FeedsInit PROVE FeedsInv
  OBVIOUS
<1>1. /\ listed \in {{}, Feeds} /\ due = {} /\ ByAge(syncedBefore, listed)
      /\ rows = [f \in Feeds |-> IF f \in listed THEN [kind |-> "url", text |-> 1] ELSE NoFeedRow]
      /\ origin = [f \in Feeds |-> 1] /\ reader = [r \in Readers |-> AtRest] /\ errand = NoErrand
      /\ missed = [f \in Feeds |-> 0]
  BY DEF FeedsInit
<1>2. rows \in [Feeds -> [kind : {"none", "url", "file"}, text : 0..Contents]] /\ Present = listed
  BY <1>1, FeedsAssumption DEF NoFeedRow, Present, Kept
<1>3. Cardinality(Feeds) \in Nat /\ 1 \in 1..Contents
  BY FeedsAssumption, FS_CardinalityType
<1>4. FeedsTypeOK
  BY <1>1, <1>2, <1>3, RestIs DEF FeedsTypeOK, ReaderRecord
<1>5. \A r \in Readers : reader[r].left = {}
  BY <1>1, RestIs
<1>6. ASSUME NEW f \in Kept("url") PROVE Fewer(f, 0)
  <2>1. missed[f] = 0
    BY <1>1 DEF Kept
  <2>2. Cardinality(InFront(f)) \in Nat /\ Cardinality(InFront(f)) < Cardinality(Feeds)
    BY <1>4, FewerInFront
  <2>. QED
    BY <1>3, <2>1, <2>2 DEF Fewer
<1>. QED
  BY <1>4, <1>5, <1>6 DEF FeedsInv, CountedOnce, InTurn

LEMMA AddFeedKeeps ==
    ASSUME FeedsInv, NEW f \in Feeds, NEW kind \in {"url", "file"}, AddFeed(f, kind)
    PROVE  FeedsInv'
<1>1. FeedsTypeOK /\ CountedOnce
  BY DEF FeedsInv
<1>2. /\ rows' = [rows EXCEPT ![f] = [kind |-> kind, text |-> origin[f]]] /\ rows[f].kind = "none"
      /\ syncedBefore' = Youngest(f) /\ missed' = [missed EXCEPT ![f] = 0]
      /\ errand' = [do |-> "list", feed |-> f] /\ UNCHANGED <<due, listed, origin, reader>>
  BY DEF AddFeed
<1>3. origin[f] \in 0..Contents
  BY <1>1, FeedsTypesAre, FeedsAssumption
<1>4. rows' \in [Feeds -> [kind : {"none", "url", "file"}, text : 0..Contents]]
  BY <1>1, <1>2, <1>3, FeedsTypesAre
<1>5. \A g \in Feeds : rows'[g].kind = IF g = f THEN kind ELSE rows[g].kind
  BY <1>1, <1>2, FeedsTypesAre
<1>6. /\ Present' = Present \cup {f} /\ Kept("url")' \subseteq Kept("url") \cup {f}
      /\ Kept("url") \subseteq Kept("url")' /\ f \notin Kept("url")
  BY <1>2, <1>5 DEF Present, Kept
<1>7. ByAge(syncedBefore', Present')
  BY <1>1, <1>2, <1>6, ArrivingOrders, FeedsTypesAre
<1>8. FeedsTypeOK'
  BY <1>1, <1>2, <1>4, <1>6, <1>7, FeedsTypesAre DEF FeedsTypeOK, ReaderRecord
<1>9. CountedOnce'
  BY <1>1, <1>2, <1>6 DEF CountedOnce
<1>10. ASSUME NEW g \in Kept("url")', g # f
       PROVE  g \in Kept("url") /\ missed'[g] = missed[g] /\ InFront(g)' \subseteq InFront(g)
  BY <1>1, <1>2, <1>5, <1>6, <1>10, NobodyMovesUp, FeedsTypesAre DEF InFront, Ahead, Kept
<1>11. Starts(f)
  BY <1>1, <1>2, <1>6, FeedsTypesAre DEF Starts, CountedOnce
<1>12. ASSUME NEW g \in Kept("url")', g # f PROVE Stays(g)
  BY <1>2, <1>10, <1>12 DEF Stays
<1>. QED
  BY <1>8, <1>9, <1>11, <1>12, StayingInTurn

\* Rows that no pass counts for any more.
LEMMA NotCounted ==
    ASSUME FeedsTypeOK, NEW f
    PROVE  /\ CountsNot(f) \in [Readers -> ReaderRecord]
           /\ \A r \in Readers : /\ CountsNot(f)[r].todo = reader[r].todo
                                 /\ CountsNot(f)[r].answer = reader[r].answer
                                 /\ CountsNot(f)[r].left = reader[r].left \ {f}
<1>1. \A r \in Readers : reader[r] \in ReaderRecord
  BY FeedsTypesAre
<1>2. \A r \in Readers : CountsNot(f)[r] = [reader[r] EXCEPT !.left = reader[r].left \ {f}]
  BY <1>1 DEF CountsNot
<1>3. \A r \in Readers :
         /\ [reader[r] EXCEPT !.left = reader[r].left \ {f}] \in ReaderRecord
         /\ [reader[r] EXCEPT !.left = reader[r].left \ {f}].todo = reader[r].todo
         /\ [reader[r] EXCEPT !.left = reader[r].left \ {f}].answer = reader[r].answer
         /\ [reader[r] EXCEPT !.left = reader[r].left \ {f}].left = reader[r].left \ {f}
  BY <1>1 DEF ReaderRecord
<1>4. CountsNot(f) = [r \in Readers |-> CountsNot(f)[r]]
  BY DEF CountsNot
<1>. QED
  BY <1>2, <1>3, <1>4

LEMMA RemoveFeedKeeps ==
    ASSUME FeedsInv, NEW f \in Feeds, RemoveFeed(f)
    PROVE  FeedsInv'
<1>1. FeedsTypeOK /\ CountedOnce
  BY DEF FeedsInv
<1>2. /\ rows' = [rows EXCEPT ![f] = NoFeedRow]
      /\ syncedBefore' = Without(f) /\ due' = due \ {f} /\ reader' = CountsNot(f)
      /\ errand' = [do |-> "unlist", feed |-> f] /\ UNCHANGED <<listed, origin, missed>>
  BY DEF RemoveFeed
<1>3. rows' \in [Feeds -> [kind : {"none", "url", "file"}, text : 0..Contents]]
  BY <1>1, <1>2, FeedsTypesAre, FeedsAssumption DEF NoFeedRow
<1>4. \A g \in Feeds : rows'[g].kind = IF g = f THEN "none" ELSE rows[g].kind
  BY <1>1, <1>2, FeedsTypesAre DEF NoFeedRow
<1>5. Present' = Present \ {f} /\ Kept("url")' = Kept("url") \ {f}
  BY <1>4 DEF Present, Kept
<1>6. ByAge(syncedBefore', Present')
  BY <1>1, <1>2, <1>5, LeavingOrders, FeedsTypesAre
<1>7. FeedsTypeOK'
  BY <1>1, <1>2, <1>3, <1>5, <1>6, NotCounted, FeedsTypesAre DEF FeedsTypeOK, ReaderRecord
<1>8. CountedOnce'
  BY <1>1, <1>2, <1>5, NotCounted DEF CountedOnce
<1>9. ASSUME NEW g \in Kept("url")' PROVE Stays(g)
  <2>1. g \in Kept("url") /\ missed'[g] = missed[g] /\ InFront(g)' \subseteq InFront(g)
    BY <1>2, <1>5, <1>9, NobodyMovesUp DEF InFront, Ahead
  <2>. QED
    BY <1>1, <1>2, <2>1, NotCounted DEF Stays
<1>. QED
  BY <1>7, <1>8, <1>9, StayingInTurn

\* A pass that leaves a calendar out takes one that was in front of it.
LEMMA OneIsTaken ==
    ASSUME FeedsTypeOK, NEW old \in SUBSET Present, NEW f \in old, f \in Kept("url"), ~Buried(f),
           f \notin TakeBatch(old)
    PROVE  \E g \in TakeBatch(old) : g \in InFront(f)
<1> DEFINE ahead == Ahead(old, f)
           files == Ahead(Kept("file"), f)
           some == ahead \ files
<1>0. ByAge(syncedBefore, Present) /\ Present \subseteq Feeds
  BY FeedsTypesAre
<1>1. IsFiniteSet(files) /\ Cardinality(files) \in Nat /\ Cardinality(files) < Batch
  <2>1. files \subseteq Feeds
    BY DEF Kept, Ahead
  <2>. QED
    BY <2>1, FeedsAssumption, FS_Subset, FS_CardinalityType DEF Buried
<1>2. IsFiniteSet(ahead) /\ Cardinality(ahead) \in Nat /\ Cardinality(ahead) >= Batch
  <2>1. ahead \subseteq Feeds
    BY <1>0 DEF Ahead
  <2>2. IsFiniteSet(ahead) /\ Cardinality(ahead) \in Nat
    BY <2>1, FeedsAssumption, FS_Subset, FS_CardinalityType
  <2>. QED
    BY <2>2, FeedsAssumption DEF TakeBatch
<1>3. some # {}
  <2>1. ASSUME ahead \subseteq files PROVE FALSE
    <3>1. Cardinality(ahead) <= Cardinality(files)
      BY <1>1, <2>1, FS_Subset
    <3> HIDE DEF ahead, files
    <3>. QED
      BY <1>1, <1>2, <3>1, FeedsAssumption
  <2>. QED
    BY <2>1
<1>4. some \in SUBSET Present
  BY DEF Ahead
<1>5. PICK g \in some : \A h \in some : <<h, g>> \notin syncedBefore
  BY <1>0, <1>3, <1>4, OldestIs
<1>6. Ahead(old, g) \subseteq files
  <2>. SUFFICES ASSUME NEW h \in old, <<h, g>> \in syncedBefore, h \notin files PROVE FALSE
    BY DEF Ahead
  <2>1. <<h, f>> \in syncedBefore
    BY <1>0, <1>5 DEF Ahead, ByAge
  <2>. QED
    BY <1>5, <2>1 DEF Ahead
<1>7. Cardinality(Ahead(old, g)) < Batch
  <2>1. Cardinality(Ahead(old, g)) <= Cardinality(files) /\ Cardinality(Ahead(old, g)) \in Nat
    BY <1>1, <1>6, FS_Subset, FS_CardinalityType
  <2> HIDE DEF files
  <2>. QED
    BY <1>1, <2>1, FeedsAssumption
<1>8. g \in old /\ g \in Kept("url") /\ <<g, f>> \in syncedBefore
  BY <1>5, FeedsTypesAre DEF Ahead, Kept, Present
<1>. QED
  BY <1>7, <1>8 DEF TakeBatch, Ahead, InFront

LEMMA StartPassKeeps == ASSUME FeedsInv, NEW p \in Passes, StartPass(p) PROVE FeedsInv'
<1>1. FeedsTypeOK /\ CountedOnce /\ p \in Readers
  BY DEF FeedsInv, Readers
<1>2. UNCHANGED <<rows, syncedBefore, listed, origin, errand, missed>> /\ reader[p].todo = {}
  BY DEF StartPass
<1>3. PICK old \in SUBSET Present :
        LET todo == TakeBatch(old)
            left == {f \in (old \cap Kept("url")) \ (todo \cup Counted) : ~Buried(f)}
        IN  /\ due' = old
            /\ reader' = [reader EXCEPT ![p] = [todo |-> todo, answer |-> {}, left |-> left]]
  BY DEF StartPass
<1> DEFINE todo == TakeBatch(old)
           left == {f \in (old \cap Kept("url")) \ (todo \cup Counted) : ~Buried(f)}
           q == [todo |-> todo, answer |-> {}, left |-> left]
<1>4. todo \subseteq old /\ old \subseteq Feeds /\ left \subseteq old \cap Kept("url")
  BY <1>1, FeedsTypesAre DEF TakeBatch
<1>5. q \in ReaderRecord /\ q.todo = todo /\ q.left = left
  BY <1>4 DEF ReaderRecord
<1>6. /\ reader' \in [Readers -> ReaderRecord]
      /\ \A r \in Readers : reader'[r] = IF r = p THEN q ELSE reader[r]
  BY <1>1, <1>3, <1>5, FeedsTypesAre
<1>7. Present' = Present /\ Kept("url")' = Kept("url") /\ \A f : InFront(f)' = InFront(f)
  BY <1>2 DEF Present, Kept, InFront, Ahead
<1>8. FeedsTypeOK'
  BY <1>1, <1>2, <1>3, <1>6, <1>7, FeedsTypesAre DEF FeedsTypeOK, ReaderRecord
<1>9. \A f \in left : f \in old /\ f \in Kept("url") /\ f \notin todo /\ ~Buried(f)
                      /\ \A r \in Readers : f \notin reader[r].left
  BY DEF Counted
<1>10. \A f \in left : todo \cap InFront(f) # {}
  BY <1>1, <1>9, OneIsTaken
<1> HIDE DEF todo, left, q
<1>11. CountedOnce'
  BY <1>1, <1>4, <1>5, <1>6, <1>7, <1>9 DEF CountedOnce
<1>12. ASSUME NEW f \in Kept("url")' PROVE Stays(f)
  <2>1. ASSUME NEW r \in Readers, f \in reader'[r].left
        PROVE  \/ reader'[r].todo \cap InFront(f)' # {}
               \/ f \in reader[r].left /\ reader[r].todo \cap InFront(f)' \subseteq reader'[r].todo
    BY <1>5, <1>6, <1>7, <1>10, <2>1
  <2>. QED
    BY <1>2, <1>7, <2>1 DEF Stays
<1>. QED
  BY <1>8, <1>11, <1>12, StayingInTurn

\* What reading one row does to its reader.
LEMMA GoesOn ==
    ASSUME NEW q \in ReaderRecord, NEW f
    PROVE  /\ Onward(q, f) \in ReaderRecord
           /\ Onward(q, f).todo = q.todo \ {f}
           /\ Onward(q, f).left = IF q.todo \subseteq {f} THEN {} ELSE q.left
BY DEF Onward, ReaderRecord

LEMMA Counting ==
    ASSUME FeedsTypeOK, NEW q \in ReaderRecord, NEW f
    PROVE  /\ Tally(q, f) \in [Feeds -> Nat]
           /\ \A g \in Feeds : Tally(q, f)[g] = IF q.todo \subseteq {f} /\ g \in q.left
                                              THEN missed[g] + 1 ELSE missed[g]
<1>1. missed \in [Feeds -> Nat]
  BY FeedsTypesAre
<1>. QED
  BY <1>1 DEF Tally

\* A read row is the youngest, or gone.
LEMMA StoreFeedKeeps ==
    ASSUME FeedsInv, NEW r \in Readers, StoreFeed(r)
    PROVE  FeedsInv'
<1>1. FeedsTypeOK /\ CountedOnce
  BY DEF FeedsInv
<1>2. PICK read \in reader[r].answer :
         LET f == read.feed
             there == f \in Present
         IN  /\ rows' = IF there /\ read.text # 0 THEN [rows EXCEPT ![f].text = read.text] ELSE rows
             /\ syncedBefore' = IF there THEN Youngest(f) ELSE syncedBefore
             /\ due' = due \ {f}
             /\ reader' = [CountsNot(f) EXCEPT ![r] = Onward(@, f)]
             /\ missed' = [Tally(reader[r], f) EXCEPT ![f] = 0]
  BY DEF StoreFeed
<1> DEFINE f == read.feed
<1>3. f \in Feeds /\ read.text \in 0..Contents
  BY <1>1, FeedsTypesAre DEF ReaderRecord
<1>4. /\ rows' = IF f \in Present /\ read.text # 0 THEN [rows EXCEPT ![f].text = read.text] ELSE rows
      /\ syncedBefore' = IF f \in Present THEN Youngest(f) ELSE syncedBefore
      /\ due' = due \ {f}
      /\ reader' = [CountsNot(f) EXCEPT ![r] = Onward(CountsNot(f)[r], f)]
      /\ missed' = [Tally(reader[r], f) EXCEPT ![f] = 0]
      /\ UNCHANGED <<listed, origin, errand>>
  BY <1>1, <1>2, NotCounted DEF StoreFeed
<1> HIDE DEF f
<1>5. rows' \in [Feeds -> [kind : {"none", "url", "file"}, text : 0..Contents]]
  BY <1>1, <1>3, <1>4, FeedsTypesAre
<1>6. \A g \in Feeds : rows'[g].kind = rows[g].kind
  BY <1>1, <1>3, <1>4, FeedsTypesAre
<1>7. Present' = Present /\ Kept("url")' = Kept("url")
  BY <1>6 DEF Present, Kept
<1>8. ByAge(syncedBefore', Present')
  <2>1. f \in Present => ByAge(Youngest(f), Present)
    <3>1. f \in Present => Present \cup {f} = Present
      OBVIOUS
    <3>. QED
      BY <1>1, <3>1, ArrivingOrders, FeedsTypesAre
  <2>. QED
    BY <1>1, <1>4, <1>7, <2>1, FeedsTypesAre
<1>9. /\ reader' \in [Readers -> ReaderRecord]
      /\ \A q \in Readers : q # r => /\ reader'[q].todo = reader[q].todo
                                      /\ reader'[q].left = reader[q].left \ {f}
      /\ reader'[r].todo = reader[r].todo \ {f}
      /\ reader'[r].left = IF reader[r].todo \subseteq {f} THEN {} ELSE reader[r].left \ {f}
  <2>1. \A q \in Readers : CountsNot(f)[q] \in ReaderRecord
    BY <1>1, NotCounted
  <2>2. Onward(CountsNot(f)[r], f) \in ReaderRecord
    BY <2>1, GoesOn
  <2>3. /\ reader' \in [Readers -> ReaderRecord]
        /\ \A q \in Readers : reader'[q] = IF q = r THEN Onward(CountsNot(f)[r], f) ELSE CountsNot(f)[q]
    BY <1>1, <1>4, <2>2, NotCounted
  <2>4. /\ Onward(CountsNot(f)[r], f).todo = CountsNot(f)[r].todo \ {f}
        /\ Onward(CountsNot(f)[r], f).left =
              IF CountsNot(f)[r].todo \subseteq {f} THEN {} ELSE CountsNot(f)[r].left
    BY <2>1, GoesOn
  <2>5. \A q \in Readers : /\ CountsNot(f)[q].todo = reader[q].todo
                           /\ CountsNot(f)[q].left = reader[q].left \ {f}
    BY <1>1, NotCounted
  <2>. QED
    BY <2>3, <2>4, <2>5
<1>10. /\ missed' \in [Feeds -> Nat] /\ missed'[f] = 0
       /\ \A g \in Feeds : g # f =>
             missed'[g] = IF reader[r].todo \subseteq {f} /\ g \in reader[r].left
                          THEN missed[g] + 1 ELSE missed[g]
  <2>1. /\ Tally(reader[r], f) \in [Feeds -> Nat]
        /\ \A g \in Feeds : Tally(reader[r], f)[g] =
              IF reader[r].todo \subseteq {f} /\ g \in reader[r].left THEN missed[g] + 1 ELSE missed[g]
    BY <1>1, Counting, FeedsTypesAre
  <2>. QED
    BY <1>3, <1>4, <2>1
<1>11. FeedsTypeOK'
  BY <1>1, <1>4, <1>5, <1>7, <1>8, <1>9, <1>10, FeedsTypesAre DEF FeedsTypeOK, ReaderRecord
<1>12. CountedOnce'
  BY <1>1, <1>7, <1>9 DEF CountedOnce
<1>13. Starts(f)
  BY <1>9, <1>10 DEF Starts
<1>14. ASSUME NEW g \in Kept("url")', g # f PROVE Stays(g) \/ Counts(g)
  <2>1. InFront(g)' \subseteq InFront(g) /\ f \notin InFront(g)'
    <3>1. ASSUME NEW h \in InFront(g)' PROVE h \in InFront(g) /\ h # f
      <4>1. h \in Kept("url") /\ <<h, g>> \in syncedBefore'
        BY <1>7, <3>1 DEF InFront, Ahead
      <4>2. CASE f \in Present
        BY <1>4, <1>14, <4>1, <4>2, NobodyMovesUp DEF InFront, Ahead
      <4>3. CASE f \notin Present
        BY <1>1, <1>4, <4>1, <4>3, FeedsTypesAre DEF InFront, Ahead
      <4>. QED
        BY <4>2, <4>3
    <3>. QED
      BY <3>1
  <2>2. g \in Feeds /\ g \in Kept("url")
    BY <1>7 DEF Kept
  <2>3. CASE reader[r].todo \subseteq {f} /\ g \in reader[r].left
    <3>1. \A q \in Readers : g \notin reader'[q].left
      BY <1>1, <1>9, <2>3 DEF CountedOnce
    <3>2. Counts(g)
      BY <1>10, <1>14, <2>1, <2>2, <2>3, <3>1 DEF Counts
    <3>. QED
      BY <3>2
  <2>4. CASE ~(reader[r].todo \subseteq {f} /\ g \in reader[r].left)
    <3>1. missed'[g] = missed[g]
      BY <1>10, <1>14, <2>2, <2>4
    <3>2. \A q \in Readers : g \in reader'[q].left =>
             g \in reader[q].left /\ reader[q].todo \cap InFront(g)' \subseteq reader'[q].todo
      BY <1>9, <2>1
    <3>. QED
      BY <2>1, <2>2, <3>1, <3>2 DEF Stays
  <2>. QED
    BY <2>3, <2>4
<1>. QED
  BY <1>11, <1>12, <1>13, <1>14, StayingInTurn

\* A row without an address is in front of nobody.
LEMMA SkipRowKeeps ==
    ASSUME FeedsInv, NEW r \in Readers, SkipRow(r)
    PROVE  FeedsInv'
<1>1. FeedsTypeOK /\ CountedOnce
  BY DEF FeedsInv
<1>2. PICK f \in reader[r].todo : /\ rows[f].kind # "url"
                                 /\ reader' = [reader EXCEPT ![r] = Onward(reader[r], f)]
                                 /\ missed' = Tally(reader[r], f)
  BY DEF SkipRow
<1>3. UNCHANGED <<rows, syncedBefore, due, listed, origin, errand>>
  BY DEF SkipRow
<1>4. /\ reader' \in [Readers -> ReaderRecord]
      /\ \A q \in Readers : q # r => reader'[q] = reader[q]
      /\ reader'[r].todo = reader[r].todo \ {f}
      /\ reader'[r].left = IF reader[r].todo \subseteq {f} THEN {} ELSE reader[r].left
  <2>1. reader[r] \in ReaderRecord /\ reader \in [Readers -> ReaderRecord]
    BY <1>1, FeedsTypesAre
  <2>2. Onward(reader[r], f) \in ReaderRecord
    BY <2>1, GoesOn
  <2>3. /\ reader' \in [Readers -> ReaderRecord]
        /\ \A q \in Readers : reader'[q] = IF q = r THEN Onward(reader[r], f) ELSE reader[q]
    BY <1>2, <2>1, <2>2
  <2>. QED
    BY <2>1, <2>3, GoesOn
<1>5. /\ missed' \in [Feeds -> Nat]
      /\ \A g \in Feeds : missed'[g] = IF reader[r].todo \subseteq {f} /\ g \in reader[r].left
                                       THEN missed[g] + 1 ELSE missed[g]
  BY <1>1, <1>2, Counting, FeedsTypesAre
<1>6. /\ Present' = Present /\ Kept("url")' = Kept("url")
      /\ \A g : InFront(g)' = InFront(g) /\ f \notin InFront(g)
  BY <1>2, <1>3 DEF Present, Kept, InFront, Ahead
<1>7. FeedsTypeOK'
  BY <1>1, <1>3, <1>4, <1>5, <1>6, FeedsTypesAre DEF FeedsTypeOK, ReaderRecord
<1>8. CountedOnce'
  BY <1>1, <1>4, <1>6 DEF CountedOnce
<1>9. ASSUME NEW g \in Kept("url")' PROVE Stays(g) \/ Counts(g)
  <2>1. g \in Feeds /\ g \in Kept("url") /\ InFront(g)' = InFront(g) /\ f \notin InFront(g)
    BY <1>6 DEF Kept
  <2>2. CASE reader[r].todo \subseteq {f} /\ g \in reader[r].left
    <3>1. \A q \in Readers : g \notin reader'[q].left
      BY <1>1, <1>4, <2>2 DEF CountedOnce
    <3>2. reader[r].todo \cap InFront(g)' = {}
      BY <2>1, <2>2
    <3>3. missed'[g] = missed[g] + 1
      BY <1>5, <2>1, <2>2
    <3>. QED
      BY <2>1, <2>2, <3>1, <3>2, <3>3 DEF Counts
  <2>3. CASE ~(reader[r].todo \subseteq {f} /\ g \in reader[r].left)
    <3>1. missed'[g] = missed[g]
      BY <1>5, <2>1, <2>3
    <3>2. \A q \in Readers : g \in reader'[q].left =>
             g \in reader[q].left /\ reader[q].todo \cap InFront(g)' \subseteq reader'[q].todo
      BY <1>4, <2>1
    <3>. QED
      BY <2>1, <3>1, <3>2 DEF Stays
  <2>. QED
    BY <2>2, <2>3
<1>. QED
  BY <1>7, <1>8, <1>9, StayingInTurn

\* What changes neither the rows nor their order, and ends no pass that counts.
LEMMA RestKeeps ==
    ASSUME FeedsInv, UNCHANGED <<rows, syncedBefore, due, missed>>, listed' \subseteq Feeds,
           origin' \in [Feeds -> 1..Contents], reader' \in [Readers -> ReaderRecord],
           errand' = NoErrand \/ errand' \in [do : {"list", "unlist"}, feed : Feeds],
           \A r \in Readers : /\ reader'[r].left \subseteq reader[r].left
                              /\ reader'[r].left # {} => reader'[r].todo = reader[r].todo
    PROVE  FeedsInv'
<1>1. FeedsTypeOK /\ CountedOnce
  BY DEF FeedsInv
<1>2. Present' = Present /\ Kept("url")' = Kept("url") /\ \A f : InFront(f)' = InFront(f)
  BY DEF Present, Kept, InFront, Ahead
<1>3. FeedsTypeOK'
  BY <1>1, <1>2, FeedsTypesAre DEF FeedsTypeOK, ReaderRecord
<1>4. CountedOnce'
  BY <1>1, <1>2 DEF CountedOnce
<1>5. ASSUME NEW f \in Kept("url")' PROVE Stays(f)
  BY <1>2, <1>5 DEF Stays
<1>. QED
  BY <1>3, <1>4, <1>5, StayingInTurn

LEMMA FetchingKeeps ==
    ASSUME FeedsInv, NEW r \in Readers, FetchFeed(r)
    PROVE  FeedsInv'
<1>1. /\ listed \subseteq Feeds /\ origin \in [Feeds -> 1..Contents]
      /\ reader \in [Readers -> ReaderRecord]
      /\ errand = NoErrand \/ errand \in [do : {"list", "unlist"}, feed : Feeds]
  BY FeedsTypesAre DEF FeedsInv, FeedsTypeOK
<1>2. PICK f \in reader[r].todo : \E text \in {0, origin[f]} :
         reader' = [reader EXCEPT ![r].answer = {[feed |-> f, text |-> text]}]
  BY DEF FetchFeed
<1>3. PICK text \in {0, origin[f]} : reader' = [reader EXCEPT ![r].answer = {[feed |-> f, text |-> text]}]
  BY <1>2
<1>4. f \in Feeds /\ text \in 0..Contents
  BY <1>1, FeedsAssumption DEF ReaderRecord
<1> DEFINE q == [reader[r] EXCEPT !.answer = {[feed |-> f, text |-> text]}]
<1>5. q \in ReaderRecord /\ q.todo = reader[r].todo /\ q.left = reader[r].left
  BY <1>1, <1>4 DEF ReaderRecord
<1>6. reader' = [reader EXCEPT ![r] = q]
  BY <1>1, <1>3
<1> HIDE DEF q
<1>7. /\ reader' \in [Readers -> ReaderRecord]
      /\ \A x \in Readers : reader'[x].left = reader[x].left /\ reader'[x].todo = reader[x].todo
  BY <1>1, <1>5, <1>6
<1>. QED
  BY <1>1, <1>7, RestKeeps DEF FetchFeed

LEMMA AskingKeeps ==
    ASSUME FeedsInv,
           \/ WriteDocument \/ DropErrand \/ \E r \in Readers : ReaderFails(r)
           \/ \E f \in Feeds : RefreshByHand(f) \/ CalendarChanges(f)
    PROVE  FeedsInv'
<1>1. /\ listed \subseteq Feeds /\ origin \in [Feeds -> 1..Contents]
      /\ reader \in [Readers -> ReaderRecord] /\ "hand" \in Readers
      /\ errand = NoErrand \/ errand \in [do : {"list", "unlist"}, feed : Feeds]
  BY FeedsTypesAre DEF FeedsInv, FeedsTypeOK
<1>2. ASSUME WriteDocument PROVE FeedsInv'
  <2>1. listed' \subseteq Feeds
    BY <1>1, <1>2 DEF WriteDocument
  <2>. QED
    BY <1>1, <1>2, <2>1, RestKeeps DEF WriteDocument
<1>3. ASSUME DropErrand PROVE FeedsInv'
  BY <1>1, <1>3, RestKeeps DEF DropErrand
<1>4. ASSUME NEW r \in Readers, ReaderFails(r) PROVE FeedsInv'
  <2>1. /\ reader' \in [Readers -> ReaderRecord]
        /\ \A x \in Readers : reader'[x] = IF x = r THEN AtRest ELSE reader[x]
    BY <1>1, <1>4, RestIs DEF ReaderFails
  <2>. QED
    BY <1>1, <1>4, <2>1, RestIs, RestKeeps DEF ReaderFails
<1>5. ASSUME NEW f \in Feeds, RefreshByHand(f) PROVE FeedsInv'
  <2>1. reader["hand"] = AtRest /\ reader' = [reader EXCEPT !["hand"].todo = {f}]
    BY <1>5 DEF RefreshByHand
  <2> DEFINE q == [AtRest EXCEPT !.todo = {f}]
  <2>2. q \in ReaderRecord /\ q.left = {}
    BY DEF AtRest, ReaderRecord
  <2>3. reader' = [reader EXCEPT !["hand"] = q]
    BY <1>1, <2>1
  <2> HIDE DEF q
  <2>4. /\ reader' \in [Readers -> ReaderRecord]
        /\ \A x \in Readers : reader'[x] = IF x = "hand" THEN q ELSE reader[x]
    BY <1>1, <2>2, <2>3
  <2>. QED
    BY <1>1, <1>5, <2>2, <2>4, RestKeeps DEF RefreshByHand
<1>6. ASSUME NEW f \in Feeds, CalendarChanges(f) PROVE FeedsInv'
  <2>1. origin' \in [Feeds -> 1..Contents]
    BY <1>1, <1>6, FeedsAssumption DEF CalendarChanges
  <2>. QED
    BY <1>1, <1>6, <2>1, RestKeeps DEF CalendarChanges
<1>. QED
  BY <1>2, <1>3, <1>4, <1>5, <1>6

LEMMA FeedsStep == FeedsInv /\ [FeedsNext]_feedVars => FeedsInv'
<1>. SUFFICES ASSUME FeedsInv, [FeedsNext]_feedVars PROVE FeedsInv'
  OBVIOUS
<1>1. CASE UNCHANGED feedVars
  BY <1>1, RestKeeps, FeedsTypesAre DEF feedVars, FeedsInv, FeedsTypeOK
<1>2. ASSUME NEW f \in Feeds, AddFeed(f, "url") \/ AddFeed(f, "file") PROVE FeedsInv'
  BY <1>2, AddFeedKeeps
<1>3. ASSUME NEW f \in Feeds, RemoveFeed(f) PROVE FeedsInv'
  BY <1>3, RemoveFeedKeeps
<1>4. ASSUME NEW p \in Passes, StartPass(p) PROVE FeedsInv'
  BY <1>4, StartPassKeeps
<1>5. ASSUME NEW r \in Readers, SkipRow(r) \/ FetchFeed(r) \/ StoreFeed(r) PROVE FeedsInv'
  BY <1>5, StoreFeedKeeps, SkipRowKeeps, FetchingKeeps
<1>6. CASE \/ WriteDocument \/ DropErrand \/ \E r \in Readers : ReaderFails(r)
           \/ \E f \in Feeds : RefreshByHand(f) \/ CalendarChanges(f)
  BY <1>6, AskingKeeps
<1>. QED
  BY <1>1, <1>2, <1>3, <1>4, <1>5, <1>6 DEF FeedsNext

\* Of passes that ran to their end, one begun after the other had ended, fewer than there
\* are rows leave a subscribed calendar out that is due and has no batch of imported
\* files ahead of it, however many passes overlap (NobodyIsPassedOver).
THEOREM EveryFeedHasItsTurn == FeedsSpec => []NobodyIsPassedOver
<1>1. FeedsInv => NobodyIsPassedOver
  <2>. SUFFICES ASSUME FeedsInv, NEW f \in Feeds, rows[f].kind = "url" PROVE missed[f] < Cardinality(Feeds)
    BY DEF NobodyIsPassedOver
  <2>1. f \in Kept("url") /\ FeedsTypeOK
    BY DEF Kept, FeedsInv
  <2>2. Cardinality(InFront(f)) \in Nat /\ Cardinality(Feeds) \in Nat /\ missed[f] \in Nat
    BY <2>1, FewerInFront, FeedsTypesAre
  <2>3. Fewer(f, 0)
    BY <2>1 DEF FeedsInv, InTurn
  <2>. QED
    BY <2>2, <2>3 DEF Fewer
<1>. QED
  BY <1>1, FeedsInitially, FeedsStep, PTL DEF FeedsSpec

==============================================================================
