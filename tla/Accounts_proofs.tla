---------------------------- MODULE Accounts_proofs ----------------------------
(***************************************************************************)
(* The theorems of Accounts.  The rows a request has made are told by where *)
(* its handler is; owners, revocations and memberships only ever grow; what *)
(* was true when a request arrived or a token was signed is true for good.  *)
(* The inductive invariant says which facts a request rests on at each of   *)
(* its statements.                                                          *)
(***************************************************************************)
EXTENDS Accounts, TLAPS

-----------------------------------------------------------------------------
(* The inductive invariant.                                                *)

Kinds == {"NONE", "LOGIN", "REFRESH"} \cup Guarded

DeviceRows == [user : Users \cup {None}, name : Names \cup Requests \cup {None},
               revoked : BOOLEAN]
SessionRows == [user : Users \cup {None}, device : Requests \cup {None}, revoked : BOOLEAN]
ClaimSets == [user : Users \cup {None}, device : Requests \cup {None},
              sid : Requests \cup {None}]
Asks == [kind : Kinds, valid : BOOLEAN, user : Users \cup {None},
         device : Requests \cup {None}, sid : Requests \cup {None},
         name : Names \cup Requests \cup {None}, project : Projects \cup {None},
         other : Users \cup {None}, stale : BOOLEAN]

Typed ==
  /\ devices \in [Requests -> DeviceRows]
  /\ sessions \in [Requests -> SessionRows]
  /\ issued \in [Requests -> ClaimSets]
  /\ req \in [Requests -> Asks]
  /\ pc \in [Requests -> Labels]
  /\ tokens \subseteq Requests /\ expired \subseteq Requests
  /\ members \in [Projects -> SUBSET Users]
  /\ faults \in 0 .. MaxFaults

(* Claims that name a session with a refresh token, of their user on their   *)
(* user's device.                                                           *)
Sound(c) ==
  /\ c.user \in Users /\ c.device \in Requests /\ c.sid \in Requests
  /\ sessions[c.sid].user = c.user /\ sessions[c.sid].device = c.device
  /\ devices[c.device].user = c.user
  /\ c.sid \in tokens

(* The statements of each route.                                            *)
Route(kind) ==
  CASE kind = "NONE" -> {"unsent"}
    [] kind = "LOGIN" -> {"arrived", "open", "provision", "answer", "ok", "refused", "failed"}
    [] kind = "REFRESH" -> {"arrived", "session", "device", "answer", "ok", "refused", "failed"}
    [] kind = "LOGOUT" -> {"arrived", "device", "session", "handler", "ok", "refused", "failed"}
    [] kind = "REGISTER" -> {"arrived", "device", "session", "handler", "add device",
                             "add session", "add token", "answer", "ok", "refused", "failed"}
    [] OTHER -> {"arrived", "device", "session", "handler", "existing", "add member", "ok",
                 "refused", "failed"}

(* What a request rests on.                                                 *)
AskSound(r) ==
  /\ pc[r] \in Route(req[r].kind)
  /\ req[r].kind = "LOGIN" =>
       /\ req[r].user \in Users
       /\ req[r].device # None => Registered(req[r].device)
       /\ pc[r] = "open" =>
            req[r].device # None /\ devices[req[r].device].user = req[r].user
       /\ pc[r] = "provision" => req[r].device = None
  /\ req[r].kind = "REFRESH" =>
       /\ req[r].sid \in tokens
       /\ pc[r] \in {"device", "answer", "ok"} =>
            /\ req[r].user = sessions[req[r].sid].user
            /\ req[r].device = sessions[req[r].sid].device
  /\ req[r].kind \in Guarded => Sound(req[r])
  /\ req[r].kind = "REGISTER" => req[r].name \in Names \cup {r}
  /\ req[r].kind = "ADD" => req[r].project \in Projects /\ req[r].other \in Users

(* The rows a request makes, and when.                                      *)
NoRows(r) == devices[r] = NoDevice /\ sessions[r] = NoSession /\ r \notin tokens
NameOf(r) == IF req[r].kind = "LOGIN" THEN r ELSE req[r].name
DeviceFor(r) == IF req[r].kind = "LOGIN" /\ req[r].device # None THEN req[r].device ELSE r

RowsSound(r) ==
  /\ \/ devices[r] = NoDevice
     \/ devices[r].user = req[r].user /\ devices[r].name = NameOf(r)
  /\ \/ sessions[r] = NoSession
     \/ /\ sessions[r].user = req[r].user /\ sessions[r].device = DeviceFor(r)
        /\ devices[DeviceFor(r)].user = req[r].user
  /\ r \in tokens => sessions[r].user # None
  /\ req[r].kind \notin {"LOGIN", "REGISTER"} => NoRows(r)
  /\ req[r].kind = "LOGIN" =>
       /\ pc[r] \in {"arrived", "open", "provision", "refused"} => NoRows(r)
       /\ pc[r] \in {"answer", "ok"} => r \in tokens
       /\ Registered(r) => req[r].device = None /\ r \in tokens
  /\ req[r].kind = "REGISTER" =>
       /\ pc[r] \in {"arrived", "device", "session", "handler", "add device", "refused"}
            => NoRows(r)
       /\ pc[r] = "add session" =>
            Registered(r) /\ sessions[r] = NoSession /\ r \notin tokens
       /\ pc[r] = "add token" => sessions[r].user # None /\ r \notin tokens
       /\ pc[r] \in {"answer", "ok"} => r \in tokens

Granted == \A r \in Requests : AskSound(r) /\ RowsSound(r)
Signed == \A t \in Requests : issued[t] # NoClaims => Sound(issued[t])

(* A request that was hopeless is so for good, and for a reason that one of  *)
(* the checks still before it looks at.                                     *)
StaleSound(r) ==
  req[r].stale =>
    /\ pc[r] \in {"arrived", "device", "session", "refused", "failed"}
    /\ NoRows(r)
    /\ Hopeless(req[r])
    /\ pc[r] \in {"device", "session"} => req[r].valid
    /\ pc[r] = "device" /\ req[r].kind = "REFRESH" => Revoked(sessions[req[r].sid].device)
    /\ pc[r] = "session" /\ req[r].kind \in Guarded => sessions[req[r].sid].revoked

StaleSounds == \A r \in Requests : StaleSound(r)

(* A member who adds is one from the check on.                              *)
CallersAreMembers ==
  \A r \in Requests : req[r].kind = "ADD" /\ pc[r] \in {"existing", "add member", "ok"} =>
    req[r].user \in members[req[r].project]

Credible ==
  Typed /\ Granted /\ Signed /\ NamesAreUnique /\ StaleSounds /\ CallersAreMembers
  /\ MembersAreVouchedFor

-----------------------------------------------------------------------------
(* Types.                                                                  *)

LEMMA TypedInit ==
  Init => Typed
<1> SUFFICES ASSUME Init PROVE Typed
  OBVIOUS
<1> USE AccountAssumption
<1>1. NoDevice \in DeviceRows /\ NoSession \in SessionRows /\ NoClaims \in ClaimSets
  BY DEF NoDevice, NoSession, NoClaims, DeviceRows, SessionRows, ClaimSets
<1>2. Ask("NONE", FALSE, NoClaims) \in Asks
  BY DEF Ask, NoClaims, Asks, Kinds, Guarded
<1>3. members \in [Projects -> SUBSET Users]
  BY DEF Init
<1>4. "unsent" \in Labels /\ 0 \in 0 .. MaxFaults
  BY DEF Labels, Over
<1> QED
  BY <1>1, <1>2, <1>3, <1>4 DEF Init, Typed

(* What a client sends has the shape of a request.                          *)
LEMMA SendTyped ==
  ASSUME Typed, NEW r \in Requests, NEW q, Send(r, q), q \in Asks
  PROVE  Typed'
<1> DEFINE a == [q EXCEPT !.stale = Hopeless(q)]
<1>1. Hopeless(q) \in BOOLEAN
  BY DEF Hopeless
<1>2. a \in Asks
  BY <1>1 DEF Asks
<1>3. req' = [req EXCEPT ![r] = a] /\ pc' = [pc EXCEPT ![r] = "arrived"]
      /\ UNCHANGED <<devices, sessions, tokens, expired, members, issued, faults>>
  BY DEF Send, Goto, tables
<1>4. "arrived" \in Labels
  BY DEF Labels
<1> HIDE DEF a
<1> QED
  BY <1>2, <1>3, <1>4 DEF Typed

LEMMA CheckTyped ==
  ASSUME Typed, NEW r \in Requests, NEW holds, NEW next \in Labels, Check(r, holds, next)
  PROVE  Typed'
<1>1. "refused" \in Labels
  BY DEF Labels, Over
<1> QED
  BY <1>1 DEF Check, Goto, tables, Typed

LEMMA TypedNext ==
  ASSUME Typed, Granted, [Next]_vars
  PROVE  Typed'
<1> USE AccountAssumption
<1>1. ASSUME NEW r \in Requests, Arrive(r) PROVE Typed'
  <2>1. CASE AskLogin(r)
    <3>1. PICK u \in Users, d \in Requests \cup {None}, valid \in BOOLEAN :
            Send(r, Ask("LOGIN", valid, [NoClaims EXCEPT !.user = u, !.device = d]))
      BY <2>1 DEF AskLogin
    <3>2. Ask("LOGIN", valid, [NoClaims EXCEPT !.user = u, !.device = d]) \in Asks
      BY DEF Ask, NoClaims, Asks, Kinds
    <3> QED
      BY <3>1, <3>2, SendTyped
  <2>2. CASE AskRefresh(r)
    <3>1. PICK s \in Requests, valid \in BOOLEAN :
            Send(r, Ask("REFRESH", valid, [NoClaims EXCEPT !.sid = s]))
      BY <2>2 DEF AskRefresh
    <3>2. Ask("REFRESH", valid, [NoClaims EXCEPT !.sid = s]) \in Asks
      BY DEF Ask, NoClaims, Asks, Kinds
    <3> QED
      BY <3>1, <3>2, SendTyped
  <2>3. CASE AskWithToken(r)
    <3>1. PICK t \in Requests, valid \in BOOLEAN :
            \/ Send(r, Ask("LOGOUT", valid, issued[t]))
            \/ \E n \in Names \cup {r} :
                 Send(r, [Ask("REGISTER", valid, issued[t]) EXCEPT !.name = n])
            \/ \E p \in Projects, u \in Users :
                 Send(r, [Ask("ADD", valid, issued[t]) EXCEPT !.project = p, !.other = u])
      BY <2>3 DEF AskWithToken
    <3>2. issued[t] \in ClaimSets
      BY DEF Typed
    <3>3. Ask("LOGOUT", valid, issued[t]) \in Asks
      BY <3>2 DEF Ask, ClaimSets, Asks, Kinds, Guarded
    <3>4. ASSUME NEW n \in Names \cup {r}
          PROVE  [Ask("REGISTER", valid, issued[t]) EXCEPT !.name = n] \in Asks
      BY <3>2 DEF Ask, ClaimSets, Asks, Kinds, Guarded
    <3>5. ASSUME NEW p \in Projects, NEW u \in Users
          PROVE  [Ask("ADD", valid, issued[t]) EXCEPT !.project = p, !.other = u] \in Asks
      BY <3>2 DEF Ask, ClaimSets, Asks, Kinds, Guarded
    <3> QED
      BY <3>1, <3>3, <3>4, <3>5, SendTyped
  <2> QED
    BY <1>1, <2>1, <2>2, <2>3 DEF Arrive
<1>2. ASSUME NEW r \in Requests,
             \/ LoginDevice(r) \/ FirstDevice(r) \/ ReadToken(r) \/ ReadDevice(r)
             \/ RequireAuth(r) \/ CheckName(r) \/ CheckCaller(r) \/ CheckExisting(r)
      PROVE  Typed'
  BY <1>2, CheckTyped DEF LoginDevice, FirstDevice, ReadToken, ReadDevice, RequireAuth,
       VerifyToken, VerifyDevice, VerifySession, CheckName, CheckCaller, CheckExisting,
       Labels, Over
<1>3. ASSUME NEW r \in Requests, OpenSession(r) PROVE Typed'
  <2>1. [user |-> req[r].user, device |-> req[r].device, revoked |-> FALSE] \in SessionRows
    BY DEF Typed, Asks, SessionRows
  <2>2. "answer" \in Labels
    BY DEF Labels
  <2> QED
    BY <1>3, <2>1, <2>2 DEF OpenSession, AddSession, Goto, Typed
<1>4. ASSUME NEW r \in Requests, Provision(r) PROVE Typed'
  <2>1. [user |-> req[r].user, device |-> r, revoked |-> FALSE] \in SessionRows
    BY DEF Typed, Asks, SessionRows
  <2>2. [user |-> req[r].user, name |-> r, revoked |-> FALSE] \in DeviceRows
    BY DEF Typed, Asks, DeviceRows
  <2>3. "answer" \in Labels
    BY DEF Labels
  <2> QED
    BY <1>4, <2>1, <2>2, <2>3 DEF Provision, AddDevice, AddSession, Goto, Typed
<1>5. ASSUME NEW r \in Requests, ReadSession(r) PROVE Typed'
  <2>1. req' \in [Requests -> Asks]
    <3> DEFINE s == req[r].sid
               a == [req[r] EXCEPT !.user = sessions[s].user, !.device = sessions[s].device]
    <3>1. s \in Requests
      BY <1>5 DEF ReadSession, At, Granted, AskSound, Typed
    <3>5. req[r] \in Asks /\ sessions[s] \in SessionRows
      BY <3>1 DEF Typed
    <3>2. a \in Asks
      BY <3>5 DEF Asks, SessionRows
    <3>3. req' = req \/ req' = [req EXCEPT ![r] = a]
      BY <1>5 DEF ReadSession, Typed
    <3> QED
      BY <3>2, <3>3 DEF Typed
  <2>2. pc' \in [Requests -> Labels]
    BY <1>5 DEF ReadSession, Goto, Typed, Labels, Over
  <2> QED
    BY <1>5, <2>1, <2>2 DEF ReadSession, tables, Typed
<1>6. ASSUME NEW r \in Requests, Logout(r) PROVE Typed'
  <2>1. req[r].sid \in Requests
    BY <1>6 DEF Logout, At, Granted, AskSound, Sound, Guarded
  <2>5. sessions[req[r].sid] \in SessionRows
    BY <2>1 DEF Typed
  <2>2. [sessions[req[r].sid] EXCEPT !.revoked = TRUE] \in SessionRows
    BY <2>5 DEF SessionRows
  <2>3. sessions' \in [Requests -> SessionRows]
    BY <1>6, <2>1, <2>2 DEF Logout, Typed
  <2>4. "ok" \in Labels
    BY DEF Labels, Over
  <2> QED
    BY <1>6, <2>3, <2>4 DEF Logout, Goto, Typed
<1>7. ASSUME NEW r \in Requests, InsertDevice(r) PROVE Typed'
  <2>1. [user |-> req[r].user, name |-> req[r].name, revoked |-> FALSE] \in DeviceRows
    BY DEF Typed, Asks, DeviceRows
  <2>2. "failed" \in Labels /\ "add session" \in Labels
    BY DEF Labels, Over
  <2>3. pc' \in [Requests -> Labels]
    BY <1>7, <2>2 DEF InsertDevice, Goto, Typed
  <2>4. devices' \in [Requests -> DeviceRows]
    <3>1. \/ devices' = devices
          \/ devices' = [devices EXCEPT ![r] = [user |-> req[r].user, name |-> req[r].name,
                                               revoked |-> FALSE]]
      BY <1>7 DEF InsertDevice, AddDevice
    <3> QED
      BY <2>1, <3>1 DEF Typed
  <2> QED
    BY <1>7, <2>3, <2>4 DEF InsertDevice, Typed
<1>8. ASSUME NEW r \in Requests, InsertSession(r) PROVE Typed'
  <2>1. [user |-> req[r].user, device |-> r, revoked |-> FALSE] \in SessionRows
    BY DEF Typed, Asks, SessionRows
  <2>2. "add token" \in Labels
    BY DEF Labels
  <2> QED
    BY <1>8, <2>1, <2>2 DEF InsertSession, AddSession, Goto, Typed
<1>9. ASSUME NEW r \in Requests, InsertToken(r) PROVE Typed'
  BY <1>9 DEF InsertToken, Goto, Typed, Labels
<1>10. ASSUME NEW r \in Requests, InsertMember(r) PROVE Typed'
  <2>1. req[r].project \in Projects /\ req[r].other \in Users
    BY <1>10 DEF InsertMember, At, Granted, AskSound
  <2> QED
    BY <1>10, <2>1 DEF InsertMember, Goto, Typed, Labels, Over
<1>11. ASSUME NEW r \in Requests, Answer(r) PROVE Typed'
  <2>1. req[r] \in Asks
    BY DEF Typed
  <2>2. Claims(r) \in ClaimSets
    BY <2>1 DEF Claims, Asks, ClaimSets
  <2>3. "ok" \in Labels
    BY DEF Labels, Over
  <2> QED
    BY <1>11, <2>2, <2>3 DEF Answer, Goto, tables, Typed
<1>12. ASSUME NEW r \in Requests, Fail(r) PROVE Typed'
  <2>1. faults' \in 0 .. MaxFaults
    BY <1>12 DEF Fail, Typed
  <2>2. "failed" \in Labels
    BY DEF Labels, Over
  <2> QED
    BY <1>12, <2>1, <2>2 DEF Fail, Goto, tables, Typed
<1>13. ASSUME NEW d \in Requests, RevokeDevice(d) PROVE Typed'
  <2>1. devices[d] \in DeviceRows
    BY DEF Typed
  <2>2. [devices[d] EXCEPT !.revoked = TRUE] \in DeviceRows
    BY <2>1 DEF DeviceRows
  <2> QED
    BY <1>13, <2>2 DEF RevokeDevice, Typed
<1>14. ASSUME NEW s \in Requests, EndSession(s) PROVE Typed'
  BY <1>14 DEF EndSession, Typed
<1>15. ASSUME NEW t \in Requests, EndToken(t) PROVE Typed'
  <2>1. NoClaims \in ClaimSets
    BY DEF NoClaims, ClaimSets
  <2> QED
    BY <1>15, <2>1 DEF EndToken, tables, Typed
<1>16. CASE UNCHANGED vars
  BY <1>16 DEF vars, tables, Typed
<1> QED
  BY <1>1, <1>2, <1>3, <1>4, <1>5, <1>6, <1>7, <1>8, <1>9, <1>10, <1>11, <1>12, <1>13, <1>14,
     <1>15, <1>16 DEF Next, Login, Refresh, Register, Member

-----------------------------------------------------------------------------
(* What a step does to the rows there are, and to the other requests.       *)

(* Owners and names of rows are for good, and so are revocations, expiries,  *)
(* tokens and memberships.                                                  *)
Kept ==
  /\ \A d \in Requests : Registered(d) =>
       /\ devices'[d].user = devices[d].user /\ devices'[d].name = devices[d].name
       /\ Revoked(d) => devices'[d].revoked
  /\ \A s \in Requests : sessions[s].user # None =>
       /\ sessions'[s].user = sessions[s].user /\ sessions'[s].device = sessions[s].device
       /\ sessions[s].revoked => sessions'[s].revoked
  /\ tokens \subseteq tokens' /\ expired \subseteq expired'
  /\ \A p \in Projects : members[p] \subseteq members'[p]

(* The request is where it was, and has made no row.                        *)
Beside(q) ==
  /\ pc'[q] = pc[q] /\ req'[q] = req[q]
  /\ devices[q] = NoDevice => devices'[q] = NoDevice
  /\ sessions[q] = NoSession => sessions'[q] = NoSession
  /\ q \in tokens' => q \in tokens

(* A step that leaves the tables alone, and one that a request takes there.  *)
LEMMA QuietStep ==
  ASSUME Typed, NEW r \in Requests, UNCHANGED <<devices, sessions, tokens, expired, members>>,
         \A q \in Requests \ {r} : pc'[q] = pc[q] /\ req'[q] = req[q]
  PROVE  Kept /\ \A q \in Requests \ {r} : Beside(q)
BY DEF Kept, Beside, Registered, Revoked

LEMMA Frame ==
  ASSUME Typed, Granted, NEW r \in Requests,
         \/ Arrive(r) \/ Login(r) \/ Refresh(r) \/ RequireAuth(r) \/ Logout(r)
         \/ Register(r) \/ Member(r) \/ Answer(r) \/ Fail(r)
         \/ RevokeDevice(r) \/ EndSession(r) \/ EndToken(r)
  PROVE  Kept /\ \A q \in Requests \ {r} : Beside(q)
<1> USE AccountAssumption
<1>1. ASSUME \/ Arrive(r) \/ LoginDevice(r) \/ FirstDevice(r) \/ Refresh(r) \/ RequireAuth(r)
             \/ CheckName(r) \/ CheckCaller(r) \/ CheckExisting(r) \/ Answer(r) \/ Fail(r)
             \/ EndToken(r)
      PROVE  Kept /\ \A q \in Requests \ {r} : Beside(q)
  <2>1. UNCHANGED <<devices, sessions, tokens, expired, members>>
    BY <1>1 DEF Arrive, AskLogin, AskRefresh, AskWithToken, Send, LoginDevice, FirstDevice,
         Refresh, ReadToken, ReadSession, ReadDevice, RequireAuth, VerifyToken, VerifyDevice,
         VerifySession, CheckName, CheckCaller, CheckExisting, Answer, Fail, EndToken, Check,
         tables
  <2>2. \A q \in Requests \ {r} : pc'[q] = pc[q]
    BY <1>1 DEF Arrive, AskLogin, AskRefresh, AskWithToken, Send, LoginDevice, FirstDevice,
         Refresh, ReadToken, ReadSession, ReadDevice, RequireAuth, VerifyToken, VerifyDevice,
         VerifySession, CheckName, CheckCaller, CheckExisting, Answer, Fail, EndToken, Check,
         Goto, Typed
  <2>3. \A q \in Requests \ {r} : req'[q] = req[q]
    <3>1. CASE Arrive(r) \/ ReadSession(r)
      BY <3>1 DEF Arrive, AskLogin, AskRefresh, AskWithToken, Send, ReadSession, Typed
    <3>2. CASE ~Arrive(r) /\ ~ReadSession(r)
      BY <1>1, <3>2 DEF LoginDevice, FirstDevice, Refresh, ReadToken, ReadDevice, RequireAuth,
           VerifyToken, VerifyDevice, VerifySession, CheckName, CheckCaller, CheckExisting,
           Answer, Fail, EndToken, Check
    <3> QED
      BY <3>1, <3>2
  <2> QED
    BY <2>1, <2>2, <2>3, QuietStep
<1>2. ASSUME OpenSession(r) PROVE Kept /\ \A q \in Requests \ {r} : Beside(q)
  <2>1. sessions[r] = NoSession
    BY <1>2 DEF OpenSession, At, Granted, RowsSound, NoRows
  <2> QED
    BY <1>2, <2>1 DEF OpenSession, AddSession, Goto, Typed, Kept, Beside, Registered, Revoked,
         NoSession
<1>3. ASSUME Provision(r) PROVE Kept /\ \A q \in Requests \ {r} : Beside(q)
  <2>1. sessions[r] = NoSession /\ devices[r] = NoDevice
    BY <1>3 DEF Provision, At, Granted, RowsSound, NoRows
  <2> QED
    BY <1>3, <2>1 DEF Provision, AddDevice, AddSession, Goto, Typed, Kept, Beside, Registered,
         Revoked, NoSession, NoDevice
<1>4. ASSUME Logout(r) PROVE Kept /\ \A q \in Requests \ {r} : Beside(q)
  <2> DEFINE s == req[r].sid
  <2>1. s \in Requests /\ sessions[s].user \in Users
    BY <1>4 DEF Logout, At, Granted, AskSound, Sound, Guarded
  <2>2. sessions[s] # NoSession
    BY <2>1 DEF NoSession
  <2>3. sessions[s] \in SessionRows
    BY <2>1 DEF Typed
  <2>4. /\ sessions' = [sessions EXCEPT ![s] = [sessions[s] EXCEPT !.revoked = TRUE]]
        /\ pc' = [pc EXCEPT ![r] = "ok"]
        /\ UNCHANGED <<devices, tokens, expired, members, req>>
    BY <1>4 DEF Logout, Goto
  <2>5. /\ sessions'[s].user = sessions[s].user /\ sessions'[s].device = sessions[s].device
        /\ sessions'[s].revoked
        /\ \A t \in Requests \ {s} : sessions'[t] = sessions[t]
    BY <2>1, <2>3, <2>4 DEF Typed, SessionRows
  <2> HIDE DEF s
  <2>6. Kept
    BY <2>4, <2>5 DEF Kept, Registered, Revoked
  <2>7. \A q \in Requests \ {r} : Beside(q)
    BY <2>2, <2>4, <2>5 DEF Beside, Typed
  <2> QED
    BY <2>6, <2>7
<1>5. ASSUME InsertDevice(r) PROVE Kept /\ \A q \in Requests \ {r} : Beside(q)
  <2>1. devices[r] = NoDevice
    BY <1>5 DEF InsertDevice, At, Granted, RowsSound, NoRows
  <2>2. /\ \A q \in Requests \ {r} : devices'[q] = devices[q] /\ pc'[q] = pc[q]
        /\ UNCHANGED <<sessions, tokens, expired, members, req>>
    BY <1>5 DEF InsertDevice, AddDevice, Goto, Typed
  <2>3. devices[r].user = None
    BY <2>1 DEF NoDevice
  <2> QED
    BY <2>2, <2>3 DEF Kept, Beside, Registered, Revoked
<1>6. ASSUME InsertSession(r) PROVE Kept /\ \A q \in Requests \ {r} : Beside(q)
  <2>1. sessions[r] = NoSession
    BY <1>6 DEF InsertSession, At, Granted, RowsSound
  <2>2. /\ \A q \in Requests \ {r} : sessions'[q] = sessions[q] /\ pc'[q] = pc[q]
        /\ UNCHANGED <<devices, tokens, expired, members, req>>
    BY <1>6 DEF InsertSession, AddSession, Goto, Typed
  <2>3. sessions[r].user = None
    BY <2>1 DEF NoSession
  <2> QED
    BY <2>2, <2>3 DEF Kept, Beside, Registered, Revoked
<1>7. ASSUME InsertToken(r) PROVE Kept /\ \A q \in Requests \ {r} : Beside(q)
  BY <1>7 DEF InsertToken, Goto, Typed, Kept, Beside, Registered, Revoked
<1>8. ASSUME InsertMember(r) PROVE Kept /\ \A q \in Requests \ {r} : Beside(q)
  BY <1>8 DEF InsertMember, Goto, Typed, Kept, Beside, Registered, Revoked
<1>9. ASSUME RevokeDevice(r) PROVE Kept /\ \A q \in Requests \ {r} : Beside(q)
  <2>1. devices[r] \in DeviceRows
    BY DEF Typed
  <2>2. /\ devices' = [devices EXCEPT ![r] = [devices[r] EXCEPT !.revoked = TRUE]]
        /\ UNCHANGED <<sessions, tokens, expired, members, req, pc>>
    BY <1>9 DEF RevokeDevice
  <2>3. /\ devices'[r].user = devices[r].user /\ devices'[r].name = devices[r].name
        /\ devices'[r].revoked
        /\ \A t \in Requests \ {r} : devices'[t] = devices[t]
    BY <2>1, <2>2 DEF Typed, DeviceRows
  <2> QED
    BY <2>2, <2>3 DEF Kept, Beside, Registered, Revoked
<1>10. ASSUME EndSession(r) PROVE Kept /\ \A q \in Requests \ {r} : Beside(q)
  BY <1>10 DEF EndSession, Kept, Beside, Registered, Revoked
<1> QED
  BY <1>1, <1>2, <1>3, <1>4, <1>5, <1>6, <1>7, <1>8, <1>9, <1>10 DEF Login, Register, Member

-----------------------------------------------------------------------------
(* What requests rest on.                                                  *)

(* Claims that are sound stay so.                                           *)
LEMMA SoundForGood ==
  ASSUME Kept, NEW c, Sound(c)
  PROVE  Sound(c)'
<1> USE AccountAssumption
<1>1. c.user # None
  BY DEF Sound
<1> QED
  BY <1>1 DEF Kept, Sound, Registered

(* A row that is there has an owner.                                        *)
LEMMA RowsHaveOwners ==
  ASSUME Typed, Granted, NEW q \in Requests
  PROVE  /\ devices[q] = NoDevice \/ Registered(q)
         /\ sessions[q] = NoSession \/ sessions[q].user \in Users
         /\ req[q].kind \in {"LOGIN", "REGISTER"} => req[q].user \in Users
<1> USE AccountAssumption
<1>1. req[q].kind \in {"LOGIN", "REGISTER"} => req[q].user \in Users
  BY DEF Granted, AskSound, Sound, Guarded
<1>2. req[q].kind \notin {"LOGIN", "REGISTER"} => NoRows(q)
  BY DEF Granted, RowsSound
<1> QED
  BY <1>1, <1>2 DEF Granted, RowsSound, NoRows, Registered

(* Its device is a row that stays.                                          *)
LEMMA SessionsForGood ==
  ASSUME Typed, Granted, Kept, NEW q \in Requests, sessions[q] # NoSession
  PROVE  /\ DeviceFor(q) \in Requests
         /\ devices'[DeviceFor(q)].user = devices[DeviceFor(q)].user
         /\ sessions'[q].user = sessions[q].user
         /\ sessions'[q].device = sessions[q].device
<1> USE AccountAssumption
<1>1. sessions[q].user \in Users
  BY RowsHaveOwners
<1>2. DeviceFor(q) \in Requests
  BY DEF DeviceFor, Typed, Asks
<1>3. devices[DeviceFor(q)].user \in Users
  BY <1>1 DEF Granted, RowsSound
<1> QED
  BY <1>1, <1>2, <1>3 DEF Kept, Registered

(* A session with a refresh token is on a device of its user.               *)
LEMMA SessionDevice ==
  ASSUME Typed, Granted, NEW s \in tokens
  PROVE  /\ s \in Requests /\ sessions[s].user \in Users /\ sessions[s].device \in Requests
         /\ devices[sessions[s].device].user = sessions[s].user
         /\ Registered(sessions[s].device)
<1> USE AccountAssumption
<1>1. s \in Requests /\ sessions[s].user # None
  BY DEF Granted, RowsSound, Typed
<1>2. sessions[s] # NoSession /\ sessions[s].user \in Users
  BY <1>1, RowsHaveOwners DEF NoSession
<1>3. RowsSound(s) /\ req[s] \in Asks
  BY <1>1 DEF Granted, Typed
<1>4. DeviceFor(s) \in Requests
  BY <1>1, <1>3 DEF DeviceFor, Asks
<1> QED
  BY <1>1, <1>2, <1>3, <1>4 DEF RowsSound, Registered

LEMMA OthersGranted ==
  ASSUME Typed, Granted, Kept, NEW q \in Requests, Beside(q)
  PROVE  AskSound(q)' /\ RowsSound(q)'
<1> USE AccountAssumption
<1>1. AskSound(q) /\ RowsSound(q) /\ \A s \in tokens : sessions[s].user # None
  BY DEF Granted, RowsSound, Typed
<1>2. AskSound(q)'
  <2>1. pc'[q] \in Route(req'[q].kind)
    BY <1>1 DEF AskSound, Beside
  <2>2. (req[q].kind = "LOGIN" =>
           /\ req[q].user \in Users
           /\ req[q].device # None => Registered(req[q].device)
           /\ pc[q] = "open" =>
                req[q].device # None /\ devices[req[q].device].user = req[q].user
           /\ pc[q] = "provision" => req[q].device = None)'
    <3>1. req[q].kind = "LOGIN" /\ req[q].device # None =>
            /\ req[q].device \in Requests
            /\ devices'[req[q].device].user = devices[req[q].device].user
      BY <1>1 DEF AskSound, Kept, Typed, Asks
    <3> QED
      BY <1>1, <3>1 DEF AskSound, Beside, Registered
  <2>3. (req[q].kind = "REFRESH" =>
           /\ req[q].sid \in tokens
           /\ pc[q] \in {"device", "answer", "ok"} =>
                /\ req[q].user = sessions[req[q].sid].user
                /\ req[q].device = sessions[req[q].sid].device)'
    <3>1. req[q].kind = "REFRESH" =>
            /\ req[q].sid \in tokens'
            /\ sessions'[req[q].sid].user = sessions[req[q].sid].user
            /\ sessions'[req[q].sid].device = sessions[req[q].sid].device
      BY <1>1 DEF AskSound, Kept, Typed
    <3> QED
      BY <1>1, <3>1 DEF AskSound, Beside
  <2>4. (req[q].kind \in Guarded => Sound(req[q]))'
    BY <1>1, SoundForGood DEF AskSound, Beside, Sound, Guarded
  <2> QED
    BY <1>1, <2>1, <2>2, <2>3, <2>4 DEF AskSound, Beside
<1>3. RowsSound(q)'
  <2>1. NameOf(q)' = NameOf(q) /\ DeviceFor(q)' = DeviceFor(q)
    BY DEF Beside, NameOf, DeviceFor
  <2>2. \/ devices'[q] = NoDevice
        \/ devices'[q].user = req'[q].user /\ devices'[q].name = NameOf(q)'
    BY <1>1, <2>1, RowsHaveOwners DEF RowsSound, Beside, Kept
  <2>3. \/ sessions'[q] = NoSession
        \/ /\ sessions'[q].user = req'[q].user /\ sessions'[q].device = DeviceFor(q)'
           /\ devices'[DeviceFor(q)'].user = req'[q].user
    BY <1>1, <2>1, SessionsForGood DEF RowsSound, Beside
  <2>4. q \in tokens' => sessions'[q].user # None
    BY <1>1 DEF RowsSound, Beside, Kept
  <2>5. NoRows(q) => NoRows(q)'
    BY DEF NoRows, Beside
  <2>6. Registered(q)' <=> Registered(q)
    BY RowsHaveOwners DEF Beside, Kept, Registered, NoDevice
  <2>7. sessions'[q].user # None <=> sessions[q].user # None
    BY RowsHaveOwners DEF Beside, Kept, NoSession
  <2>8. (q \in tokens' <=> q \in tokens) /\ (sessions[q] = NoSession => sessions'[q] = NoSession)
    BY DEF Beside, Kept
  <2> QED
    BY <1>1, <2>2, <2>3, <2>4, <2>5, <2>6, <2>7, <2>8 DEF RowsSound, Beside
<1> QED
  BY <1>2, <1>3

(* A request that has arrived has no rows, and rests on what the client was  *)
(* given.                                                                   *)
LEMMA SendGranted ==
  ASSUME Typed, Granted, NEW r \in Requests, NEW q \in Asks, Send(r, q),
         q.kind # "NONE",
         q.kind = "LOGIN" => q.user \in Users /\ (q.device # None => Registered(q.device)),
         q.kind = "REFRESH" => q.sid \in tokens,
         q.kind \in Guarded => Sound(q),
         q.kind = "REGISTER" => q.name \in Names \cup {r},
         q.kind = "ADD" => q.project \in Projects /\ q.other \in Users
  PROVE  AskSound(r)' /\ RowsSound(r)'
<1> DEFINE a == [q EXCEPT !.stale = Hopeless(q)]
<1>1. /\ a.kind = q.kind /\ a.user = q.user /\ a.device = q.device /\ a.sid = q.sid
      /\ a.name = q.name /\ a.project = q.project /\ a.other = q.other
  BY DEF Asks
<1>2. /\ req' = [req EXCEPT ![r] = a] /\ pc' = [pc EXCEPT ![r] = "arrived"] /\ pc[r] = "unsent"
      /\ UNCHANGED <<devices, sessions, tokens>>
  BY DEF Send, Goto, tables
<1> HIDE DEF a
<1>3. req'[r] = a /\ pc'[r] = "arrived"
  BY <1>2 DEF Typed
<1>4. req[r].kind = "NONE"
  BY <1>2 DEF Granted, AskSound, Route, Typed, Asks, Kinds, Guarded
<1>5. NoRows(r)'
  BY <1>2, <1>4 DEF Granted, RowsSound, NoRows
<1>6. pc'[r] \in Route(req'[r].kind)
  BY <1>1, <1>3 DEF Route, Asks, Kinds, Guarded
<1>7. (req[r].kind \in Guarded => Sound(req[r]))'
  BY <1>1, <1>2, <1>3 DEF Sound
<1>8. AskSound(r)'
  BY <1>1, <1>2, <1>3, <1>6, <1>7 DEF AskSound, Registered
<1>9. RowsSound(r)'
  BY <1>3, <1>5 DEF RowsSound, NoRows, NoDevice, NoSession, Registered
<1> QED
  BY <1>8, <1>9

LEMMA ArriveGranted ==
  ASSUME Typed, Granted, Signed, NEW r \in Requests, Arrive(r)
  PROVE  AskSound(r)' /\ RowsSound(r)'
<1>1. CASE AskLogin(r)
  <2>1. PICK u \in Users, d \in {x \in Requests : Registered(x)} \cup {None},
             valid \in BOOLEAN :
          Send(r, Ask("LOGIN", valid, [NoClaims EXCEPT !.user = u, !.device = d]))
    BY <1>1 DEF AskLogin
  <2> DEFINE q == Ask("LOGIN", valid, [NoClaims EXCEPT !.user = u, !.device = d])
  <2>2. q \in Asks /\ q.kind = "LOGIN" /\ q.user = u /\ q.device = d
    BY DEF Ask, NoClaims, Asks, Kinds
  <2> QED
    BY <2>1, <2>2, SendGranted DEF Guarded
<1>2. CASE AskRefresh(r)
  <2>1. PICK s \in Requests, valid \in BOOLEAN :
          Holds(s) /\ Send(r, Ask("REFRESH", valid, [NoClaims EXCEPT !.sid = s]))
    BY <1>2 DEF AskRefresh
  <2> DEFINE q == Ask("REFRESH", valid, [NoClaims EXCEPT !.sid = s])
  <2>2. q \in Asks /\ q.kind = "REFRESH" /\ q.sid = s
    BY DEF Ask, NoClaims, Asks, Kinds
  <2>3. s \in tokens
    BY <2>1 DEF Holds, Granted, RowsSound
  <2> QED
    BY <2>1, <2>2, <2>3, SendGranted DEF Guarded
<1>3. CASE AskWithToken(r)
  <2>1. PICK t \in Requests, valid \in BOOLEAN :
          /\ issued[t] # NoClaims
          /\ \/ Send(r, Ask("LOGOUT", valid, issued[t]))
             \/ \E n \in Names \cup {r} :
                  Send(r, [Ask("REGISTER", valid, issued[t]) EXCEPT !.name = n])
             \/ \E p \in Projects, u \in Users :
                  Send(r, [Ask("ADD", valid, issued[t]) EXCEPT !.project = p, !.other = u])
    BY <1>3 DEF AskWithToken
  <2>2. Sound(issued[t]) /\ issued[t] \in ClaimSets
    BY <2>1 DEF Signed, Typed
  <2>3. ASSUME NEW q, q \in Asks, Send(r, q), q.kind \in Guarded,
               q.user = issued[t].user, q.device = issued[t].device, q.sid = issued[t].sid,
               q.kind = "REGISTER" => q.name \in Names \cup {r},
               q.kind = "ADD" => q.project \in Projects /\ q.other \in Users
        PROVE  AskSound(r)' /\ RowsSound(r)'
    <3>1. Sound(q)
      BY <2>2, <2>3 DEF Sound
    <3>2. q.kind # "NONE" /\ q.kind # "LOGIN" /\ q.kind # "REFRESH"
      BY <2>3 DEF Guarded
    <3> QED
      BY <2>3, <3>1, <3>2, SendGranted
  <2>4. CASE Send(r, Ask("LOGOUT", valid, issued[t]))
    <3> DEFINE q == Ask("LOGOUT", valid, issued[t])
    <3>1. /\ q \in Asks /\ q.kind = "LOGOUT" /\ q.user = issued[t].user
          /\ q.device = issued[t].device /\ q.sid = issued[t].sid
      BY <2>2 DEF Ask, ClaimSets, Asks, Kinds, Guarded
    <3> HIDE DEF q
    <3>2. q.kind \in Guarded /\ q.kind # "REGISTER" /\ q.kind # "ADD"
      BY <3>1 DEF Guarded
    <3>3. Send(r, q)
      BY <2>4 DEF q
    <3> QED
      BY <2>3, <3>1, <3>2, <3>3
  <2>5. ASSUME NEW n \in Names \cup {r},
               Send(r, [Ask("REGISTER", valid, issued[t]) EXCEPT !.name = n])
        PROVE  AskSound(r)' /\ RowsSound(r)'
    <3> DEFINE q == [Ask("REGISTER", valid, issued[t]) EXCEPT !.name = n]
    <3>1. /\ q \in Asks /\ q.kind = "REGISTER" /\ q.user = issued[t].user /\ q.name = n
          /\ q.device = issued[t].device /\ q.sid = issued[t].sid
      BY <2>2 DEF Ask, ClaimSets, Asks, Kinds, Guarded
    <3> HIDE DEF q
    <3>2. q.kind \in Guarded /\ q.kind # "ADD"
      BY <3>1 DEF Guarded
    <3>3. Send(r, q)
      BY <2>5 DEF q
    <3> QED
      BY <2>3, <3>1, <3>2, <3>3
  <2>6. ASSUME NEW p \in Projects, NEW u \in Users,
               Send(r, [Ask("ADD", valid, issued[t]) EXCEPT !.project = p, !.other = u])
        PROVE  AskSound(r)' /\ RowsSound(r)'
    <3> DEFINE q == [Ask("ADD", valid, issued[t]) EXCEPT !.project = p, !.other = u]
    <3>1. /\ q \in Asks /\ q.kind = "ADD" /\ q.user = issued[t].user
          /\ q.device = issued[t].device /\ q.sid = issued[t].sid
          /\ q.project = p /\ q.other = u
      BY <2>2 DEF Ask, ClaimSets, Asks, Kinds, Guarded
    <3> HIDE DEF q
    <3>2. q.kind \in Guarded /\ q.kind # "REGISTER"
      BY <3>1 DEF Guarded
    <3>3. Send(r, q)
      BY <2>6 DEF q
    <3> QED
      BY <2>3, <3>1, <3>2, <3>3
  <2> QED
    BY <2>1, <2>4, <2>5, <2>6
<1> QED
  BY <1>1, <1>2, <1>3 DEF Arrive

(* A step of the handler that leaves the tables and the request alone.      *)
LEMMA QuietGranted ==
  ASSUME Granted, NEW r \in Requests, UNCHANGED <<devices, sessions, tokens, req>>,
         req[r].kind # "NONE", pc'[r] \in Route(req[r].kind),
         req[r].kind = "LOGIN" =>
           /\ pc'[r] = "open" =>
                req[r].device # None /\ devices[req[r].device].user = req[r].user
           /\ pc'[r] = "provision" => req[r].device = None
           /\ pc'[r] \in {"arrived", "open", "provision", "refused"} => NoRows(r)
           /\ pc'[r] \in {"answer", "ok"} => r \in tokens,
         req[r].kind = "REFRESH" /\ pc'[r] \in {"device", "answer", "ok"} =>
           pc[r] \in {"device", "answer", "ok"},
         req[r].kind = "REGISTER" =>
           /\ pc'[r] \in {"arrived", "device", "session", "handler", "add device", "refused"}
                => NoRows(r)
           /\ pc'[r] \notin {"add session", "add token"}
           /\ pc'[r] \in {"answer", "ok"} => r \in tokens
  PROVE  AskSound(r)' /\ RowsSound(r)'
<1>1. AskSound(r)'
  BY DEF Granted, AskSound, Sound, Registered
<1>2. RowsSound(r)'
  BY DEF Granted, RowsSound, NoRows, Registered, NameOf, DeviceFor
<1> QED
  BY <1>1, <1>2

LEMMA StepGranted ==
  ASSUME Typed, Granted, Typed', NEW r \in Requests, Kept,
         \/ Login(r) \/ Refresh(r) \/ RequireAuth(r) \/ Logout(r)
         \/ Register(r) \/ Member(r) \/ Answer(r) \/ Fail(r)
  PROVE  AskSound(r)' /\ RowsSound(r)'
<1> USE AccountAssumption
<1>0. AskSound(r) /\ RowsSound(r)
  BY DEF Granted
<1>1. ASSUME \/ LoginDevice(r) \/ FirstDevice(r) \/ ReadToken(r) \/ ReadDevice(r)
             \/ RequireAuth(r) \/ CheckName(r) \/ CheckCaller(r) \/ CheckExisting(r)
      PROVE  AskSound(r)' /\ RowsSound(r)'
  <2>1. UNCHANGED <<devices, sessions, tokens, req>>
    BY <1>1 DEF LoginDevice, FirstDevice, ReadToken, ReadDevice, RequireAuth, VerifyToken,
         VerifyDevice, VerifySession, CheckName, CheckCaller, CheckExisting, Check, tables
  <2>2. CASE LoginDevice(r) \/ FirstDevice(r)
    <3>1. /\ req[r].kind = "LOGIN" /\ pc[r] = "arrived"
          /\ \/ pc'[r] = "refused"
             \/ pc'[r] = "open" /\ req[r].device # None
                  /\ devices[req[r].device].user = req[r].user
             \/ pc'[r] = "provision" /\ req[r].device = None
      BY <2>2 DEF LoginDevice, FirstDevice, At, Check, Goto, Typed
    <3>2. NoRows(r)
      BY <1>0, <3>1 DEF RowsSound
    <3>3. pc'[r] \in Route(req[r].kind)
      BY <3>1 DEF Route
    <3> QED
      BY <2>1, <3>1, <3>2, <3>3, QuietGranted
  <2>3. CASE ReadToken(r) \/ ReadDevice(r)
    <3>1. /\ req[r].kind = "REFRESH"
          /\ \/ pc'[r] = "refused" \/ pc'[r] = "session"
             \/ pc[r] = "device" /\ pc'[r] = "answer"
      BY <2>3 DEF ReadToken, ReadDevice, At, Check, Goto, Typed
    <3>2. pc'[r] \in Route(req[r].kind)
      BY <3>1 DEF Route
    <3> QED
      BY <2>1, <3>1, <3>2, QuietGranted
  <2>4. CASE RequireAuth(r)
    <3>1. /\ req[r].kind \in Guarded
          /\ pc[r] \in {"arrived", "device", "session"}
          /\ pc'[r] \in {"device", "session", "handler", "refused"}
      BY <2>4 DEF RequireAuth, VerifyToken, VerifyDevice, VerifySession, Check, Goto, Typed
    <3>2. pc'[r] \in Route(req[r].kind)
      BY <3>1 DEF Route, Guarded
    <3>3. req[r].kind = "REGISTER" => NoRows(r)
      BY <1>0, <3>1 DEF RowsSound
    <3> QED
      BY <2>1, <3>1, <3>2, <3>3, QuietGranted DEF Guarded
  <2>5. CASE CheckName(r)
    <3>1. req[r].kind = "REGISTER" /\ pc[r] = "handler" /\ pc'[r] \in {"add device", "refused"}
      BY <2>5 DEF CheckName, At, Check, Goto, Typed
    <3>2. pc'[r] \in Route(req[r].kind)
      BY <3>1 DEF Route
    <3>3. NoRows(r)
      BY <1>0, <3>1 DEF RowsSound
    <3> QED
      BY <2>1, <3>1, <3>2, <3>3, QuietGranted
  <2>6. CASE CheckCaller(r) \/ CheckExisting(r)
    <3>1. req[r].kind = "ADD" /\ pc'[r] \in {"existing", "add member", "ok", "refused"}
      BY <2>6 DEF CheckCaller, CheckExisting, At, Check, Goto, Typed
    <3>2. pc'[r] \in Route(req[r].kind)
      BY <3>1 DEF Route
    <3> QED
      BY <2>1, <3>1, <3>2, QuietGranted
  <2> QED
    BY <1>1, <2>2, <2>3, <2>4, <2>5, <2>6
<1>2. ASSUME OpenSession(r) PROVE AskSound(r)' /\ RowsSound(r)'
  <2>1. /\ req[r].kind = "LOGIN" /\ NoRows(r) /\ req[r].device # None
        /\ devices[req[r].device].user = req[r].user
    BY <1>0, <1>2 DEF OpenSession, At, RowsSound, AskSound
  <2>2. /\ sessions'[r] = [user |-> req[r].user, device |-> req[r].device, revoked |-> FALSE]
        /\ pc'[r] = "answer" /\ tokens' = tokens \cup {r}
        /\ UNCHANGED <<devices, req>>
    BY <1>2 DEF OpenSession, AddSession, Goto, Typed
  <2>3. AskSound(r)'
    BY <1>0, <2>1, <2>2 DEF AskSound, Route, Registered, Guarded
  <2>4. RowsSound(r)'
    BY <1>0, <2>1, <2>2 DEF AskSound, RowsSound, NoRows, NoDevice, Registered, NameOf, DeviceFor
  <2> QED
    BY <2>3, <2>4
<1>3. ASSUME Provision(r) PROVE AskSound(r)' /\ RowsSound(r)'
  <2>1. req[r].kind = "LOGIN" /\ req[r].device = None /\ req[r].user \in Users
    BY <1>0, <1>3 DEF Provision, At, AskSound
  <2>2. /\ sessions'[r] = [user |-> req[r].user, device |-> r, revoked |-> FALSE]
        /\ devices'[r] = [user |-> req[r].user, name |-> r, revoked |-> FALSE]
        /\ pc'[r] = "answer" /\ tokens' = tokens \cup {r} /\ req' = req
    BY <1>3 DEF Provision, AddDevice, AddSession, Goto, Typed
  <2>3. AskSound(r)'
    BY <2>1, <2>2 DEF AskSound, Route, Guarded
  <2>4. RowsSound(r)'
    BY <2>1, <2>2 DEF RowsSound, Registered, NameOf, DeviceFor
  <2> QED
    BY <2>3, <2>4
<1>4. ASSUME ReadSession(r) PROVE AskSound(r)' /\ RowsSound(r)'
  <2> DEFINE s == req[r].sid
             found == sessions[s].user # None /\ ~Lapsed(s)
  <2>1. req[r].kind = "REFRESH" /\ s \in tokens /\ NoRows(r)
    BY <1>0, <1>4 DEF ReadSession, At, RowsSound, AskSound
  <2>2. UNCHANGED <<devices, sessions, tokens>>
    BY <1>4 DEF ReadSession, tables
  <2>3. /\ req'[r].kind = "REFRESH" /\ req'[r].sid = s
        /\ \/ pc'[r] = "refused"
           \/ /\ pc'[r] = "device"
              /\ req'[r].user = sessions[s].user /\ req'[r].device = sessions[s].device
    <3>1. CASE found
      <4>1. /\ req' = [req EXCEPT ![r].user = sessions[s].user,
                                  ![r].device = sessions[s].device]
            /\ pc'[r] = "device"
        BY <1>4, <3>1 DEF ReadSession, Goto, Typed
      <4>2. PICK a : a = [req[r] EXCEPT !.user = sessions[s].user,
                                        !.device = sessions[s].device]
        OBVIOUS
      <4>3. req[r] \in Asks /\ req'[r] = a
        BY <4>1, <4>2 DEF Typed
      <4>4. /\ a.kind = req[r].kind /\ a.sid = s
            /\ a.user = sessions[s].user /\ a.device = sessions[s].device
        BY <4>2, <4>3 DEF Asks
      <4> QED
        BY <2>1, <4>1, <4>3, <4>4
    <3>2. CASE ~found
      BY <1>4, <2>1, <3>2 DEF ReadSession, Goto, Typed
    <3> QED
      BY <3>1, <3>2
  <2>4. AskSound(r)'
    BY <2>1, <2>2, <2>3 DEF AskSound, Route, Guarded
  <2>5. RowsSound(r)'
    BY <2>1, <2>2, <2>3 DEF RowsSound, NoRows
  <2> QED
    BY <2>4, <2>5
<1>5. ASSUME Logout(r) PROVE AskSound(r)' /\ RowsSound(r)'
  <2>1. req[r].kind = "LOGOUT" /\ pc'[r] = "ok" /\ UNCHANGED <<devices, tokens, req>>
    BY <1>5 DEF Logout, At, Goto, Typed
  <2>2. Sound(req[r])'
    <3>1. Sound(req[r])
      BY <1>0, <2>1 DEF AskSound, Guarded
    <3> QED
      BY <2>1, <3>1, SoundForGood DEF Sound, Kept
  <2>3. NoRows(r) /\ sessions[req[r].sid].user \in Users
    BY <1>0, <2>1 DEF RowsSound, AskSound, Sound, Guarded
  <2>4. sessions'[r] = NoSession
    <3>1. sessions[r] = NoSession /\ NoSession.user = None
      BY <2>3 DEF NoRows, NoSession
    <3>2. req[r].sid # r
      BY <2>3, <3>1
    <3> QED
      BY <1>5, <3>1, <3>2 DEF Logout, Typed
  <2>5. AskSound(r)'
    BY <2>1, <2>2 DEF AskSound, Route, Guarded
  <2>6. RowsSound(r)'
    BY <2>1, <2>3, <2>4 DEF RowsSound, NoRows
  <2> QED
    BY <2>5, <2>6
<1>6. ASSUME InsertDevice(r) PROVE AskSound(r)' /\ RowsSound(r)'
  <2>1. /\ req[r].kind = "REGISTER" /\ NoRows(r) /\ req[r].user \in Users
        /\ UNCHANGED <<sessions, tokens, req>>
    BY <1>0, <1>6 DEF InsertDevice, At, RowsSound, AskSound, Sound, Guarded
  <2>2. \/ pc'[r] = "failed" /\ devices' = devices
        \/ /\ pc'[r] = "add session"
           /\ devices'[r].user = req[r].user /\ devices'[r].name = req[r].name
    <3>1. ASSUME AddDevice(r, req[r].name)
          PROVE  devices'[r].user = req[r].user /\ devices'[r].name = req[r].name
      BY <3>1 DEF AddDevice, Typed
    <3> QED
      BY <1>6, <3>1 DEF InsertDevice, Goto, Typed
  <2>3. Sound(req[r])'
    <3>1. Sound(req[r])
      BY <1>0, <2>1 DEF AskSound, Guarded
    <3> QED
      BY <2>1, <3>1, SoundForGood DEF Sound
  <2>4. AskSound(r)'
    BY <1>0, <2>1, <2>2, <2>3 DEF AskSound, Route
  <2>5. RowsSound(r)'
    <3>1. CASE pc'[r] = "failed" /\ devices' = devices
      BY <2>1, <3>1 DEF RowsSound, NoRows, NoDevice
    <3>2. CASE /\ pc'[r] = "add session"
               /\ devices'[r].user = req[r].user /\ devices'[r].name = req[r].name
      <4>1. /\ devices'[r].user = req'[r].user /\ devices'[r].name = NameOf(r)'
            /\ Registered(r)' /\ sessions'[r] = NoSession /\ r \notin tokens'
            /\ req'[r].kind = "REGISTER"
        BY <2>1, <3>2 DEF NameOf, Registered, NoRows
      <4> QED
        BY <3>2, <4>1 DEF RowsSound
    <3> QED
      BY <2>2, <3>1, <3>2
  <2> QED
    BY <2>4, <2>5
<1>7. ASSUME InsertSession(r) PROVE AskSound(r)' /\ RowsSound(r)'
  <2>1. /\ req[r].kind = "REGISTER" /\ Registered(r) /\ r \notin tokens
        /\ req[r].user \in Users
        /\ UNCHANGED <<devices, tokens, req>>
    BY <1>0, <1>7 DEF InsertSession, At, RowsSound, AskSound, Sound, Guarded
  <2>2. /\ pc'[r] = "add token"
        /\ sessions'[r] = [user |-> req[r].user, device |-> r, revoked |-> FALSE]
    BY <1>7 DEF InsertSession, AddSession, Goto, Typed
  <2>3. Sound(req[r])'
    <3>1. Sound(req[r])
      BY <1>0, <2>1 DEF AskSound, Guarded
    <3> QED
      BY <2>1, <3>1, SoundForGood DEF Sound
  <2>4. AskSound(r)'
    BY <1>0, <2>1, <2>2, <2>3 DEF AskSound, Route
  <2>5. devices[r].user = req[r].user /\ devices[r].name = NameOf(r)
    <3>1. devices[r] # NoDevice
      BY <2>1 DEF Registered, NoDevice
    <3> QED
      BY <1>0, <3>1 DEF RowsSound
  <2>6. RowsSound(r)'
    <3>1. /\ devices'[r].user = req'[r].user /\ devices'[r].name = NameOf(r)'
          /\ DeviceFor(r)' = r /\ r \notin tokens' /\ req'[r].kind = "REGISTER"
      BY <2>1, <2>5 DEF NameOf, DeviceFor
    <3>2. sessions'[r].user = req'[r].user /\ sessions'[r].device = r
      BY <1>7 DEF InsertSession, AddSession, Typed
    <3>3. sessions'[r].user # None
      BY <2>1, <3>2
    <3> QED
      BY <2>1, <2>2, <3>1, <3>2, <3>3 DEF RowsSound
  <2> QED
    BY <2>4, <2>6
<1>8. ASSUME InsertToken(r) PROVE AskSound(r)' /\ RowsSound(r)'
  <2>1. /\ req[r].kind = "REGISTER" /\ pc[r] = "add token" /\ pc'[r] = "answer"
        /\ tokens' = tokens \cup {r} /\ UNCHANGED <<devices, sessions, req>>
    BY <1>8 DEF InsertToken, At, Goto, Typed
  <2>2. Sound(req[r])'
    <3>1. Sound(req[r])
      BY <1>0, <2>1 DEF AskSound, Guarded
    <3> QED
      BY <2>1, <3>1, SoundForGood DEF Sound
  <2>3. AskSound(r)'
    BY <1>0, <2>1, <2>2 DEF AskSound, Route
  <2>4. RowsSound(r)'
    BY <1>0, <2>1 DEF RowsSound, Registered, NameOf, DeviceFor
  <2> QED
    BY <2>3, <2>4
<1>9. ASSUME InsertMember(r) \/ Answer(r) \/ Fail(r) PROVE AskSound(r)' /\ RowsSound(r)'
  <2>1. /\ UNCHANGED <<devices, sessions, tokens, req>>
        /\ \/ req[r].kind = "ADD" /\ pc'[r] \in {"ok", "failed"}
           \/ pc[r] = "answer" /\ pc'[r] = "ok"
           \/ pc[r] \notin Over /\ pc'[r] = "failed"
    BY <1>9 DEF InsertMember, Answer, Fail, At, Goto, Typed, tables
  <2>2. req[r].kind # "NONE" /\ req[r].kind \in Kinds
    BY <1>0, <2>1 DEF AskSound, Route, Over, Typed, Asks
  <2>3. pc[r] = "answer" => req[r].kind \in {"LOGIN", "REFRESH", "REGISTER"}
    BY <1>0, <2>2 DEF AskSound, Route, Kinds, Guarded
  <2>4. pc'[r] \in Route(req[r].kind)
    BY <2>1, <2>2, <2>3 DEF Route, Kinds, Guarded
  <2> QED
    BY <1>0, <2>1, <2>2, <2>4, QuietGranted DEF RowsSound
<1> QED
  BY <1>1, <1>2, <1>3, <1>4, <1>5, <1>6, <1>7, <1>8, <1>9 DEF Login, Refresh, Register, Member

(* Granted and Signed are kept by every step.                               *)
LEMMA GrantedNext ==
  ASSUME Typed, Granted, Signed, Typed', [Next]_vars
  PROVE  Kept /\ Granted' /\ Signed'
<1> USE AccountAssumption
<1>1. ASSUME NEW r \in Requests, 
             \/ Arrive(r) \/ Login(r) \/ Refresh(r) \/ RequireAuth(r) \/ Logout(r)
             \/ Register(r) \/ Member(r) \/ Answer(r) \/ Fail(r)
             \/ RevokeDevice(r) \/ EndSession(r) \/ EndToken(r)
      PROVE  Kept /\ Granted' /\ Signed'
  <2>1. Kept /\ \A q \in Requests \ {r} : Beside(q)
    BY <1>1, Frame
  <2>2. AskSound(r)' /\ RowsSound(r)'
    <3>1. CASE Arrive(r)
      BY <3>1, ArriveGranted
    <3>2. CASE \/ Login(r) \/ Refresh(r) \/ RequireAuth(r) \/ Logout(r)
               \/ Register(r) \/ Member(r) \/ Answer(r) \/ Fail(r)
      BY <2>1, <3>2, StepGranted
    <3>3. CASE RevokeDevice(r) \/ EndSession(r) \/ EndToken(r)
      <4>1. Beside(r)
        <5>1. /\ UNCHANGED <<pc, req, sessions, tokens>>
              /\ devices' = devices \/ Registered(r)
          BY <3>3 DEF RevokeDevice, EndSession, EndToken, tables
        <5> QED
          BY <5>1 DEF Beside, Registered, NoDevice
      <4> QED
        BY <2>1, <4>1, OthersGranted
    <3> QED
      BY <1>1, <3>1, <3>2, <3>3
  <2>3. Granted'
    BY <2>1, <2>2, OthersGranted DEF Granted
  <2>4. ASSUME NEW t \in Requests, issued'[t] # NoClaims PROVE Sound(issued[t])'
    <3>1. CASE issued'[t] = issued[t]
      <4>1. Sound(issued[t])
        BY <2>4, <3>1 DEF Signed
      <4> QED
        BY <2>1, <3>1, <4>1, SoundForGood DEF Sound
    <3>2. CASE issued'[t] # issued[t]
      <4>1. Answer(r) /\ t = r
        <5>1. CASE Answer(r) \/ EndToken(r)
          BY <2>4, <3>2, <5>1 DEF Answer, EndToken, Typed
        <5>2. CASE ~Answer(r) /\ ~EndToken(r)
          BY <1>1, <3>2, <5>2 DEF Arrive, AskLogin, AskRefresh, AskWithToken, Send, Login,
               LoginDevice, OpenSession, FirstDevice, Provision, Refresh, ReadToken,
               ReadSession, ReadDevice, RequireAuth, VerifyToken, VerifyDevice, VerifySession,
               Logout, Register, CheckName, InsertDevice, InsertSession, InsertToken, Member,
               CheckCaller, CheckExisting, InsertMember, Fail, RevokeDevice, EndSession, Check
        <5> QED
          BY <5>1, <5>2
      <4>2. issued'[r] = Claims(r) /\ pc[r] = "answer" /\ UNCHANGED <<devices, sessions, tokens>>
        BY <4>1 DEF Answer, tables, Typed
      <4>3. AskSound(r) /\ RowsSound(r) /\ req[r] \in Asks
        BY DEF Granted, Typed
      <4>4. req[r].kind \in {"LOGIN", "REFRESH", "REGISTER"}
        BY <4>2, <4>3 DEF AskSound, Route, Asks, Kinds, Guarded
      <4>5. CASE req[r].kind = "REFRESH"
        <5> DEFINE s == req[r].sid
        <5>1. Claims(r).user = req[r].user /\ Claims(r).device = req[r].device /\ Claims(r).sid = s
          BY <4>5 DEF Claims
        <5>2. s \in tokens /\ req[r].user = sessions[s].user /\ req[r].device = sessions[s].device
          BY <4>2, <4>3, <4>5 DEF AskSound
        <5>3. s \in Requests /\ sessions[s].user # None
          BY <5>2 DEF Granted, RowsSound, Typed
        <5>4. sessions[s] # NoSession
          BY <5>3 DEF NoSession
        <5>5. /\ sessions[s].user \in Users /\ sessions[s].device \in Requests
              /\ devices[sessions[s].device].user = sessions[s].user
          <6>1. RowsSound(s) /\ sessions[s].user \in Users /\ req[s] \in Asks
            BY <5>3, <5>4, RowsHaveOwners DEF Granted, Typed
          <6>2. DeviceFor(s) \in Requests
            BY <5>3, <6>1 DEF DeviceFor, Asks
          <6> QED
            BY <5>4, <6>1, <6>2 DEF RowsSound
        <5> QED
          BY <4>1, <4>2, <5>1, <5>2, <5>3, <5>5 DEF Sound
      <4>6. CASE req[r].kind \in {"LOGIN", "REGISTER"}
        <5>1. Claims(r).user = req[r].user /\ Claims(r).device = DeviceFor(r) /\ Claims(r).sid = r
          BY <4>6 DEF Claims, DeviceFor
        <5>2. r \in tokens
          BY <4>2, <4>3, <4>6 DEF RowsSound
        <5>3. sessions[r] # NoSession
          <6>1. sessions[r].user # None
            BY <4>3, <5>2 DEF RowsSound
          <6> QED
            BY <6>1 DEF NoSession
        <5>4. /\ sessions[r].user = req[r].user /\ sessions[r].device = DeviceFor(r)
              /\ devices[DeviceFor(r)].user = req[r].user
          BY <4>3, <5>3 DEF RowsSound
        <5>5. req[r].user \in Users /\ DeviceFor(r) \in Requests
          BY <4>3, <4>6, RowsHaveOwners DEF DeviceFor, Asks
        <5> QED
          BY <4>1, <4>2, <5>1, <5>2, <5>4, <5>5 DEF Sound
      <4> QED
        BY <4>4, <4>5, <4>6
    <3> QED
      BY <3>1, <3>2
  <2> QED
    BY <2>1, <2>3, <2>4 DEF Signed
<1>2. CASE UNCHANGED vars
  <2>1. Kept /\ \A q \in Requests : Beside(q)
    BY <1>2 DEF vars, tables, Kept, Beside, Registered, Revoked
  <2>2. Granted'
    BY <2>1, OthersGranted DEF Granted
  <2>3. Signed'
    BY <1>2 DEF vars, tables, Signed, Sound
  <2> QED
    BY <2>1, <2>2, <2>3
<1> QED
  BY <1>1, <1>2 DEF Next

-----------------------------------------------------------------------------
(* Device identifiers.                                                     *)

LEMMA NamesNext ==
  ASSUME Typed, Granted, NamesAreUnique, Typed', Granted', Kept, [Next]_vars
  PROVE  NamesAreUnique'
<1> USE AccountAssumption
<1>1. ASSUME NEW r \in Requests, devices[r] = NoDevice, NEW n,
             devices' = [devices EXCEPT ![r] = [user |-> req[r].user, name |-> n,
                                                revoked |-> FALSE]],
             \A d \in Requests : Registered(d) => devices[d].name # n
      PROVE  NamesAreUnique'
  <2>1. /\ devices'[r].name = n
        /\ \A d \in Requests \ {r} : devices'[d] = devices[d]
    BY <1>1 DEF Typed
  <2> QED
    BY <1>1, <2>1 DEF NamesAreUnique, Registered
<1>2. ASSUME NEW r \in Requests, Provision(r) PROVE NamesAreUnique'
  <2>1. devices[r] = NoDevice
    BY <1>2 DEF Provision, At, Granted, RowsSound, NoRows
  <2>2. ASSUME NEW d \in Requests, Registered(d), devices[d].name = r PROVE FALSE
    <3>1. d # r
      BY <2>1, <2>2 DEF Registered, NoDevice
    <3>2. devices[d] # NoDevice
      BY <2>2 DEF Registered, NoDevice
    <3>3. devices[d].name = NameOf(d) /\ req[d].kind \in {"LOGIN", "REGISTER"}
      BY <3>2 DEF Granted, RowsSound, NoRows
    <3>4. NameOf(d) \in Names \cup {d}
      BY <3>3 DEF NameOf, Granted, AskSound
    <3> QED
      BY <2>2, <3>1, <3>3, <3>4
  <2>3. devices' = [devices EXCEPT ![r] = [user |-> req[r].user, name |-> r, revoked |-> FALSE]]
    BY <1>2 DEF Provision, AddDevice
  <2> QED
    BY <1>1, <2>1, <2>2, <2>3
<1>3. ASSUME NEW r \in Requests, InsertDevice(r) PROVE NamesAreUnique'
  <2>1. devices[r] = NoDevice
    BY <1>3 DEF InsertDevice, At, Granted, RowsSound, NoRows
  <2>2. CASE devices' = devices
    BY <2>2 DEF NamesAreUnique, Registered
  <2>3. CASE devices' # devices
    <3>1. ~Taken(req[r].name) /\ AddDevice(r, req[r].name)
      BY <1>3, <2>3 DEF InsertDevice
    <3> QED
      BY <1>1, <2>1, <3>1 DEF Taken, AddDevice
  <2> QED
    BY <2>2, <2>3
<1>4. ASSUME NEW d \in Requests, RevokeDevice(d) PROVE NamesAreUnique'
  <2>1. devices[d] \in DeviceRows
    BY DEF Typed
  <2>2. \A e \in Requests : devices'[e].user = devices[e].user /\ devices'[e].name = devices[e].name
    BY <1>4, <2>1 DEF RevokeDevice, Typed, DeviceRows
  <2> QED
    BY <2>2 DEF NamesAreUnique, Registered
<1>5. CASE devices' = devices
  BY <1>5 DEF NamesAreUnique, Registered
<1>6. ASSUME NEW r \in Requests,
             \/ Arrive(r) \/ Login(r) \/ Refresh(r) \/ RequireAuth(r) \/ Logout(r)
             \/ Register(r) \/ Member(r) \/ Answer(r) \/ Fail(r)
             \/ EndSession(r) \/ EndToken(r),
             ~Provision(r), ~InsertDevice(r)
      PROVE  devices' = devices
  BY <1>6 DEF Arrive, AskLogin, AskRefresh, AskWithToken, Send, Login, LoginDevice,
       OpenSession, FirstDevice, Refresh, ReadToken, ReadSession, ReadDevice, RequireAuth,
       VerifyToken, VerifyDevice, VerifySession, Logout, Register, CheckName, InsertSession,
       InsertToken, Member, CheckCaller, CheckExisting, InsertMember, Answer, Fail,
       EndSession, EndToken, Check, tables
<1> QED
  BY <1>2, <1>3, <1>4, <1>5, <1>6 DEF Next, vars, tables

-----------------------------------------------------------------------------
(* Requests that had to be refused.                                        *)

(* The columns a request is judged by.                                     *)
SameAsk(a, b) ==
  a.kind = b.kind /\ a.valid = b.valid /\ a.sid = b.sid
  /\ (a.kind # "REFRESH" => a.user = b.user /\ a.device = b.device)

(* What makes a request hopeless is never taken back.                       *)
LEMMA HopelessForGood ==
  ASSUME Typed, Granted, Kept, NEW r \in Requests, Hopeless(req[r]),
         req[r].kind # "NONE", SameAsk(req[r], req'[r])
  PROVE  Hopeless(req[r])'
<1> USE AccountAssumption
<1> DEFINE q == req[r]
           n == req'[r]
<1>1. AskSound(r) /\ q \in Asks
  BY DEF Granted, Typed
<1>2. n.kind = q.kind /\ n.valid = q.valid /\ n.sid = q.sid
  BY DEF SameAsk
<1>3. q.kind # "REFRESH" => n.user = q.user /\ n.device = q.device
  BY DEF SameAsk
<1>4. CASE ~q.valid
  BY <1>2, <1>4 DEF Hopeless
<1>5. CASE q.kind = "LOGIN" /\ q.device = None /\ DevicesOf(q.user) # {}
  <2>1. PICK d \in Requests : devices[d].user = q.user
    BY <1>5 DEF DevicesOf
  <2>2. q.user \in Users
    BY <1>1, <1>5 DEF AskSound
  <2>3. devices'[d].user = q.user
    BY <2>1, <2>2 DEF Kept, Registered
  <2>4. n.user = q.user /\ n.device = q.device
    BY <1>3, <1>5
  <2>5. DevicesOf(req[r].user)' # {}
    BY <2>3, <2>4 DEF DevicesOf
  <2> QED
    BY <1>2, <1>5, <2>4, <2>5 DEF Hopeless
<1>6. CASE q.kind = "LOGIN" /\ q.device # None
             /\ (devices[q.device].user # q.user \/ Revoked(q.device))
  <2>1. q.device \in Requests /\ Registered(q.device)
    BY <1>1, <1>6 DEF AskSound, Asks
  <2>2. devices'[q.device].user # q.user \/ devices'[q.device].revoked
    BY <1>6, <2>1 DEF Kept, Revoked
  <2> QED
    BY <1>2, <1>3, <1>6, <2>2 DEF Hopeless, Revoked
<1>7. CASE q.kind = "REFRESH" /\ (Lapsed(q.sid) \/ Revoked(sessions[q.sid].device))
  <2>1. q.sid \in Requests /\ sessions[q.sid].user # None
    BY <1>1, <1>7, SessionDevice DEF AskSound
  <2>2. sessions[q.sid].device \in Requests /\ Registered(sessions[q.sid].device)
    BY <1>1, <1>7, SessionDevice DEF AskSound
  <2>3. Lapsed(q.sid) => sessions'[q.sid].revoked \/ q.sid \in expired'
    BY <2>1 DEF Lapsed, Kept
  <2>4. sessions'[q.sid].device = sessions[q.sid].device
    BY <2>1 DEF Kept
  <2>5. Revoked(sessions[q.sid].device) => devices'[sessions[q.sid].device].revoked
    BY <2>2 DEF Kept
  <2> QED
    BY <1>2, <1>7, <2>3, <2>4, <2>5 DEF Hopeless, Revoked, Lapsed
<1>8. CASE q.kind \notin {"LOGIN", "REFRESH"} /\ (Revoked(q.device) \/ sessions[q.sid].revoked)
  <2>1. Sound(q)
    BY <1>1, <1>8 DEF AskSound, Asks, Kinds
  <2>2. /\ q.device \in Requests /\ Registered(q.device)
        /\ q.sid \in Requests /\ sessions[q.sid].user # None
    BY <2>1 DEF Sound, Registered
  <2>3. devices'[q.device].revoked \/ sessions'[q.sid].revoked
    BY <1>8, <2>2 DEF Kept, Revoked
  <2> QED
    BY <1>2, <1>3, <1>8, <2>3 DEF Hopeless, Revoked
<1> QED
  BY <1>4, <1>5, <1>6, <1>7, <1>8 DEF Hopeless

(* The columns a refresh fills in are not among them.                       *)
LEMMA AskForGood ==
  ASSUME Typed, Granted, NEW r \in Requests, [Next]_vars, ~Arrive(r)
  PROVE  /\ SameAsk(req[r], req'[r]) /\ req'[r].stale = req[r].stale
         /\ req'[r] = req[r] \/ req[r].kind = "REFRESH"
<1>1. ASSUME NEW q \in Requests, Arrive(q) PROVE req'[r] = req[r]
  <2>1. q # r
    BY <1>1
  <2>2. PICK a : Send(q, a)
    BY <1>1, Zenon DEF Arrive, AskLogin, AskRefresh, AskWithToken
  <2> QED
    BY <2>1, <2>2 DEF Send, Typed
<1>2. ASSUME NEW q \in Requests, ReadSession(q)
      PROVE  /\ SameAsk(req[r], req'[r]) /\ req'[r].stale = req[r].stale
             /\ req'[r] = req[r] \/ req[r].kind = "REFRESH"
  <2>1. CASE q # r
    BY <1>2, <2>1 DEF ReadSession, Typed, SameAsk
  <2>2. CASE q = r
    <3>1. req[r] \in Asks
      BY DEF Typed
    <3> QED
      BY <1>2, <2>2, <3>1 DEF ReadSession, At, Typed, SameAsk, Asks
  <2> QED
    BY <2>1, <2>2
<1>3. CASE req' = req
  BY <1>3 DEF SameAsk
<1>4. ASSUME NEW q \in Requests,
             \/ Login(q) \/ Refresh(q) \/ RequireAuth(q) \/ Logout(q)
             \/ Register(q) \/ Member(q) \/ Answer(q) \/ Fail(q)
             \/ RevokeDevice(q) \/ EndSession(q) \/ EndToken(q),
             ~ReadSession(q)
      PROVE  req' = req
  BY <1>4 DEF Login, LoginDevice,
       OpenSession, FirstDevice, Provision, Refresh, ReadToken, ReadDevice, RequireAuth,
       VerifyToken, VerifyDevice, VerifySession, Logout, Register, CheckName, InsertDevice,
       InsertSession, InsertToken, Member, CheckCaller, CheckExisting, InsertMember, Answer,
       Fail, RevokeDevice, EndSession, EndToken, Check
<1>5. SameAsk(req[r], req[r])
  BY DEF SameAsk
<1> QED
  BY <1>1, <1>2, <1>3, <1>4, <1>5 DEF Next, vars

(* What a step does to a request that is not served yet.                    *)
LEMMA WaitingStep ==
  ASSUME Typed, Granted, NEW r \in Requests, [Next]_vars, ~Arrive(r),
         pc[r] \in {"arrived", "device", "session", "refused", "failed"}, NoRows(r)
  PROVE  /\ NoRows(r)'
         /\ \/ pc'[r] = pc[r]
            \/ pc'[r] = "failed"
            \/ LoginDevice(r) \/ FirstDevice(r) \/ Refresh(r) \/ RequireAuth(r)
<1>1. ASSUME NEW q \in Requests, q # r, 
             \/ Arrive(q) \/ Login(q) \/ Refresh(q) \/ RequireAuth(q) \/ Logout(q)
             \/ Register(q) \/ Member(q) \/ Answer(q) \/ Fail(q)
             \/ RevokeDevice(q) \/ EndSession(q) \/ EndToken(q)
      PROVE  NoRows(r)' /\ pc'[r] = pc[r]
  BY <1>1, Frame DEF Beside, NoRows
<1>2. ASSUME RevokeDevice(r) \/ EndSession(r) \/ EndToken(r)
      PROVE  NoRows(r)' /\ pc'[r] = pc[r]
  <2>1. ~RevokeDevice(r)
    BY DEF RevokeDevice, NoRows, Registered, NoDevice
  <2> QED
    BY <1>2, <2>1 DEF EndSession, EndToken, tables, NoRows
<1>3. ASSUME LoginDevice(r) \/ FirstDevice(r) \/ Refresh(r) \/ RequireAuth(r) \/ Fail(r)
      PROVE  NoRows(r)'
  BY <1>3 DEF LoginDevice, FirstDevice, Refresh, ReadToken, ReadSession, ReadDevice,
       RequireAuth, VerifyToken, VerifyDevice, VerifySession, Fail, Check, tables, NoRows
<1>4. Fail(r) => pc'[r] = "failed"
  BY DEF Fail, Goto, Typed
<1>5. ASSUME OpenSession(r) \/ Provision(r) \/ Logout(r) \/ Register(r) \/ Member(r) \/ Answer(r)
      PROVE  FALSE
  BY <1>5 DEF OpenSession, Provision, Logout, Register, CheckName, InsertDevice, InsertSession,
       InsertToken, Member, CheckCaller, CheckExisting, InsertMember, Answer, At
<1>6. CASE UNCHANGED vars
  BY <1>6 DEF vars, tables, NoRows
<1> QED
  BY <1>1, <1>2, <1>3, <1>4, <1>5, <1>6 DEF Next, Login

LEMMA StaleNext ==
  ASSUME Typed, Granted, StaleSounds, Typed', Granted', Kept, [Next]_vars,
         NEW r \in Requests
  PROVE  StaleSound(r)'
<1> USE AccountAssumption
<1>1. ASSUME NEW q, q \in Asks, Send(r, q) PROVE StaleSound(r)'
  <2> DEFINE a == [q EXCEPT !.stale = Hopeless(q)]
  <2>1. /\ a.kind = q.kind /\ a.user = q.user /\ a.device = q.device /\ a.sid = q.sid
        /\ a.valid = q.valid /\ a.stale = Hopeless(q)
    BY <1>1 DEF Asks
  <2>2. /\ req' = [req EXCEPT ![r] = a] /\ pc' = [pc EXCEPT ![r] = "arrived"] /\ pc[r] = "unsent"
        /\ UNCHANGED <<devices, sessions, tokens, expired>>
    BY <1>1 DEF Send, Goto, tables
  <2> HIDE DEF a
  <2>3. req'[r] = a /\ pc'[r] = "arrived"
    BY <2>2 DEF Typed
  <2>4. req[r].kind = "NONE"
    BY <2>2 DEF Granted, AskSound, Route, Typed, Asks, Kinds, Guarded
  <2>5. NoRows(r)'
    BY <2>2, <2>4 DEF Granted, RowsSound, NoRows
  <2>6. ASSUME a.stale PROVE Hopeless(req[r])'
    <3>1. Hopeless(q)
      BY <2>1, <2>6
    <3>2. /\ req'[r].kind = q.kind /\ req'[r].user = q.user /\ req'[r].device = q.device
          /\ req'[r].sid = q.sid /\ req'[r].valid = q.valid
      BY <2>1, <2>3
    <3>3. DevicesOf(req[r].user)' = DevicesOf(q.user)
      BY <2>2, <3>2 DEF DevicesOf
    <3> QED
      BY <2>2, <3>1, <3>2, <3>3 DEF Hopeless, Lapsed, Revoked
  <2> QED
    BY <2>3, <2>5, <2>6 DEF StaleSound
<1>2. CASE Arrive(r)
  <2>1. ASSUME NEW t \in Requests PROVE issued[t] \in ClaimSets
    BY DEF Typed
  <2>2. PICK q \in Asks : Send(r, q)
    <3>1. CASE AskLogin(r)
      <4>1. ASSUME NEW u \in Users, NEW d \in Requests \cup {None}, NEW valid \in BOOLEAN
            PROVE  Ask("LOGIN", valid, [NoClaims EXCEPT !.user = u, !.device = d]) \in Asks
        BY DEF Ask, NoClaims, Asks, Kinds
      <4> QED
        BY <3>1, <4>1 DEF AskLogin
    <3>2. CASE AskRefresh(r)
      <4>1. ASSUME NEW s \in Requests, NEW valid \in BOOLEAN
            PROVE  Ask("REFRESH", valid, [NoClaims EXCEPT !.sid = s]) \in Asks
        BY DEF Ask, NoClaims, Asks, Kinds
      <4> QED
        BY <3>2, <4>1 DEF AskRefresh
    <3>3. CASE AskWithToken(r)
      <4>1. ASSUME NEW t \in Requests, NEW valid \in BOOLEAN
            PROVE  Ask("LOGOUT", valid, issued[t]) \in Asks
        BY <2>1 DEF Ask, ClaimSets, Asks, Kinds, Guarded
      <4>2. ASSUME NEW t \in Requests, NEW valid \in BOOLEAN, NEW n \in Names \cup {r}
            PROVE  [Ask("REGISTER", valid, issued[t]) EXCEPT !.name = n] \in Asks
        BY <2>1 DEF Ask, ClaimSets, Asks, Kinds, Guarded
      <4>3. ASSUME NEW t \in Requests, NEW valid \in BOOLEAN, NEW p \in Projects, NEW u \in Users
            PROVE  [Ask("ADD", valid, issued[t]) EXCEPT !.project = p, !.other = u] \in Asks
        BY <2>1 DEF Ask, ClaimSets, Asks, Kinds, Guarded
      <4> QED
        BY <3>3, <4>1, <4>2, <4>3 DEF AskWithToken
    <3> QED
      BY <1>2, <3>1, <3>2, <3>3 DEF Arrive
  <2> QED
    BY <1>1, <2>2
<1>3. ASSUME ~Arrive(r), req'[r].stale PROVE StaleSound(r)'
  <2>1. SameAsk(req[r], req'[r]) /\ req[r].stale
    BY <1>3, AskForGood
  <2>2. StaleSound(r) /\ AskSound(r) /\ req[r] \in Asks
    BY DEF StaleSounds, Granted, Typed
  <2>3. /\ pc[r] \in {"arrived", "device", "session", "refused", "failed"}
        /\ NoRows(r) /\ Hopeless(req[r])
    BY <2>1, <2>2 DEF StaleSound
  <2>4. req[r].kind # "NONE"
    BY <2>2, <2>3 DEF AskSound, Route
  <2>5. Hopeless(req[r])'
    BY <2>1, <2>3, <2>4, HopelessForGood
  <2>6. /\ NoRows(r)'
        /\ \/ pc'[r] = pc[r]
           \/ pc'[r] = "failed"
           \/ LoginDevice(r) \/ FirstDevice(r) \/ Refresh(r) \/ RequireAuth(r)
    BY <1>3, <2>3, WaitingStep
  <2>7. req'[r].valid = req[r].valid /\ req'[r].kind = req[r].kind /\ req'[r].sid = req[r].sid
    BY <2>1 DEF SameAsk
  <2>8. ASSUME pc'[r] \in {"arrived", "device", "session", "refused", "failed"},
               pc'[r] \in {"device", "session"} => req[r].valid,
               pc'[r] = "device" /\ req[r].kind = "REFRESH" =>
                 devices'[sessions'[req[r].sid].device].revoked,
               pc'[r] = "session" /\ req[r].kind \in Guarded => sessions'[req[r].sid].revoked
        PROVE  StaleSound(r)'
    BY <2>5, <2>6, <2>7, <2>8 DEF StaleSound, Revoked
  <2>0. req[r].valid \in BOOLEAN
    BY <2>2 DEF Asks
  <2>9. req[r].kind = "REFRESH" => /\ req[r].sid \in Requests /\ sessions[req[r].sid].user # None
                                   /\ sessions[req[r].sid].device \in Requests
                                   /\ Registered(sessions[req[r].sid].device)
    BY <2>2, SessionDevice DEF AskSound
  <2>10. req[r].kind \in Guarded =>
           req[r].sid \in Requests /\ sessions[req[r].sid].user # None
    BY <2>2 DEF AskSound, Sound
  <2>11. CASE pc'[r] = pc[r]
    <3>1. pc[r] = "device" /\ req[r].kind = "REFRESH" =>
            devices'[sessions'[req[r].sid].device].revoked
      BY <2>1, <2>2, <2>9 DEF StaleSound, Kept, Revoked
    <3>2. pc[r] = "session" /\ req[r].kind \in Guarded => sessions'[req[r].sid].revoked
      BY <2>1, <2>2, <2>10 DEF StaleSound, Kept
    <3> QED
      BY <2>1, <2>2, <2>3, <2>8, <2>11, <3>1, <3>2 DEF StaleSound
  <2>12. CASE pc'[r] \in {"failed", "refused"}
    BY <2>8, <2>12
  <2>13. CASE LoginDevice(r) \/ FirstDevice(r)
    <3>1. pc'[r] = "refused"
      BY <2>3, <2>13 DEF LoginDevice, FirstDevice, At, Check, Goto, Typed, Hopeless
    <3> QED
      BY <2>12, <3>1
  <2>14. CASE ReadToken(r)
    <3>1. pc'[r] = "refused" \/ (pc'[r] = "session" /\ req[r].valid /\ req[r].kind = "REFRESH")
      <4>1. req[r].kind = "REFRESH"
        BY <2>14 DEF ReadToken, At
      <4>2. CASE req[r].valid /\ req[r].sid \in tokens \ expired
        BY <2>14, <4>1, <4>2 DEF ReadToken, Check, Goto, Typed
      <4>3. CASE ~(req[r].valid /\ req[r].sid \in tokens \ expired)
        <5>1. pc' = [pc EXCEPT ![r] = "refused"]
          BY <2>14, <4>3 DEF ReadToken, Check, Goto
        <5> QED
          BY <5>1 DEF Typed
      <4> QED
        BY <4>2, <4>3
    <3> QED
      BY <2>8, <2>12, <3>1 DEF Guarded
  <2>15. CASE ReadSession(r)
    <3>1. req[r].kind = "REFRESH" /\ pc[r] = "session" /\ UNCHANGED <<devices, sessions>>
      BY <2>15 DEF ReadSession, At, tables
    <3>2. req[r].valid
      BY <2>1, <2>2, <3>1 DEF StaleSound
    <3>3. pc'[r] = "refused" \/ (pc'[r] = "device" /\ ~Lapsed(req[r].sid))
      <4>1. CASE sessions[req[r].sid].user # None /\ ~Lapsed(req[r].sid)
        BY <2>15, <4>1 DEF ReadSession, Goto, Typed
      <4>2. CASE ~(sessions[req[r].sid].user # None /\ ~Lapsed(req[r].sid))
        <5>1. pc' = [pc EXCEPT ![r] = "refused"]
          BY <2>15, <4>2 DEF ReadSession, Goto
        <5> QED
          BY <5>1 DEF Typed
      <4> QED
        BY <4>1, <4>2
    <3>4. Lapsed(req[r].sid) \/ Revoked(sessions[req[r].sid].device)
      BY <2>3, <3>1, <3>2 DEF Hopeless
    <3> QED
      BY <2>8, <2>12, <3>1, <3>2, <3>3, <3>4 DEF Revoked, Guarded
  <2>16. CASE ReadDevice(r)
    <3>1. req[r].kind = "REFRESH" /\ pc[r] = "device"
      BY <2>16 DEF ReadDevice, At
    <3>2. Revoked(req[r].device)
      BY <2>1, <2>2, <3>1 DEF StaleSound, AskSound
    <3>3. pc'[r] = "refused"
      BY <2>16, <3>2 DEF ReadDevice, Check, Goto, Typed
    <3> QED
      BY <2>12, <3>3
  <2>17. CASE RequireAuth(r)
    <3>1. req[r].kind \in Guarded /\ UNCHANGED <<devices, sessions>>
      BY <2>17 DEF RequireAuth, VerifyToken, VerifyDevice, VerifySession, Check, tables
    <3>2. req[r].kind # "REFRESH" /\ req[r].kind # "LOGIN"
      BY <3>1 DEF Guarded
    <3>3. CASE VerifyToken(r)
      <4>1. pc'[r] = "refused" \/ (pc'[r] = "device" /\ req[r].valid)
        <5>1. CASE req[r].valid
          BY <3>3, <5>1 DEF VerifyToken, Check, Goto, Typed
        <5>2. CASE ~req[r].valid
          <6>1. pc' = [pc EXCEPT ![r] = "refused"]
            BY <3>3, <5>2 DEF VerifyToken, Check, Goto
          <6> QED
            BY <6>1 DEF Typed
        <5> QED
          BY <5>1, <5>2
      <4> QED
        BY <2>8, <2>12, <3>2, <4>1
    <3>4. CASE VerifyDevice(r)
      <4>1. /\ req[r].valid
            /\ pc'[r] = "refused" \/ (pc'[r] = "session" /\ ~Revoked(req[r].device))
        <5>1. req[r].valid
          BY <2>1, <2>2, <3>4 DEF StaleSound, VerifyDevice
        <5>2. CASE Registered(req[r].device) /\ ~Revoked(req[r].device)
          BY <3>4, <5>1, <5>2 DEF VerifyDevice, Check, Goto, Typed
        <5>3. CASE ~(Registered(req[r].device) /\ ~Revoked(req[r].device))
          <6>1. pc' = [pc EXCEPT ![r] = "refused"]
            BY <3>4, <5>3 DEF VerifyDevice, Check, Goto
          <6> QED
            BY <5>1, <6>1 DEF Typed
        <5> QED
          BY <5>2, <5>3
      <4>2. Revoked(req[r].device) \/ sessions[req[r].sid].revoked
        BY <2>3, <3>2, <4>1 DEF Hopeless
      <4> QED
        BY <2>8, <2>12, <3>1, <3>2, <4>1, <4>2
    <3>5. CASE VerifySession(r)
      <4>1. sessions[req[r].sid].revoked
        BY <2>1, <2>2, <3>5 DEF StaleSound, VerifySession
      <4>2. pc'[r] = "refused"
        BY <3>5, <4>1 DEF VerifySession, Check, Goto, Typed
      <4> QED
        BY <2>12, <4>2
    <3> QED
      BY <2>17, <3>3, <3>4, <3>5 DEF RequireAuth
  <2> QED
    BY <2>6, <2>11, <2>12, <2>13, <2>14, <2>15, <2>16, <2>17 DEF Refresh
<1> QED
  BY <1>2, <1>3 DEF StaleSound

-----------------------------------------------------------------------------
(* Members.                                                                *)

LEMMA MembersNext ==
  ASSUME Typed, Granted, StaleSounds, CallersAreMembers, MembersAreVouchedFor,
         Typed', Granted', Kept, [Next]_vars
  PROVE  CallersAreMembers' /\ MembersAreVouchedFor'
<1> USE AccountAssumption
<1>1. ASSUME NEW r \in Requests, req[r].kind = "ADD"
      PROVE  ~Arrive(r) /\ req'[r] = req[r]
  <2>1. pc[r] # "unsent"
    BY <1>1 DEF Granted, AskSound, Route, Typed, Asks, Kinds, Guarded
  <2>2. ~Arrive(r)
    BY <2>1 DEF Arrive, AskLogin, AskRefresh, AskWithToken, Send
  <2> QED
    BY <1>1, <2>2, AskForGood
<1>2. ASSUME NEW r \in Requests, req'[r].kind = "ADD", pc'[r] \in {"existing", "add member", "ok"}
      PROVE  req'[r].user \in members'[req'[r].project]
  <2>1. ~Arrive(r)
    BY <1>2 DEF Arrive, AskLogin, AskRefresh, AskWithToken, Send, Goto, Typed
  <2>2. SameAsk(req[r], req'[r])
    BY <2>1, AskForGood
  <2>3. req[r].kind = "ADD"
    BY <1>2, <2>2 DEF SameAsk
  <2>4. req'[r] = req[r] /\ req[r].project \in Projects
    BY <1>1, <2>3 DEF Granted, AskSound
  <2>5. CASE pc[r] \in {"existing", "add member", "ok"} \/ CheckCaller(r)
    <3>1. req[r].user \in members[req[r].project]
      BY <1>2, <2>3, <2>5 DEF CallersAreMembers, CheckCaller, Check, Goto, Typed
    <3> QED
      BY <2>4, <3>1 DEF Kept
  <2>6. CASE pc[r] \notin {"existing", "add member", "ok"} /\ ~CheckCaller(r)
    <3>1. pc[r] \in {"arrived", "device", "session", "handler", "refused", "failed"}
      BY <2>3, <2>6 DEF Granted, AskSound, Route
    <3>2. ASSUME \/ Login(r) \/ Refresh(r) \/ RequireAuth(r) \/ Logout(r)
                 \/ Register(r) \/ Member(r) \/ Answer(r) \/ Fail(r)
          PROVE  FALSE
      <4>1. CASE RequireAuth(r) \/ Fail(r)
        BY <1>2, <4>1 DEF RequireAuth, VerifyToken, VerifyDevice, VerifySession, Check, Goto,
             Fail, Typed
      <4>2. CASE Login(r) \/ Refresh(r) \/ Logout(r) \/ Register(r) \/ Member(r) \/ Answer(r)
        BY <2>3, <2>6, <3>1, <4>2 DEF Login, LoginDevice, OpenSession, FirstDevice, Provision,
             Refresh, ReadToken, ReadSession, ReadDevice, Logout, Register, CheckName,
             InsertDevice, InsertSession, InsertToken, Member, CheckExisting, InsertMember,
             Answer, At
      <4> QED
        BY <3>2, <4>1, <4>2
    <3>3. pc'[r] = pc[r]
      <4>1. ASSUME NEW q \in Requests, q # r, 
                   \/ Arrive(q) \/ Login(q) \/ Refresh(q) \/ RequireAuth(q) \/ Logout(q)
                   \/ Register(q) \/ Member(q) \/ Answer(q) \/ Fail(q)
                   \/ RevokeDevice(q) \/ EndSession(q) \/ EndToken(q)
            PROVE  pc'[r] = pc[r]
        BY <4>1, Frame DEF Beside
      <4>2. ASSUME RevokeDevice(r) \/ EndSession(r) \/ EndToken(r) PROVE pc'[r] = pc[r]
        BY <4>2 DEF RevokeDevice, EndSession, EndToken
      <4>3. CASE UNCHANGED vars
        BY <4>3 DEF vars
      <4> QED
        BY <2>1, <3>2, <4>1, <4>2, <4>3 DEF Next
    <3> QED
      BY <1>2, <2>6, <3>3
  <2> QED
    BY <2>5, <2>6
<1>3. ASSUME NEW p \in Projects, NEW u \in members'[p] \ {Founder[p]}
      PROVE  \E r \in Requests :
               /\ req'[r].kind = "ADD" /\ req'[r].project = p /\ req'[r].other = u
               /\ ~req'[r].stale
               /\ req'[r].user \in members'[p] \ {u}
  <2>1. CASE u \in members[p]
    <3>1. PICK r \in Requests :
            /\ req[r].kind = "ADD" /\ req[r].project = p /\ req[r].other = u
            /\ ~req[r].stale
            /\ req[r].user \in members[p] \ {u}
      BY <2>1 DEF MembersAreVouchedFor
    <3>2. req'[r] = req[r]
      BY <1>1, <3>1
    <3> QED
      BY <3>1, <3>2 DEF Kept
  <2>2. CASE u \notin members[p]
    <3>1. PICK r \in Requests : InsertMember(r)
      <4>1. members' # members
        BY <2>2
      <4>2. ASSUME NEW r \in Requests,
                   \/ Arrive(r) \/ Login(r) \/ Refresh(r) \/ RequireAuth(r) \/ Logout(r)
                   \/ Register(r) \/ Member(r) \/ Answer(r) \/ Fail(r)
                   \/ RevokeDevice(r) \/ EndSession(r) \/ EndToken(r),
                   ~InsertMember(r)
            PROVE  members' = members
        BY <4>2 DEF tables, Arrive, AskLogin, AskRefresh, AskWithToken, Send, Login,
             LoginDevice, OpenSession, FirstDevice, Provision, Refresh, ReadToken,
             ReadSession, ReadDevice, RequireAuth, VerifyToken, VerifyDevice, VerifySession,
             Logout, Register, CheckName, InsertDevice, InsertSession, InsertToken, Member,
             CheckCaller, CheckExisting, Answer, Fail, RevokeDevice, EndSession, EndToken, Check
      <4> QED
        BY <4>1, <4>2 DEF Next, vars, tables
    <3>2. req[r].kind = "ADD" /\ pc[r] = "add member" /\ req' = req
      BY <3>1 DEF InsertMember, At
    <3>3. req[r].project = p /\ req[r].other = u
      BY <2>2, <3>1 DEF InsertMember, Typed
    <3>4. req[r].user \in members[p]
      BY <3>2, <3>3 DEF CallersAreMembers
    <3>5. ~req[r].stale
      BY <3>2 DEF StaleSounds, StaleSound
    <3> QED
      BY <2>2, <3>2, <3>3, <3>4, <3>5 DEF Kept
  <2> QED
    BY <2>1, <2>2
<1> QED
  BY <1>2, <1>3 DEF CallersAreMembers, MembersAreVouchedFor

-----------------------------------------------------------------------------
(* The theorems.                                                           *)

LEMMA CredibleInit ==
  Init => Credible
<1> SUFFICES ASSUME Init PROVE Credible
  OBVIOUS
<1> USE AccountAssumption
<1>1. Typed
  BY TypedInit
<1>2. ASSUME NEW r \in Requests
      PROVE  /\ devices[r] = NoDevice /\ sessions[r] = NoSession /\ r \notin tokens
             /\ req[r].kind = "NONE" /\ pc[r] = "unsent" /\ ~req[r].stale
             /\ issued[r] = NoClaims
  BY DEF Init, Ask
<1>3. Granted
  BY <1>2 DEF Granted, AskSound, RowsSound, NoRows, Route, Guarded
<1>4. Signed /\ StaleSounds /\ CallersAreMembers
  BY <1>2 DEF Signed, StaleSounds, StaleSound, CallersAreMembers
<1>5. NamesAreUnique
  BY <1>2 DEF NamesAreUnique, Registered, NoDevice
<1>6. MembersAreVouchedFor
  BY DEF Init, MembersAreVouchedFor
<1> QED
  BY <1>1, <1>3, <1>4, <1>5, <1>6 DEF Credible

LEMMA CredibleNext ==
  ASSUME Credible, [Next]_vars
  PROVE  Credible' /\ Kept
<1>1. Typed /\ Granted /\ Signed /\ NamesAreUnique /\ StaleSounds /\ CallersAreMembers
      /\ MembersAreVouchedFor
  BY DEF Credible
<1>2. Typed'
  BY <1>1, TypedNext
<1>3. Kept /\ Granted' /\ Signed'
  BY <1>1, <1>2, GrantedNext
<1>4. NamesAreUnique'
  BY <1>1, <1>2, <1>3, NamesNext
<1>5. StaleSounds'
  BY <1>1, <1>2, <1>3, StaleNext DEF StaleSounds
<1>6. CallersAreMembers' /\ MembersAreVouchedFor'
  BY <1>1, <1>2, <1>3, MembersNext
<1> QED
  BY <1>2, <1>3, <1>4, <1>5, <1>6 DEF Credible

LEMMA AlwaysCredible ==
  Spec => []Credible
<1>1. Credible /\ [Next]_vars => Credible'
  BY CredibleNext
<1> QED
  BY <1>1, CredibleInit, PTL DEF Spec

(* Rows, requests and answers have the shape of the tables and schemas in    *)
(* every reachable state.                                                   *)
THEOREM AccountTypesCorrect == Spec => []TypeOK
<1>1. Credible => TypeOK
  <2> SUFFICES ASSUME Credible PROVE TypeOK
    OBVIOUS
  <2> USE AccountAssumption
  <2>1. Typed /\ Granted /\ Signed
    BY DEF Credible
  <2>2. ASSUME NEW r \in Requests
        PROVE  devices[r] \in [user : Users \cup {None}, name : Names \cup {r, None},
                               revoked : BOOLEAN]
    <3>1. devices[r] \in DeviceRows
      BY <2>1 DEF Typed
    <3>2. CASE devices[r] = NoDevice
      BY <3>2 DEF NoDevice
    <3>3. CASE devices[r] # NoDevice
      <4>1. devices[r].name = NameOf(r) /\ req[r].kind \in {"LOGIN", "REGISTER"}
        BY <2>1, <3>3 DEF Granted, RowsSound, NoRows
      <4>2. NameOf(r) \in Names \cup {r}
        BY <2>1, <4>1 DEF NameOf, Granted, AskSound
      <4> QED
        BY <3>1, <4>1, <4>2 DEF DeviceRows
    <3> QED
      BY <3>2, <3>3
  <2>3. ASSUME NEW r \in Requests
        PROVE  issued[r] = NoClaims \/ issued[r] \in [user : Users, device : Requests,
                                                      sid : Requests]
    BY <2>1 DEF Typed, Signed, Sound, ClaimSets
  <2> QED
    BY <2>1, <2>2, <2>3 DEF Typed, TypeOK, SessionRows
<1> QED
  BY <1>1, AlwaysCredible, PTL

(* A request that had to be refused when it arrived is never served and       *)
(* leaves no row, whatever other requests do between its statements.         *)
THEOREM StaleRequestsAreRefused == Spec => []StaleIsRefused
<1>1. Credible => StaleIsRefused
  BY DEF Credible, StaleSounds, StaleSound, StaleIsRefused, NoRows
<1> QED
  BY <1>1, AlwaysCredible, PTL

(* An access token names a session of its user, on a device of that user,     *)
(* that can be refreshed.                                                   *)
THEOREM TokensAgreeWithRows == Spec => []CredentialsAgree
<1>1. Credible => CredentialsAgree
  BY DEF Credible, Signed, Sound, CredentialsAgree
<1> QED
  BY <1>1, AlwaysCredible, PTL

(* A device that a first login made has its session and refresh token.       *)
THEOREM FirstLoginsAreWhole == Spec => []FirstDeviceIsWhole
<1>1. Credible => FirstDeviceIsWhole
  <2> SUFFICES ASSUME Credible, NEW d \in Requests, Registered(d), req[d].kind = "LOGIN"
               PROVE  sessions[d].device = d /\ d \in tokens
    BY DEF FirstDeviceIsWhole
  <2> USE AccountAssumption
  <2>1. RowsSound(d)
    BY DEF Credible, Granted
  <2>2. req[d].device = None /\ d \in tokens
    BY <2>1 DEF RowsSound
  <2>3. sessions[d].user # None
    BY <2>1, <2>2 DEF RowsSound
  <2>4. sessions[d] # NoSession
    BY <2>3 DEF NoSession
  <2> QED
    BY <2>1, <2>2, <2>4 DEF RowsSound, DeviceFor
<1> QED
  BY <1>1, AlwaysCredible, PTL

(* No two devices share an identifier, though the check of the name and the   *)
(* insert are two statements.                                               *)
THEOREM DeviceNamesAreUnique == Spec => []NamesAreUnique
<1>1. Credible => NamesAreUnique
  BY DEF Credible
<1> QED
  BY <1>1, AlwaysCredible, PTL

(* Every member but the founder was let in by another member, on a request    *)
(* that was good when it arrived.                                           *)
THEOREM EveryMemberIsVouchedFor == Spec => []MembersAreVouchedFor
<1>1. Credible => MembersAreVouchedFor
  BY DEF Credible
<1> QED
  BY <1>1, AlwaysCredible, PTL

(* No step hands a row to another owner, takes back a revocation or an        *)
(* expiry, or drops a token or a member: the handlers' inserts meet no row    *)
(* that is already there.                                                   *)
THEOREM RevocationsAreFinal == Spec => [][Kept]_vars
<1>1. Credible /\ [Next]_vars => [Kept]_vars
  BY CredibleNext
<1> QED
  BY <1>1, AlwaysCredible, PTL DEF Spec
=============================================================================
