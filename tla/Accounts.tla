------------------------------ MODULE Accounts ------------------------------
(***************************************************************************)
(* Accounts of the FieldCore server: who may talk to it, and for which      *)
(* project (packages/server/src/auth and project-members.ts).               *)
(*                                                                         *)
(* A request is a chain of statements against the database, each an await   *)
(* of the handler, with other requests in between; only the login writes    *)
(* its rows in a transaction.  A request makes at most one device and one   *)
(* session, with ids of its own (uuidv4), so its own name stands for both.  *)
(* Passwords and signatures are abstracted to whether they check out.       *)
(* External: an administrator may revoke a device (no code in src/ does),   *)
(* time ends tokens and sessions, statements fail and answers are lost.     *)
(***************************************************************************)
EXTENDS Naturals, FiniteSets

CONSTANTS
  Users,
  Requests,
  Names,       \* device identifiers a client may ask for
  Projects,
  Founder,     \* the member each project starts with
  None,        \* no device, session or user
  MaxFaults    \* bound on failed requests

ASSUME AccountAssumption ==
  /\ Founder \in [Projects -> Users]
  /\ None \notin Users \cup Requests
  /\ Names \cap Requests = {}
  /\ MaxFaults \in Nat

VARIABLES
  devices,   \* devices: owner, identifier and isRevoked; owner None: no row
  sessions,  \* sessions: user, device and isRevoked; user None: no row
  tokens,    \* refresh_tokens: the sessions that have one
  expired,   \* sessions past expiresAt, which their refresh token shares
  members,   \* project_members
  req,       \* what each request asks
  pc,        \* where its handler is
  issued,    \* claims of the access token it was answered with, until that expires
  faults     \* failed requests so far

tables == <<devices, sessions, tokens, expired, members>>
vars == <<tables, req, pc, issued, faults>>

-----------------------------------------------------------------------------
NoDevice == [user |-> None, name |-> None, revoked |-> FALSE]
NoSession == [user |-> None, device |-> None, revoked |-> FALSE]
NoClaims == [user |-> None, device |-> None, sid |-> None]
Ask(kind, valid, claims) ==
  [kind |-> kind, valid |-> valid, user |-> claims.user, device |-> claims.device,
   sid |-> claims.sid, name |-> None, project |-> None, other |-> None, stale |-> FALSE]

Registered(d) == devices[d].user # None
DevicesOf(u) == {d \in Requests : devices[d].user = u}
Revoked(d) == devices[d].revoked

(* What the client was given: a refresh token is shown once, in the answer. *)
Holds(r) == pc[r] = "ok" /\ req[r].kind \in {"LOGIN", "REGISTER"}

Init ==
  /\ devices = [d \in Requests |-> NoDevice]
  /\ sessions = [s \in Requests |-> NoSession]
  /\ tokens = {} /\ expired = {}
  /\ members = [p \in Projects |-> {Founder[p]}]
  /\ req = [r \in Requests |-> Ask("NONE", FALSE, NoClaims)]
  /\ pc = [r \in Requests |-> "unsent"]
  /\ issued = [r \in Requests |-> NoClaims]
  /\ faults = 0

Goto(r, l) == pc' = [pc EXCEPT ![r] = l]

-----------------------------------------------------------------------------
(* Requests arrive.  stale keeps, for the properties, whether the request   *)
(* had to be refused already then.                                          *)

Lapsed(s) == sessions[s].revoked \/ s \in expired

Hopeless(q) ==
  \/ ~q.valid
  \/ q.kind = "LOGIN" /\ q.device = None /\ DevicesOf(q.user) # {}
  \/ q.kind = "LOGIN" /\ q.device # None
       /\ (devices[q.device].user # q.user \/ Revoked(q.device))
  \/ q.kind = "REFRESH" /\ (Lapsed(q.sid) \/ Revoked(sessions[q.sid].device))
  \/ q.kind \notin {"LOGIN", "REFRESH"}
       /\ (Revoked(q.device) \/ sessions[q.sid].revoked)

Send(r, q) ==
  /\ pc[r] = "unsent"
  /\ req' = [req EXCEPT ![r] = [q EXCEPT !.stale = Hopeless(q)]]
  /\ Goto(r, "arrived")
  /\ UNCHANGED <<tables, issued, faults>>

(* POST /auth/login, with a device the user may or may not own, or none.    *)
AskLogin(r) ==
  \E u \in Users, d \in {x \in Requests : Registered(x)} \cup {None}, valid \in BOOLEAN :
    Send(r, Ask("LOGIN", valid, [NoClaims EXCEPT !.user = u, !.device = d]))

(* POST /auth/refresh, with the refresh token of a session.                 *)
AskRefresh(r) ==
  \E s \in {x \in Requests : Holds(x)}, valid \in BOOLEAN :
    Send(r, Ask("REFRESH", valid, [NoClaims EXCEPT !.sid = s]))

(* The routes behind requireAuth, with an access token.                     *)
AskWithToken(r) ==
  \E t \in {x \in Requests : issued[x] # NoClaims}, valid \in BOOLEAN :
    \/ Send(r, Ask("LOGOUT", valid, issued[t]))
    \/ \E n \in Names \cup {r} :
         Send(r, [Ask("REGISTER", valid, issued[t]) EXCEPT !.name = n])
    \/ \E p \in Projects, u \in Users :
         Send(r, [Ask("ADD", valid, issued[t]) EXCEPT !.project = p, !.other = u])

-----------------------------------------------------------------------------
(* Steps of the handlers.                                                   *)

At(r, kind, l) == req[r].kind = kind /\ pc[r] = l

(* A check: on to the next statement, or the answer that says no.           *)
Check(r, holds, next) ==
  /\ Goto(r, IF holds THEN next ELSE "refused")
  /\ UNCHANGED <<tables, req, issued, faults>>

AddSession(r, d) ==
  /\ sessions' = [sessions EXCEPT ![r] = [user |-> req[r].user, device |-> d, revoked |-> FALSE]]
AddDevice(r, n) ==
  /\ devices' = [devices EXCEPT ![r] = [user |-> req[r].user, name |-> n, revoked |-> FALSE]]

(* Mutant of LoginDevice: looked up by id.                                     *)
LoginDevice_Anyone_Mutant(r) ==
  /\ At(r, "LOGIN", "arrived") /\ req[r].device # None
  /\ Check(r, req[r].valid /\ ~Revoked(req[r].device), "open")

(* Login with a device: it must be the user's, and not revoked.             *)
LoginDevice(r) ==
  /\ At(r, "LOGIN", "arrived") /\ req[r].device # None
  /\ Check(r, /\ req[r].valid
              /\ devices[req[r].device].user = req[r].user
              /\ ~Revoked(req[r].device), "open")

OpenSession(r) ==
  /\ At(r, "LOGIN", "open")
  /\ AddSession(r, req[r].device)
  /\ tokens' = tokens \cup {r}
  /\ Goto(r, "answer")
  /\ UNCHANGED <<devices, expired, members, req, issued, faults>>

(* Login without one: only for a user who has none yet.                     *)
FirstDevice(r) ==
  /\ At(r, "LOGIN", "arrived") /\ req[r].device = None
  /\ Check(r, req[r].valid /\ DevicesOf(req[r].user) = {}, "provision")

(* Mutant of Provision: the device is written before the transaction.       *)
Provision_Split_Mutant(r) ==
  /\ At(r, "LOGIN", "provision")
  /\ AddDevice(r, r)
  /\ Goto(r, "open")
  /\ UNCHANGED <<sessions, tokens, expired, members, req, issued, faults>>

Provision(r) ==
  /\ At(r, "LOGIN", "provision")
  /\ AddDevice(r, r)
  /\ AddSession(r, r)
  /\ tokens' = tokens \cup {r}
  /\ Goto(r, "answer")
  /\ UNCHANGED <<expired, members, req, issued, faults>>

(* Refresh: the token, its session, then the session's device.              *)
ReadToken(r) ==
  /\ At(r, "REFRESH", "arrived")
  /\ Check(r, req[r].valid /\ req[r].sid \in tokens \ expired, "session")

(* Mutant of ReadSession: the session is not read for the claims.           *)
ReadSession_Unread_Mutant(r) ==
  /\ At(r, "REFRESH", "session")
  /\ Check(r, sessions[req[r].sid].user # None /\ ~Lapsed(req[r].sid), "answer")

ReadSession(r) ==
  /\ At(r, "REFRESH", "session")
  /\ LET s == req[r].sid
         found == sessions[s].user # None /\ ~Lapsed(s)
     IN /\ req' = IF found THEN [req EXCEPT ![r].user = sessions[s].user,
                                            ![r].device = sessions[s].device]
                           ELSE req
        /\ Goto(r, IF found THEN "device" ELSE "refused")
  /\ UNCHANGED <<tables, issued, faults>>

ReadDevice(r) ==
  /\ At(r, "REFRESH", "device")
  /\ Check(r, Registered(req[r].device) /\ ~Revoked(req[r].device), "answer")

(* requireAuth: the token, its device, then its session if that has a row.  *)
Guarded == {"LOGOUT", "REGISTER", "ADD"}

VerifyToken(r) ==
  /\ req[r].kind \in Guarded /\ pc[r] = "arrived"
  /\ Check(r, req[r].valid, "device")

VerifyDevice(r) ==
  /\ req[r].kind \in Guarded /\ pc[r] = "device"
  /\ Check(r, Registered(req[r].device) /\ ~Revoked(req[r].device), "session")

(* Mutant of VerifySession: no look at the session.                         *)
VerifySession_Unchecked_Mutant(r) ==
  /\ req[r].kind \in Guarded /\ pc[r] = "session"
  /\ Check(r, TRUE, "handler")

VerifySession(r) ==
  /\ req[r].kind \in Guarded /\ pc[r] = "session"
  /\ Check(r, ~sessions[req[r].sid].revoked, "handler")

Logout(r) ==
  /\ At(r, "LOGOUT", "handler")
  /\ sessions' = [sessions EXCEPT ![req[r].sid].revoked = TRUE]
  /\ Goto(r, "ok")
  /\ UNCHANGED <<devices, tokens, expired, members, req, issued, faults>>

(* Registration: three statements of their own, behind a check of the name  *)
(* that the unique index repeats.                                           *)
Taken(n) == \E d \in Requests : devices[d].name = n

CheckName(r) ==
  /\ At(r, "REGISTER", "handler")
  /\ Check(r, ~Taken(req[r].name), "add device")

(* Mutant of InsertDevice: no unique index on the identifier.               *)
InsertDevice_NoIndex_Mutant(r) ==
  /\ At(r, "REGISTER", "add device")
  /\ AddDevice(r, req[r].name)
  /\ Goto(r, "add session")
  /\ UNCHANGED <<sessions, tokens, expired, members, req, issued, faults>>

InsertDevice(r) ==
  /\ At(r, "REGISTER", "add device")
  /\ \/ Taken(req[r].name) /\ Goto(r, "failed") /\ UNCHANGED devices
     \/ ~Taken(req[r].name) /\ AddDevice(r, req[r].name) /\ Goto(r, "add session")
  /\ UNCHANGED <<sessions, tokens, expired, members, req, issued, faults>>

InsertSession(r) ==
  /\ At(r, "REGISTER", "add session")
  /\ AddSession(r, r)
  /\ Goto(r, "add token")
  /\ UNCHANGED <<devices, tokens, expired, members, req, issued, faults>>

InsertToken(r) ==
  /\ At(r, "REGISTER", "add token")
  /\ tokens' = tokens \cup {r}
  /\ Goto(r, "answer")
  /\ UNCHANGED <<devices, sessions, expired, members, req, issued, faults>>

(* Mutant of CheckCaller: the route asks only for a token.                  *)
CheckCaller_Open_Mutant(r) ==
  /\ At(r, "ADD", "handler")
  /\ Check(r, TRUE, "existing")

(* A member adds a member.  A project that is missing has no members.       *)
CheckCaller(r) ==
  /\ At(r, "ADD", "handler")
  /\ Check(r, req[r].user \in members[req[r].project], "existing")

CheckExisting(r) ==
  /\ At(r, "ADD", "existing")
  /\ Check(r, TRUE, IF req[r].other \in members[req[r].project] THEN "ok" ELSE "add member")

(* The unique index on project and user fails the second of two inserts.    *)
InsertMember(r) ==
  /\ At(r, "ADD", "add member")
  /\ Goto(r, IF req[r].other \in members[req[r].project] THEN "failed" ELSE "ok")
  /\ members' = [members EXCEPT ![req[r].project] = @ \cup {req[r].other}]
  /\ UNCHANGED <<devices, sessions, tokens, expired, req, issued, faults>>

(* signAccessToken and the answer.                                          *)
Claims(r) ==
  CASE req[r].kind = "REFRESH" -> [user |-> req[r].user, device |-> req[r].device, sid |-> req[r].sid]
    [] req[r].kind = "LOGIN" /\ req[r].device # None ->
         [user |-> req[r].user, device |-> req[r].device, sid |-> r]
    [] OTHER -> [user |-> req[r].user, device |-> r, sid |-> r]

Answer(r) ==
  /\ pc[r] = "answer"
  /\ issued' = [issued EXCEPT ![r] = Claims(r)]
  /\ Goto(r, "ok")
  /\ UNCHANGED <<tables, req, faults>>

-----------------------------------------------------------------------------
(* The surroundings.                                                        *)

Over == {"unsent", "ok", "refused", "failed"}

(* A statement fails, or the answer is lost.                                *)
Fail(r) ==
  /\ pc[r] \notin Over /\ faults < MaxFaults
  /\ Goto(r, "failed")
  /\ faults' = faults + 1
  /\ UNCHANGED <<tables, req, issued>>

RevokeDevice(d) ==
  /\ Registered(d) /\ ~Revoked(d)
  /\ devices' = [devices EXCEPT ![d].revoked = TRUE]
  /\ UNCHANGED <<sessions, tokens, expired, members, req, pc, issued, faults>>

EndSession(s) ==
  /\ sessions[s].user # None /\ s \notin expired
  /\ expired' = expired \cup {s}
  /\ UNCHANGED <<devices, sessions, tokens, members, req, pc, issued, faults>>

EndToken(t) ==
  /\ issued[t] # NoClaims
  /\ issued' = [issued EXCEPT ![t] = NoClaims]
  /\ UNCHANGED <<tables, req, pc, faults>>

Arrive(r) == AskLogin(r) \/ AskRefresh(r) \/ AskWithToken(r)
Login(r) == LoginDevice(r) \/ OpenSession(r) \/ FirstDevice(r) \/ Provision(r)
Refresh(r) == ReadToken(r) \/ ReadSession(r) \/ ReadDevice(r)
RequireAuth(r) == VerifyToken(r) \/ VerifyDevice(r) \/ VerifySession(r)
Register(r) == CheckName(r) \/ InsertDevice(r) \/ InsertSession(r) \/ InsertToken(r)
Member(r) == CheckCaller(r) \/ CheckExisting(r) \/ InsertMember(r)

Next ==
  \E r \in Requests :
    \/ Arrive(r) \/ Login(r) \/ Refresh(r) \/ RequireAuth(r) \/ Logout(r)
    \/ Register(r) \/ Member(r) \/ Answer(r) \/ Fail(r)
    \/ RevokeDevice(r) \/ EndSession(r) \/ EndToken(r)

Spec == Init /\ [][Next]_vars

-----------------------------------------------------------------------------
(* Properties.                                                              *)

Labels == Over \cup {"arrived", "open", "provision", "session", "device", "handler",
  "add device", "add session", "add token", "existing", "add member", "answer"}

(* Rows, requests and answers have the shape of the tables and schemas, and *)
(* no request is past a statement its route does not have.                  *)
TypeOK ==
  /\ \A r \in Requests :
       /\ devices[r] \in [user : Users \cup {None}, name : Names \cup {r, None},
                          revoked : BOOLEAN]
       /\ sessions[r] \in [user : Users \cup {None}, device : Requests \cup {None},
                           revoked : BOOLEAN]
       /\ issued[r] = NoClaims \/ issued[r] \in [user : Users, device : Requests, sid : Requests]
       /\ pc[r] \in Labels
  /\ tokens \subseteq Requests /\ expired \subseteq Requests
  /\ members \in [Projects -> SUBSET Users]
  /\ faults \in 0 .. MaxFaults

(* A request that had to be refused when it arrived (the session logged out *)
(* or the device revoked before, the device another user's, the account     *)
(* already with a device) is never served and leaves no row, whatever the   *)
(* requests beside it do between its statements.                            *)
StaleIsRefused ==
  \A r \in Requests : req[r].stale =>
    /\ pc[r] \in {"arrived", "device", "session", "refused", "failed"}
    /\ devices[r] = NoDevice /\ sessions[r] = NoSession /\ r \notin tokens

(* An access token in a client's hands names a session the server knows, of *)
(* the same user on the same device, a device that is that user's, and the  *)
(* session can be refreshed: the three inserts of a registration are not a  *)
(* transaction, and no one is answered between them.                        *)
CredentialsAgree ==
  \A t \in Requests : issued[t] # NoClaims =>
    LET c == issued[t] IN
      /\ sessions[c.sid].user = c.user /\ sessions[c.sid].device = c.device
      /\ devices[c.device].user = c.user
      /\ c.sid \in tokens

(* A first login that fails leaves nothing: a device that login made has    *)
(* its session and refresh token.  Without them nobody would know its id,   *)
(* and the account would be asked for it for ever (DEVICE_ID_REQUIRED).     *)
FirstDeviceIsWhole ==
  \A d \in Requests : Registered(d) /\ req[d].kind = "LOGIN" =>
    sessions[d].device = d /\ d \in tokens

(* No two devices share a deviceIdentifier, though registrations of one     *)
(* name may all have passed the check before any of them inserts.           *)
NamesAreUnique ==
  \A d, e \in Requests :
    Registered(d) /\ Registered(e) /\ devices[d].name = devices[e].name => d = e

(* Every member but the founder was let in by someone who is a member, on a *)
(* request that was good when it arrived.                                   *)
MembersAreVouchedFor ==
  \A p \in Projects : \A u \in members[p] \ {Founder[p]} :
    \E r \in Requests :
      /\ req[r].kind = "ADD" /\ req[r].project = p /\ req[r].other = u
      /\ ~req[r].stale
      /\ req[r].user \in members[p] \ {u}

=============================================================================
