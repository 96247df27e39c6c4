------------------------------ MODULE Accounts ------------------------------
(***************************************************************************)
(* Accounts: User rows, session cookies, sockets and the administrator.    *)
(*                                                                         *)
(* A session is a signed token with the account's id and the version its   *)
(* row had; a request, and a socket's handshake, compare that version with *)
(* the row.  A request that reads first and writes later is a call in      *)
(* flight; authenticate and the first read of the handler are one step.    *)
(* Passwords are right or not sent; cryptography and mail are left out.    *)
(***************************************************************************)
EXTENDS FiniteSets, Integers

CONSTANTS Users,        \* ids of User rows
          People,       \* an e-mail address each, and the Google account of that address
          Roster,       \* the people ADMIN_EMAILS names
          Devices,      \* browsers: a cookie jar and at most one socket each
          Calls,        \* bound: the requests of several steps made in all
          Punishments,  \* the sets of restrictions an administrator gives
          MaxVersion,   \* bound: no token version beyond it
          Nobody

ASSUME AccountsAssumption ==
  /\ MaxVersion \in Nat
  /\ Roster \subseteq People
  /\ Nobody \notin Users \cup People

VARIABLES user,    \* User rows
          cookie,  \* the session cookie of a device
          socket,  \* the socket of a device
          calls,   \* requests in flight
          synced   \* the roster of administrators was read since the last start
accountVars == <<user, cookie, socket, calls, synced>>
-----------------------------------------------------------------------------
Restrictions == {"site_access", "create_lobby", "participate_games", "view_games", "edit_profile"}

ASSUME PunishmentsAssumption == Punishments \subseteq SUBSET Restrictions

\* email, google: whose; personal: a nickname or a profile somebody chose.
UserRow == [made : BOOLEAN, email : People \cup {Nobody}, google : People \cup {Nobody},
            password : BOOLEAN, verified : BOOLEAN, personal : BOOLEAN, admin : BOOLEAN,
            bans : SUBSET Restrictions, v : 0..MaxVersion]
NoRow == [made |-> FALSE, email |-> Nobody, google |-> Nobody, password |-> FALSE,
          verified |-> FALSE, personal |-> FALSE, admin |-> FALSE, bans |-> {}, v |-> 0]
NewRow(p) == [NoRow EXCEPT !.made = TRUE, !.email = p, !.personal = TRUE]

Token == [u : Users \cup {Nobody}, v : 0..MaxVersion]
NoToken == [u |-> Nobody, v |-> 0]
Sign(u) == [u |-> u, v |-> user[u].v]

\* bans: the copy the handlers of this socket look at; room: it is in a game's room.
Socket == [st : {"down", "shaking", "up"}, token : Token, bans : SUBSET Restrictions,
           room : BOOLEAN]
Down == [st |-> "down", token |-> NoToken, bans |-> {}, room |-> FALSE]

Idle == [op |-> "idle", by |-> Nobody, on |-> Nobody, at |-> Nobody, seen |-> {}]
Answered == [Idle EXCEPT !.op = "answered"]

Live(u) == user[u].made /\ user[u].email # Nobody
Accepted(t) == t.u # Nobody /\ user[t.u].v = t.v
Banned(u) == "site_access" \in user[u].bans

\* authenticate, then requireRestrictionNotSet for each restriction in the gate.
Signed(d, u) == cookie[d].u = u /\ Accepted(cookie[d]) /\ ~Banned(u)
Admits(u, gate) == (\E d \in Devices : Signed(d, u)) /\ user[u].bans \cap gate = {}

Send(c, op, by, on, at, seen) ==
  /\ calls[c] = Idle
  /\ calls' = [calls EXCEPT ![c] = [op |-> op, by |-> by, on |-> on, at |-> at, seen |-> seen]]
Goes(c, op) == calls' = [calls EXCEPT ![c].op = op]
Ends(c) == calls' = [calls EXCEPT ![c] = Answered]

SetSession(d, token) == cookie' = [cookie EXCEPT ![d] = token]

Owners(p) == {u \in Users : user[u].email = p}
GoogleOwners(p) == {u \in Users : user[u].google = p}
Fresh == {u \in Users : ~user[u].made}
-----------------------------------------------------------------------------
(* Coming in and going out. *)

\* The unique index on the address is the only check for a taken one.
RegisterWithPassword_Blind(u, p) ==
  user' = [user EXCEPT ![u] = [NewRow(p) EXCEPT !.password = TRUE]]
RegisterWithPassword(u, p) ==
  /\ Owners(p) = {}
  /\ user' = [user EXCEPT ![u] = [NewRow(p) EXCEPT !.password = TRUE]]

Register(d, p) ==
  /\ \E u \in Fresh : /\ RegisterWithPassword(u, p)
                     /\ SetSession(d, [u |-> u, v |-> 0])
  /\ UNCHANGED <<socket, calls, synced>>

LoginWithPassword(p) == {u \in Owners(p) : user[u].password}

\* The token is signed for the row as it was read; nothing is written.
Login(d, p) ==
  /\ \E u \in LoginWithPassword(p) : SetSession(d, Sign(u))
  /\ UNCHANGED <<user, socket, calls, synced>>

\* A known Google account signs in; if its photo changed the row is written first.
GoogleLooks(c, d, p) ==
  /\ \/ \E u \in GoogleOwners(p) :
          \/ SetSession(d, Sign(u)) /\ UNCHANGED calls
          \/ Send(c, "photo", p, u, d, {}) /\ UNCHANGED cookie
     \/ /\ GoogleOwners(p) = {}
        /\ Send(c, "by_email", p, Nobody, d, {})
        /\ UNCHANGED cookie
  /\ UNCHANGED <<user, socket, synced>>

\* An address nobody verified is not linked to an account with a password.
GoogleLooksByEmail(c) ==
  LET call == calls[c] IN
  /\ call.op = "by_email"
  /\ \/ \E u \in Owners(call.by) :
          IF user[u].password /\ ~user[u].verified THEN Ends(c)
          ELSE calls' = [calls EXCEPT ![c].op = "link", ![c].on = u]
     \/ Owners(call.by) = {} /\ Goes(c, "create")
  /\ UNCHANGED <<user, cookie, socket, synced>>

\* The write goes by id and answers the row as it is then.
GoogleRefreshes(c) ==
  /\ calls[c].op = "photo"
  /\ SetSession(calls[c].at, Sign(calls[c].on))
  /\ Ends(c)
  /\ UNCHANGED <<user, socket, synced>>

GoogleLinks(c) ==
  LET call == calls[c] IN
  /\ call.op = "link"
  /\ IF GoogleOwners(call.by) \subseteq {call.on}
     THEN /\ user' = [user EXCEPT ![call.on].google = call.by, ![call.on].verified = TRUE]
          /\ SetSession(call.at, Sign(call.on))
     ELSE UNCHANGED <<user, cookie>>
  /\ Ends(c)
  /\ UNCHANGED <<socket, synced>>

\* The unique indexes on the address and on the Google id refuse a second account.
GoogleCreates(c) ==
  LET call == calls[c] IN
  /\ call.op = "create"
  /\ IF Owners(call.by) \cup GoogleOwners(call.by) = {}
     THEN \E u \in Fresh :
            /\ user' = [user EXCEPT ![u] = [NewRow(call.by) EXCEPT !.google = call.by,
                                                                   !.verified = TRUE]]
            /\ SetSession(call.at, [u |-> u, v |-> 0])
     ELSE UNCHANGED <<user, cookie>>
  /\ Ends(c)
  /\ UNCHANGED <<socket, synced>>

\* This device only; a cookie that expires is the same.
Logout(d) ==
  /\ cookie[d] # NoToken
  /\ SetSession(d, NoToken)
  /\ UNCHANGED <<user, socket, calls, synced>>

RevokeTokens(u) == user' = [user EXCEPT ![u].v = @ + 1]
LogoutEverywhere(d) ==
  LET u == cookie[d].u IN
  /\ Signed(d, u) /\ user[u].v < MaxVersion
  /\ RevokeTokens(u)
  /\ SetSession(d, NoToken)
  /\ UNCHANGED <<socket, calls, synced>>
-----------------------------------------------------------------------------
(* The profile, and the end of an account. *)

\* A new nickname or profile: the name is moderated before the row is written by id.
EditReads(c, u) ==
  /\ Admits(u, {"edit_profile"})
  /\ Send(c, "edit", u, u, Nobody, {})
  /\ UNCHANGED <<user, cookie, socket, synced>>

EditCommits(c) ==
  /\ calls[c].op = "edit"
  /\ user' = [user EXCEPT ![calls[c].on].personal = TRUE]
  /\ Ends(c)
  /\ UNCHANGED <<cookie, socket, synced>>

\* The clubs the account heads are handed off before the row is written.
DeleteReads(c, d, u) ==
  /\ Signed(d, u)
  /\ Send(c, "handoff", u, u, d, {})
  /\ UNCHANGED <<user, cookie, socket, synced>>

Anonymised(row) == [row EXCEPT !.email = Nobody, !.google = Nobody, !.password = FALSE,
                               !.personal = FALSE, !.v = @ + 1]
LockedOut(row) == [Anonymised(row) EXCEPT !.admin = FALSE, !.bans = {"site_access"}]

Anonymise(c) ==
  LET call == calls[c] IN
  /\ call.op = "anonymise" /\ user[call.on].v < MaxVersion
  /\ IF call.by = call.on
     THEN /\ user' = [user EXCEPT ![call.on] = Anonymised(@)]
          /\ SetSession(call.at, NoToken)
          /\ Ends(c)
     ELSE /\ user' = [user EXCEPT ![call.on] = LockedOut(@)]
          /\ Goes(c, "disconnect")
          /\ UNCHANGED cookie
  /\ UNCHANGED <<socket, synced>>
-----------------------------------------------------------------------------
(* The administrator. *)

TargetIsNonAdmin(u) == user[u].made /\ ~user[u].admin

\* The routes check, and then do the deed.
AdminChecks(c, a, u, deed) ==
  /\ Admits(a, {}) /\ user[a].admin
  /\ TargetIsNonAdmin(u)
  /\ Send(c, deed, a, u, Nobody, {})
  /\ UNCHANGED <<user, cookie, socket, synced>>

AdminRenames(c) ==
  LET u == calls[c].on IN
  /\ calls[c].op = "rename"
  /\ user' = IF Live(u) THEN [user EXCEPT ![u].personal = TRUE] ELSE user
  /\ Ends(c)
  /\ UNCHANGED <<cookie, socket, synced>>

SetUserRestrictions_SameVersion(u, bans) ==
  user' = [user EXCEPT ![u].bans = bans, ![u].v = IF bans = {} THEN @ ELSE @ + 1]

SetUserRestrictions(u, bans) == user' = [user EXCEPT ![u].bans = bans, ![u].v = @ + 1]

AdminRestricts(c) ==
  LET u == calls[c].on IN
  /\ calls[c].op = "restrict"
  /\ IF Live(u)
     THEN /\ user[u].v < MaxVersion
          /\ \E bans \in Punishments : SetUserRestrictions(u, bans)
          /\ Goes(c, "disconnect")
     ELSE Ends(c) /\ UNCHANGED user
  /\ UNCHANGED <<cookie, socket, synced>>

\* A handshake under way is not among the sockets yet.
DisconnectUser(c) ==
  /\ calls[c].op = "disconnect"
  /\ socket' = [d \in Devices |-> IF socket[d].st = "up" /\ socket[d].token.u = calls[c].on
                                  THEN Down ELSE socket[d]]
  /\ Ends(c)
  /\ UNCHANGED <<user, cookie, synced>>

Restart ==
  /\ synced
  /\ socket' = [d \in Devices |-> Down]
  /\ calls' = [c \in Calls |-> IF calls[c] = Idle THEN Idle ELSE Answered]
  /\ synced' = FALSE
  /\ UNCHANGED <<user, cookie>>

\* Not waited for when the server starts.
SyncAdminRoster ==
  /\ ~synced /\ synced' = TRUE
  /\ user' = [u \in Users |-> [user[u] EXCEPT !.admin = user[u].email \in Roster]]
  /\ UNCHANGED <<cookie, socket, calls>>
-----------------------------------------------------------------------------
(* Sockets. *)

HandshakeReads(d) ==
  LET token == cookie[d] IN
  /\ socket[d].st = "down"
  /\ Signed(d, token.u)
  /\ socket' = [socket EXCEPT ![d] = [st |-> "shaking", token |-> token,
                                      bans |-> user[token.u].bans, room |-> FALSE]]
  /\ UNCHANGED <<user, cookie, calls, synced>>

HandshakeConnects(d) ==
  /\ socket[d].st = "shaking"
  /\ socket' = [socket EXCEPT ![d].st = "up"]
  /\ UNCHANGED <<user, cookie, calls, synced>>

SocketCloses(d) ==
  /\ socket[d].st # "down"
  /\ socket' = [socket EXCEPT ![d] = Down]
  /\ UNCHANGED <<user, cookie, calls, synced>>

\* A participant opens his game.
JoinGame(d) ==
  /\ socket[d].st = "up" /\ "view_games" \notin socket[d].bans
  /\ socket' = [socket EXCEPT ![d].room = TRUE]
  /\ UNCHANGED <<user, cookie, calls, synced>>

Stale_Banned(s) == Banned(s.token.u)
Stale(s) == ~Accepted(s.token) \/ Banned(s.token.u)

\* Every five minutes; a row that changes after it was read leaves a stale socket.
Recheck(d) ==
  LET s == socket[d] IN
  /\ s.st = "up"
  /\ socket' = [socket EXCEPT ![d] = IF Stale(s) THEN Down
                                     ELSE [s EXCEPT !.bans = user[s.token.u].bans]]
  /\ UNCHANGED <<user, cookie, calls, synced>>
-----------------------------------------------------------------------------
AccountsNext ==
  \/ \E d \in Devices, p \in People : Register(d, p) \/ Login(d, p)
  \/ \E c \in Calls, d \in Devices, p \in People : GoogleLooks(c, d, p)
  \/ \E c \in Calls : GoogleLooksByEmail(c) \/ GoogleRefreshes(c) \/ GoogleLinks(c)
                      \/ GoogleCreates(c)
  \/ \E d \in Devices : Logout(d) \/ LogoutEverywhere(d)
  \/ \E c \in Calls, u \in Users : EditReads(c, u)
  \/ \E c \in Calls, d \in Devices, u \in Users : DeleteReads(c, d, u)
  \/ \E c \in Calls, a, u \in Users, deed \in {"rename", "restrict", "handoff"} :
       AdminChecks(c, a, u, deed)
  \/ \E c \in Calls : EditCommits(c) \/ Anonymise(c) \/ AdminRenames(c) \/ AdminRestricts(c)
                      \/ DisconnectUser(c)
  \/ Restart \/ SyncAdminRoster
  \/ \E d \in Devices : HandshakeReads(d) \/ HandshakeConnects(d) \/ SocketCloses(d)
                        \/ JoinGame(d) \/ Recheck(d)
-----------------------------------------------------------------------------
(* What must hold. *)

\* Types; a signed-in device and a socket name an account, and addresses and
\* Google ids are used once.
AccountsTypeOK ==
  /\ user \in [Users -> UserRow]
  /\ cookie \in [Devices -> Token]
  /\ socket \in [Devices -> Socket]
  /\ synced \in BOOLEAN
  /\ \A p \in People : Cardinality(Owners(p)) <= 1 /\ Cardinality(GoogleOwners(p)) <= 1
  /\ \A d \in Devices : socket[d].st # "down" => socket[d].token.u \in Users

\* The restrictions a socket's handlers look at are a copy made at the handshake: the copy
\* is the account's restrictions, or the token is stale and the next recheck ends it
\* (socketHasRestriction, setUserRestrictions, the handshake that disconnectUser misses).
CopiedBansAreCurrent ==
  \A d \in Devices : LET s == socket[d] IN
    s.st # "down" /\ Accepted(s.token) => s.bans = user[s.token.u].bans

\* Whoever stays banned from the site is in the end off the server, and whoever stays
\* banned from watching is in the end in no game's room, a handshake or a join that
\* was under way included (disconnectUser, the recheck of sockets, GAME_JOIN).
BansTakeHold ==
  \A u \in Users :
    /\ <>[](Banned(u)) => <>[](\A d \in Devices : socket[d].st = "up" => socket[d].token.u # u)
    /\ <>[]("view_games" \in user[u].bans)
         => <>[](\A d \in Devices : socket[d].token.u = u => ~socket[d].room)
=============================================================================
