--------------------------- MODULE PlatformProofs ---------------------------
(***************************************************************************)
(* Accounts and clubs, for any accounts, people, devices, clubs and        *)
(* requests in flight, starting from a database nobody has used: the rows  *)
(* keep their types and indexes, a socket's copy of the restrictions is    *)
(* current or its token is stale, nobody exceeds the limit of memberships, *)
(* and a club is in order until two requests about it overlapped.          *)
(***************************************************************************)
EXTENDS Clubs, TLAPS, FiniteSetTheorems, SequenceTheorems

-----------------------------------------------------------------------------
(* The invariant of accounts.                                              *)

\* A row that was never made answers to no address, and both indexes are unique.
RowsOK ==
  /\ user \in [Users -> UserRow]
  /\ \A u \in Users : ~user[u].made => user[u].email = Nobody /\ user[u].google = Nobody
  /\ \A u, w \in Users, p \in People :
       (user[u].email = p /\ user[w].email = p) \/ (user[u].google = p /\ user[w].google = p)
         => u = w

\* Who a token names has a row, at the token's version or a later one.
Signature(rows, t) ==
  t \in Token /\ (t.u # Nobody => rows[t.u].made /\ t.v <= rows[t.u].v)

CookiesOK == cookie \in [Devices -> Token] /\ \A d \in Devices : Signature(user, cookie[d])

SocketOK(rows, s) ==
  /\ s \in Socket /\ Signature(rows, s.token)
  /\ s.st # "down" => s.token.u \in Users
  /\ s.st # "down" /\ rows[s.token.u].v = s.token.v => s.bans = rows[s.token.u].bans
SocketsOK == socket \in [Devices -> Socket] /\ \A d \in Devices : SocketOK(user, socket[d])

\* What a request in flight is about, by its kind.
ForClub == {"submit", "reject", "approve", "disband", "kick", "leave", "transfer", "primary"}
Ops == ForClub \cup
  {"idle", "answered", "by_email", "photo", "link", "create", "edit", "handoff", "handing",
   "anonymise", "rename", "restrict", "disconnect", "found"}
Call == [op : Ops, by : Users \cup People \cup {Nobody}, on : Users \cup {Nobody},
         at : Devices \cup Clubs \cup {Nobody},
         seen : SUBSET (Clubs \X (Users \cup {Nobody}))]
CallOK(rows, call) ==
  /\ call \in Call
  /\ call.op \in {"by_email", "create", "photo", "link"} => call.by \in People /\ call.at \in Devices
  /\ call.op \in {"photo", "link"} => call.on \in Users /\ rows[call.on].made
  /\ call.op \in {"edit", "handoff", "handing", "anonymise", "rename", "restrict"} => call.on \in Users
  /\ call.op \in {"handoff", "handing", "anonymise"} /\ call.by = call.on => call.at \in Devices
  /\ call.op \in ForClub => call.by \in Users /\ call.at \in Clubs
  /\ call.op = "found" => call.by \in Users
  /\ call.op \in {"reject", "approve", "kick", "transfer"} => call.on \in Users
  /\ call.op # "handing" => call.seen = {}
CallsOK == calls \in [Calls -> Call] /\ \A c \in Calls : CallOK(user, calls[c])

AccountsInv == RowsOK /\ CookiesOK /\ SocketsOK /\ CallsOK /\ synced \in BOOLEAN

\* What no step undoes: a row stays, and its restrictions change only with its version.
Grows ==
  \A u \in Users : user[u].made =>
    /\ user'[u].made
    /\ \/ user'[u].v > user[u].v
       \/ user'[u].v = user[u].v /\ user'[u].bans = user[u].bans

LEMMA AccountsStart == Init => AccountsInv
<1>. SUFFICES ASSUME Init PROVE AccountsInv OBVIOUS
<1>. USE AccountsAssumption
<1>1. NoRow \in UserRow /\ NoToken \in Token /\ Down \in Socket /\ Idle \in Call
  <2>1. 0 \in 0..MaxVersion OBVIOUS
  <2>2. NoRow \in UserRow BY <2>1 DEF NoRow, UserRow
  <2>3. NoToken \in Token BY <2>1 DEF NoToken, Token
  <2>4. Down \in Socket BY <2>3 DEF Down, Socket
  <2>5. Idle \in Call BY DEF Idle, Call, Ops
  <2>. QED BY <2>2, <2>3, <2>4, <2>5
<1>2. RowsOK BY <1>1 DEF Init, RowsOK, NoRow
<1>3. CookiesOK BY <1>1 DEF Init, CookiesOK, Signature, NoToken
<1>4. SocketsOK BY <1>1 DEF Init, SocketsOK, SocketOK, Signature, Down, NoToken
<1>5. CallsOK BY <1>1 DEF Init, CallsOK, CallOK, Idle, ForClub
<1>. QED BY <1>2, <1>3, <1>4, <1>5 DEF AccountsInv, Init

\* A row changes without becoming anybody else's.
LEMMA SameOwner ==
  ASSUME RowsOK, NEW x \in Users, NEW row \in UserRow, user' = [user EXCEPT ![x] = row],
         user[x].made => row.made,
         ~row.made => row.email = Nobody /\ row.google = Nobody,
         row.email \in {user[x].email, Nobody}, row.google \in {user[x].google, Nobody}
  PROVE RowsOK'
<1>. USE AccountsAssumption
<1>1. user' \in [Users -> UserRow] BY DEF RowsOK
<1>2. \A u \in Users : user'[u].email \in {user[u].email, Nobody}
                       /\ user'[u].google \in {user[u].google, Nobody}
  BY DEF RowsOK
<1>3. \A u \in Users : ~user'[u].made => user'[u].email = Nobody /\ user'[u].google = Nobody
  BY DEF RowsOK
<1>4. \A u, w \in Users, p \in People :
       (user'[u].email = p /\ user'[w].email = p) \/ (user'[u].google = p /\ user'[w].google = p)
         => u = w
  BY <1>2 DEF RowsOK
<1>. QED BY <1>1, <1>3, <1>4 DEF RowsOK

\* An account takes an address and a Google account nobody else has.
LEMMA NewOwner ==
  ASSUME RowsOK, NEW x \in Users, NEW row \in UserRow, user' = [user EXCEPT ![x] = row],
         row.made,
         row.email \in {user[x].email, Nobody} \/ Owners(row.email) = {},
         row.google = user[x].google \/ row.google = Nobody \/ GoogleOwners(row.google) \subseteq {x}
  PROVE RowsOK'
<1>. USE AccountsAssumption
<1>1. user' \in [Users -> UserRow] BY DEF RowsOK
<1>2. \A u \in Users : ~user'[u].made => user'[u].email = Nobody /\ user'[u].google = Nobody
  BY DEF RowsOK
<1>3. \A u, w \in Users, p \in People : user'[u].email = p /\ user'[w].email = p => u = w
  BY DEF RowsOK, Owners
<1>4. \A u, w \in Users, p \in People : user'[u].google = p /\ user'[w].google = p => u = w
  BY DEF RowsOK, GoogleOwners
<1>. QED BY <1>1, <1>2, <1>3, <1>4 DEF RowsOK
-----------------------------------------------------------------------------
(* What each part of the invariant needs of a step.                        *)

LEMMA StillIsGrowing == user' = user => Grows
BY DEF Grows

LEMMA RowsStay == RowsOK /\ user' = user => RowsOK'
BY DEF RowsOK

\* Signatures outlive any step in which rows only grow.
LEMMA SignatureHolds ==
  ASSUME NEW t, Signature(user, t), RowsOK, RowsOK', Grows
  PROVE Signature(user', t)
<1>1. CASE t.u = Nobody BY <1>1 DEF Signature
<1>2. CASE t.u # Nobody
  <2>1. t.u \in Users /\ t.v \in 0..MaxVersion BY <1>2 DEF Signature, Token
  <2>2. user[t.u].v \in 0..MaxVersion /\ user'[t.u].v \in 0..MaxVersion
    BY <2>1 DEF RowsOK, UserRow
  <2>. QED BY <1>2, <2>1, <2>2, AccountsAssumption DEF Signature, Grows
<1>. QED BY <1>1, <1>2

\* A token signed now is good.
LEMMA SignedNow ==
  ASSUME RowsOK, NEW u \in Users, user[u].made
  PROVE Signature(user, Sign(u))
<1>1. user[u].v \in 0..MaxVersion BY DEF RowsOK, UserRow
<1>. QED BY <1>1, AccountsAssumption DEF Signature, Sign, Token

LEMMA EmptySignature == Signature(user, NoToken)
BY AccountsAssumption DEF Signature, NoToken, Token

LEMMA CookiesStay ==
  ASSUME CookiesOK, RowsOK, RowsOK', Grows, cookie' = cookie
  PROVE CookiesOK'
BY SignatureHolds DEF CookiesOK

LEMMA CookieIsSet ==
  ASSUME CookiesOK, RowsOK, RowsOK', Grows, NEW d \in Devices, NEW t, SetSession(d, t),
         Signature(user', t)
  PROVE CookiesOK'
<1>1. cookie' \in [Devices -> Token] BY DEF CookiesOK, SetSession, Signature
<1>2. \A e \in Devices : Signature(user', cookie[e]) BY SignatureHolds DEF CookiesOK
<1>3. \A e \in Devices : cookie'[e] = IF e = d THEN t ELSE cookie[e] BY DEF CookiesOK, SetSession
<1>4. ASSUME NEW e \in Devices PROVE Signature(user', cookie'[e])
  <2>1. CASE e = d BY <1>3, <2>1
  <2>2. CASE e # d
    <3>1. Signature(user, cookie[e]) BY DEF CookiesOK
    <3>2. cookie'[e] = cookie[e] BY <1>3, <2>2
    <3>. QED BY <3>1, <3>2, SignatureHolds
  <2>. QED BY <2>1, <2>2
<1>. QED BY <1>1, <1>4 DEF CookiesOK

\* The copy on a socket stays right, or its token has become stale.
LEMMA SocketHolds ==
  ASSUME NEW s, SocketOK(user, s), RowsOK, RowsOK', Grows
  PROVE SocketOK(user', s)
<1>1. s \in Socket /\ Signature(user, s.token) /\ (s.st # "down" => s.token.u \in Users)
  BY DEF SocketOK
<1>2. Signature(user', s.token) BY <1>1, SignatureHolds
<1>3. ASSUME s.st # "down", user'[s.token.u].v = s.token.v PROVE s.bans = user'[s.token.u].bans
  <2>1. s.token.u \in Users /\ s.token.u # Nobody BY <1>1, <1>3, AccountsAssumption
  <2>2. user[s.token.u].made /\ s.token.v <= user[s.token.u].v BY <1>1, <2>1 DEF Signature
  <2>3. user[s.token.u].v \in Int /\ user'[s.token.u].v \in Int /\ s.token.v \in Int
    BY <1>1, <2>1, AccountsAssumption DEF RowsOK, UserRow, Socket, Token
  <2>4. user'[s.token.u].v = user[s.token.u].v /\ user'[s.token.u].bans = user[s.token.u].bans
    <3>1. ~(user'[s.token.u].v > user[s.token.u].v) BY <1>3, <2>2, <2>3
    <3>. QED BY <2>1, <2>2, <3>1 DEF Grows
  <2>. QED BY <1>3, <2>1, <2>4 DEF SocketOK
<1>. QED BY <1>1, <1>2, <1>3 DEF SocketOK

\* Every socket is as it was, or good as it is now.
LEMMA SocketsHold ==
  ASSUME SocketsOK, RowsOK, RowsOK', Grows, socket' \in [Devices -> Socket],
         \A d \in Devices : socket'[d] = socket[d] \/ SocketOK(user', socket'[d])
  PROVE SocketsOK'
<1>1. ASSUME NEW d \in Devices PROVE SocketOK(user', socket'[d])
  <2>1. CASE socket'[d] = socket[d]
    <3>1. SocketOK(user, socket[d]) BY DEF SocketsOK
    <3>. QED BY <2>1, <3>1, SocketHolds
  <2>. QED BY <2>1
<1>. QED BY <1>1 DEF SocketsOK

LEMMA SocketsStay ==
  ASSUME SocketsOK, RowsOK, RowsOK', Grows, socket' = socket
  PROVE SocketsOK'
BY SocketsHold DEF SocketsOK

LEMMA DownIsOK == SocketOK(user, Down)
BY EmptySignature DEF SocketOK, Down, Socket, Signature

LEMMA CallHolds ==
  ASSUME NEW call, CallOK(user, call), Grows
  PROVE CallOK(user', call)
BY DEF CallOK, Grows

LEMMA CallsStay ==
  ASSUME CallsOK, Grows, calls' = calls
  PROVE CallsOK'
BY CallHolds DEF CallsOK

LEMMA CallGoesOn ==
  ASSUME CallsOK, Grows, NEW c \in Calls, NEW call, calls' = [calls EXCEPT ![c] = call],
         CallOK(user, call)
  PROVE CallsOK'
<1>1. call \in Call BY DEF CallOK
<1>2. calls' \in [Calls -> Call] BY <1>1 DEF CallsOK
<1>3. ASSUME NEW e \in Calls PROVE CallOK(user', calls'[e])
  <2>1. calls'[e] = IF e = c THEN call ELSE calls[e] BY DEF CallsOK
  <2>2. CallOK(user, calls'[e]) BY <2>1 DEF CallsOK
  <2>. QED BY <2>2, CallHolds
<1>. QED BY <1>2, <1>3 DEF CallsOK

LEMMA AnsweredIsOK == CallOK(user, Answered) /\ CallOK(user, Idle)
BY DEF CallOK, Call, Ops, ForClub, Answered, Idle

LEMMA CallEnds ==
  ASSUME CallsOK, Grows, NEW c \in Calls, Ends(c)
  PROVE CallsOK'
BY CallGoesOn, AnsweredIsOK DEF Ends

LEMMA CallIsSent ==
  ASSUME CallsOK, Grows, NEW c \in Calls, NEW op, NEW by, NEW on, NEW at,
         Send(c, op, by, on, at, {}),
         CallOK(user, [op |-> op, by |-> by, on |-> on, at |-> at, seen |-> {}])
  PROVE CallsOK'
BY CallGoesOn DEF Send
-----------------------------------------------------------------------------
(* The steps of accounts.                                                  *)

\* Steps that leave the rows alone.
LEMMA NothingWritten ==
  ASSUME AccountsInv, user' = user
  PROVE RowsOK /\ RowsOK' /\ Grows
BY RowsStay, StillIsGrowing DEF AccountsInv

LEMMA OwnersAreMade ==
  ASSUME RowsOK, NEW u \in Users, NEW p \in People, u \in Owners(p) \cup GoogleOwners(p)
  PROVE user[u].made
BY AccountsAssumption DEF RowsOK, Owners, GoogleOwners

LEMMA SignedAreMade ==
  ASSUME RowsOK, CookiesOK, NEW d \in Devices, NEW u, Signed(d, u)
  PROVE u \in Users /\ user[u].made /\ cookie[d].v = user[u].v
<1>1. cookie[d] \in Token /\ cookie[d].u = u /\ u # Nobody /\ user[u].v = cookie[d].v
  BY DEF CookiesOK, Signature, Signed, Accepted
<1>. QED BY <1>1 DEF CookiesOK, Signature, Token

LEMMA LoginStep ==
  ASSUME AccountsInv, NEW d \in Devices, NEW p \in People, Login(d, p)
  PROVE AccountsInv'
<1>1. RowsOK /\ RowsOK' /\ Grows BY NothingWritten DEF Login
<1>2. PICK u \in Users : u \in Owners(p) /\ SetSession(d, Sign(u))
  BY DEF Login, LoginWithPassword, Owners
<1>3. Signature(user', Sign(u)) BY <1>1, <1>2, OwnersAreMade, SignedNow, SignatureHolds
<1>4. CookiesOK' BY <1>1, <1>2, <1>3, CookieIsSet DEF AccountsInv
<1>. QED BY <1>1, <1>4, SocketsStay, CallsStay DEF AccountsInv, Login

LEMMA GoogleLooksStep ==
  ASSUME AccountsInv, NEW c \in Calls, NEW d \in Devices, NEW p \in People, GoogleLooks(c, d, p)
  PROVE AccountsInv'
<1>1. RowsOK /\ RowsOK' /\ Grows BY NothingWritten DEF GoogleLooks
<1>2. SocketsOK' /\ synced' \in BOOLEAN BY <1>1, SocketsStay DEF AccountsInv, GoogleLooks
<1>3. CASE \E u \in GoogleOwners(p) : SetSession(d, Sign(u)) /\ UNCHANGED calls
  <2>1. PICK u \in Users : u \in GoogleOwners(p) /\ SetSession(d, Sign(u)) /\ UNCHANGED calls
    BY <1>3 DEF GoogleOwners
  <2>2. Signature(user', Sign(u)) BY <1>1, <2>1, OwnersAreMade, SignedNow, SignatureHolds
  <2>. QED BY <1>1, <1>2, <2>1, <2>2, CookieIsSet, CallsStay DEF AccountsInv
<1>4. CASE \E u \in GoogleOwners(p) : Send(c, "photo", p, u, d, {}) /\ UNCHANGED cookie
  <2>1. PICK u \in Users : u \in GoogleOwners(p) /\ Send(c, "photo", p, u, d, {})
    BY <1>4 DEF GoogleOwners
  <2>2. CallOK(user, [op |-> "photo", by |-> p, on |-> u, at |-> d, seen |-> {}])
    BY <1>1, <2>1, OwnersAreMade DEF CallOK, Call, Ops, ForClub
  <2>. QED BY <1>1, <1>2, <1>4, <2>1, <2>2, CallIsSent, CookiesStay DEF AccountsInv
<1>5. CASE Send(c, "by_email", p, Nobody, d, {}) /\ UNCHANGED cookie
  <2>1. CallOK(user, [op |-> "by_email", by |-> p, on |-> Nobody, at |-> d, seen |-> {}])
    BY DEF CallOK, Call, Ops, ForClub
  <2>. QED BY <1>1, <1>2, <1>5, <2>1, CallIsSent, CookiesStay DEF AccountsInv
<1>. QED BY <1>3, <1>4, <1>5 DEF GoogleLooks

LEMMA GoogleLooksByEmailStep ==
  ASSUME AccountsInv, NEW c \in Calls, GoogleLooksByEmail(c)
  PROVE AccountsInv'
<1>1. RowsOK /\ RowsOK' /\ Grows BY NothingWritten DEF GoogleLooksByEmail
<1>2. /\ calls[c] \in Call /\ CallOK(user, calls[c]) /\ calls[c].op = "by_email"
      /\ calls[c].by \in People /\ calls[c].at \in Devices /\ calls[c].seen = {}
  BY DEF AccountsInv, CallsOK, CallOK, GoogleLooksByEmail
<1>3. CASE Ends(c) BY <1>1, <1>3, CallEnds, CookiesStay, SocketsStay
                   DEF AccountsInv, GoogleLooksByEmail
<1>4. ASSUME NEW u \in Owners(calls[c].by),
             calls' = [calls EXCEPT ![c].op = "link", ![c].on = u]
      PROVE AccountsInv'
  <2>1. u \in Users /\ user[u].made BY <1>1, <1>2, OwnersAreMade DEF Owners
  <2>2. CallOK(user, [calls[c] EXCEPT !.op = "link", !.on = u])
    BY <1>2, <2>1 DEF CallOK, Call, Ops, ForClub
  <2>3. calls' = [calls EXCEPT ![c] = [calls[c] EXCEPT !.op = "link", !.on = u]]
    BY <1>4 DEF AccountsInv, CallsOK
  <2>. QED BY <1>1, <2>2, <2>3, CallGoesOn, CookiesStay, SocketsStay
           DEF AccountsInv, GoogleLooksByEmail
<1>5. CASE Goes(c, "create")
  <2>1. CallOK(user, [calls[c] EXCEPT !.op = "create"])
    BY <1>2 DEF CallOK, Call, Ops, ForClub
  <2>2. calls' = [calls EXCEPT ![c] = [calls[c] EXCEPT !.op = "create"]]
    BY <1>5 DEF Goes, AccountsInv, CallsOK
  <2>. QED BY <1>1, <2>1, <2>2, CallGoesOn, CookiesStay, SocketsStay
           DEF AccountsInv, GoogleLooksByEmail
<1>. QED BY <1>3, <1>4, <1>5 DEF GoogleLooksByEmail

LEMMA GoogleRefreshesStep ==
  ASSUME AccountsInv, NEW c \in Calls, GoogleRefreshes(c)
  PROVE AccountsInv'
<1>1. RowsOK /\ RowsOK' /\ Grows BY NothingWritten DEF GoogleRefreshes
<1>2. calls[c].on \in Users /\ user[calls[c].on].made /\ calls[c].at \in Devices
  BY DEF AccountsInv, CallsOK, CallOK, GoogleRefreshes
<1>3. Signature(user', Sign(calls[c].on)) BY <1>1, <1>2, SignedNow, SignatureHolds
<1>4. CookiesOK' BY <1>1, <1>2, <1>3, CookieIsSet DEF AccountsInv, GoogleRefreshes
<1>. QED BY <1>1, <1>4, SocketsStay, CallEnds DEF AccountsInv, GoogleRefreshes

LEMMA LogoutStep ==
  ASSUME AccountsInv, NEW d \in Devices, Logout(d)
  PROVE AccountsInv'
<1>1. RowsOK /\ RowsOK' /\ Grows BY NothingWritten DEF Logout
<1>2. Signature(user', NoToken) BY <1>1, EmptySignature, SignatureHolds
<1>3. CookiesOK' BY <1>1, <1>2, CookieIsSet DEF AccountsInv, Logout
<1>. QED BY <1>1, <1>3, SocketsStay, CallsStay DEF AccountsInv, Logout

\* An account comes into being, and the browser gets its first session.
LEMMA RowIsMade ==
  ASSUME RowsOK, NEW x \in Fresh, NEW row \in UserRow, user' = [user EXCEPT ![x] = row],
         row.made, row.v = 0,
         row.email = Nobody \/ Owners(row.email) = {},
         row.google = Nobody \/ GoogleOwners(row.google) = {}
  PROVE RowsOK' /\ Grows /\ Signature(user', [u |-> x, v |-> 0])
<1>. USE AccountsAssumption
<1>1. x \in Users /\ ~user[x].made BY DEF Fresh
<1>2. RowsOK' BY <1>1, NewOwner
<1>3. Grows BY <1>1 DEF Grows, RowsOK
<1>4. Signature(user', [u |-> x, v |-> 0]) BY <1>1 DEF Signature, Token, RowsOK
<1>. QED BY <1>2, <1>3, <1>4

LEMMA NewRowIs ==
  ASSUME NEW p \in People
  PROVE /\ NewRow(p) \in UserRow
        /\ NewRow(p).made /\ NewRow(p).v = 0 /\ NewRow(p).email = p /\ NewRow(p).google = Nobody
<1>1. 0 \in 0..MaxVersion BY AccountsAssumption
<1>2. NoRow \in UserRow BY <1>1 DEF NoRow, UserRow
<1>3. NoRow.v = 0 /\ NoRow.google = Nobody BY DEF NoRow
<1>4. NewRow(p) \in UserRow BY <1>2 DEF NewRow, UserRow
<1>5. NewRow(p).made /\ NewRow(p).email = p BY <1>2 DEF NewRow, UserRow
<1>6. NewRow(p).v = NoRow.v /\ NewRow(p).google = NoRow.google BY <1>2 DEF NewRow, UserRow
<1>. QED BY <1>3, <1>4, <1>5, <1>6

LEMMA RegisterStep ==
  ASSUME AccountsInv, NEW d \in Devices, NEW p \in People, Register(d, p)
  PROVE AccountsInv'
<1>1. PICK u \in Fresh : RegisterWithPassword(u, p) /\ SetSession(d, [u |-> u, v |-> 0])
  BY DEF Register
<1>. DEFINE row == [NewRow(p) EXCEPT !.password = TRUE]
<1>2. row.made /\ row.v = 0 /\ row.email = p /\ row.google = Nobody BY NewRowIs
<1>3. row \in UserRow BY NewRowIs DEF UserRow
<1>4. Owners(p) = {} /\ user' = [user EXCEPT ![u] = row] BY <1>1 DEF RegisterWithPassword
<1>. HIDE DEF row
<1>5. RowsOK /\ RowsOK' /\ Grows /\ Signature(user', [u |-> u, v |-> 0])
  BY <1>2, <1>3, <1>4, RowIsMade DEF AccountsInv
<1>6. CookiesOK' BY <1>1, <1>5, CookieIsSet DEF AccountsInv
<1>. QED BY <1>5, <1>6, SocketsStay, CallsStay DEF AccountsInv, Register

LEMMA GoogleCreatesStep ==
  ASSUME AccountsInv, NEW c \in Calls, GoogleCreates(c)
  PROVE AccountsInv'
<1>1. calls[c].by \in People /\ calls[c].at \in Devices
  BY DEF AccountsInv, CallsOK, CallOK, GoogleCreates
<1>2. CASE UNCHANGED <<user, cookie>>
  <2>1. RowsOK /\ RowsOK' /\ Grows BY <1>2, NothingWritten
  <2>. QED BY <1>2, <2>1, CookiesStay, SocketsStay, CallEnds DEF AccountsInv, GoogleCreates
<1>3. CASE ~UNCHANGED <<user, cookie>>
  <2>. DEFINE p == calls[c].by
              row == [NewRow(p) EXCEPT !.google = p, !.verified = TRUE]
  <2>1. Owners(p) = {} /\ GoogleOwners(p) = {} BY <1>3 DEF GoogleCreates
  <2>2. PICK u \in Fresh : user' = [user EXCEPT ![u] = row]
                           /\ SetSession(calls[c].at, [u |-> u, v |-> 0])
    BY <1>3 DEF GoogleCreates
  <2>3. row.made /\ row.v = 0 /\ row.email = p /\ row.google = p BY <1>1, NewRowIs
  <2>4. row \in UserRow BY <1>1, NewRowIs DEF UserRow
  <2>. HIDE DEF row
  <2>5. RowsOK /\ RowsOK' /\ Grows /\ Signature(user', [u |-> u, v |-> 0])
    BY <2>1, <2>2, <2>3, <2>4, RowIsMade DEF AccountsInv
  <2>6. CookiesOK' BY <1>1, <2>2, <2>5, CookieIsSet DEF AccountsInv
  <2>. QED BY <2>5, <2>6, SocketsStay, CallEnds DEF AccountsInv, GoogleCreates
<1>. QED BY <1>2, <1>3

LEMMA GoogleLinksStep ==
  ASSUME AccountsInv, NEW c \in Calls, GoogleLinks(c)
  PROVE AccountsInv'
<1>1. /\ calls[c].by \in People /\ calls[c].at \in Devices /\ calls[c].on \in Users
      /\ user[calls[c].on].made /\ user[calls[c].on] \in UserRow
  BY DEF AccountsInv, CallsOK, CallOK, RowsOK, GoogleLinks
<1>2. CASE UNCHANGED <<user, cookie>>
  <2>1. RowsOK /\ RowsOK' /\ Grows BY <1>2, NothingWritten
  <2>. QED BY <1>2, <2>1, CookiesStay, SocketsStay, CallEnds DEF AccountsInv, GoogleLinks
<1>3. CASE ~UNCHANGED <<user, cookie>>
  <2>. DEFINE u == calls[c].on
              row == [user[u] EXCEPT !.google = calls[c].by, !.verified = TRUE]
  <2>1. /\ GoogleOwners(calls[c].by) \subseteq {u} /\ SetSession(calls[c].at, Sign(u))
        /\ user' = [user EXCEPT ![u].google = calls[c].by, ![u].verified = TRUE]
    BY <1>3 DEF GoogleLinks
  <2>2. user' = [user EXCEPT ![u] = row] BY <1>1, <2>1 DEF AccountsInv, RowsOK
  <2>3. /\ row \in UserRow /\ row.made = user[u].made /\ row.email = user[u].email
        /\ row.google = calls[c].by /\ row.v = user[u].v /\ row.bans = user[u].bans
    BY <1>1 DEF UserRow
  <2>. HIDE DEF row
  <2>4. RowsOK' BY <1>1, <2>1, <2>2, <2>3, NewOwner DEF AccountsInv
  <2>5. Grows BY <1>1, <2>2, <2>3 DEF Grows, AccountsInv, RowsOK
  <2>6. Signature(user', Sign(u)) BY <1>1, <2>4, <2>5, SignedNow, SignatureHolds DEF AccountsInv
  <2>7. CookiesOK' BY <1>1, <2>1, <2>4, <2>5, <2>6, CookieIsSet DEF AccountsInv
  <2>. QED BY <2>4, <2>5, <2>7, SocketsStay, CallEnds DEF AccountsInv, GoogleLinks
<1>. QED BY <1>2, <1>3

\* A row is written and stays its owner's; new restrictions come with a new version.
LEMMA RowIsWritten ==
  ASSUME RowsOK, NEW x \in Users, NEW row \in UserRow, user' = [user EXCEPT ![x] = row],
         row.made = user[x].made,
         row.email \in {user[x].email, Nobody}, row.google \in {user[x].google, Nobody},
         row.v > user[x].v \/ (row.v = user[x].v /\ row.bans = user[x].bans)
  PROVE RowsOK' /\ Grows
<1>1. RowsOK' BY SameOwner DEF RowsOK
<1>2. Grows BY DEF RowsOK, Grows
<1>. QED BY <1>1, <1>2

LEMMA VersionGoesUp ==
  ASSUME RowsOK, NEW u \in Users, user[u].v < MaxVersion
  PROVE user[u].v + 1 \in 0..MaxVersion /\ user[u].v + 1 > user[u].v
BY AccountsAssumption DEF RowsOK, UserRow

LEMMA LogoutEverywhereStep ==
  ASSUME AccountsInv, NEW d \in Devices, LogoutEverywhere(d)
  PROVE AccountsInv'
<1>. DEFINE u == cookie[d].u
            row == [user[u] EXCEPT !.v = @ + 1]
<1>1. u \in Users /\ user[u].v < MaxVersion
  BY SignedAreMade DEF AccountsInv, LogoutEverywhere
<1>2. user' = [user EXCEPT ![u] = row]
  BY <1>1 DEF LogoutEverywhere, RevokeTokens, AccountsInv, RowsOK
<1>3. /\ row \in UserRow /\ row.made = user[u].made /\ row.email = user[u].email
      /\ row.google = user[u].google /\ row.v > user[u].v
  BY <1>1, VersionGoesUp DEF AccountsInv, RowsOK, UserRow
<1>. HIDE DEF row
<1>4. RowsOK' /\ Grows BY <1>1, <1>2, <1>3, RowIsWritten DEF AccountsInv
<1>5. Signature(user', NoToken) BY <1>4, EmptySignature, SignatureHolds DEF AccountsInv
<1>6. CookiesOK' BY <1>4, <1>5, CookieIsSet DEF AccountsInv, LogoutEverywhere
<1>. QED BY <1>4, <1>6, SocketsStay, CallsStay DEF AccountsInv, LogoutEverywhere

LEMMA AdmitsAreMade ==
  ASSUME AccountsInv, NEW u, NEW gate, Admits(u, gate)
  PROVE u \in Users /\ user[u].made
BY SignedAreMade DEF AccountsInv, Admits

\* A request is sent and nothing else happens.
LEMMA SentStep ==
  ASSUME AccountsInv, NEW c \in Calls, NEW op, NEW by, NEW on, NEW at,
         Send(c, op, by, on, at, {}),
         CallOK(user, [op |-> op, by |-> by, on |-> on, at |-> at, seen |-> {}]),
         UNCHANGED <<user, cookie, socket, synced>>
  PROVE AccountsInv'
<1>1. RowsOK /\ RowsOK' /\ Grows BY NothingWritten
<1>2. CallsOK' BY <1>1, CallIsSent DEF AccountsInv
<1>. QED BY <1>1, <1>2, CookiesStay, SocketsStay DEF AccountsInv

\* A request is answered, or goes on to its next part, and nothing else happens.
LEMMA AnsweredStep ==
  ASSUME AccountsInv, NEW c \in Calls, Ends(c), UNCHANGED <<user, cookie, socket, synced>>
  PROVE AccountsInv'
<1>1. RowsOK /\ RowsOK' /\ Grows BY NothingWritten
<1>. QED BY <1>1, CallEnds, CookiesStay, SocketsStay DEF AccountsInv

LEMMA OnwardStep ==
  ASSUME AccountsInv, NEW c \in Calls, NEW call, calls' = [calls EXCEPT ![c] = call],
         CallOK(user, call), UNCHANGED <<user, cookie, socket, synced>>
  PROVE AccountsInv'
<1>1. RowsOK /\ RowsOK' /\ Grows BY NothingWritten
<1>. QED BY <1>1, CallGoesOn, CookiesStay, SocketsStay DEF AccountsInv

LEMMA EditReadsStep ==
  ASSUME AccountsInv, NEW c \in Calls, NEW u \in Users, EditReads(c, u)
  PROVE AccountsInv'
<1>1. CallOK(user, [op |-> "edit", by |-> u, on |-> u, at |-> Nobody, seen |-> {}])
  BY DEF CallOK, Call, Ops, ForClub
<1>. QED BY <1>1, SentStep DEF EditReads

LEMMA DeleteReadsStep ==
  ASSUME AccountsInv, NEW c \in Calls, NEW d \in Devices, NEW u \in Users, DeleteReads(c, d, u)
  PROVE AccountsInv'
<1>1. CallOK(user, [op |-> "handoff", by |-> u, on |-> u, at |-> d, seen |-> {}])
  BY DEF CallOK, Call, Ops, ForClub
<1>. QED BY <1>1, SentStep DEF DeleteReads

\* The administrator is not his own target: he is one, the target is none.
LEMMA AdminChecksStep ==
  ASSUME AccountsInv, NEW c \in Calls, NEW a \in Users, NEW u \in Users,
         NEW deed \in {"rename", "restrict", "handoff"}, AdminChecks(c, a, u, deed)
  PROVE AccountsInv'
<1>1. a # u BY DEF AdminChecks, TargetIsNonAdmin
<1>2. CallOK(user, [op |-> deed, by |-> a, on |-> u, at |-> Nobody, seen |-> {}])
  BY <1>1 DEF CallOK, Call, Ops, ForClub
<1>. QED BY <1>2, SentStep DEF AdminChecks

LEMMA EditCommitsStep ==
  ASSUME AccountsInv, NEW c \in Calls, EditCommits(c)
  PROVE AccountsInv'
<1>. DEFINE u == calls[c].on
            row == [user[u] EXCEPT !.personal = TRUE]
<1>1. u \in Users /\ user[u] \in UserRow
  BY DEF AccountsInv, CallsOK, CallOK, RowsOK, EditCommits
<1>2. user' = [user EXCEPT ![u] = row] BY <1>1 DEF EditCommits, AccountsInv, RowsOK
<1>3. /\ row \in UserRow /\ row.made = user[u].made /\ row.email = user[u].email
      /\ row.google = user[u].google /\ row.v = user[u].v /\ row.bans = user[u].bans
  BY <1>1 DEF UserRow
<1>. HIDE DEF row
<1>4. RowsOK' /\ Grows BY <1>1, <1>2, <1>3, RowIsWritten DEF AccountsInv
<1>. QED BY <1>4, CookiesStay, SocketsStay, CallEnds DEF AccountsInv, EditCommits

LEMMA AnonymiseStep ==
  ASSUME AccountsInv, NEW c \in Calls, Anonymise(c)
  PROVE AccountsInv'
<1>. DEFINE u == calls[c].on
<1>1. /\ u \in Users /\ user[u] \in UserRow /\ user[u].v < MaxVersion
      /\ calls[c] \in Call /\ calls[c].op = "anonymise" /\ calls[c].seen = {}
      /\ calls[c].by = u => calls[c].at \in Devices
  BY DEF AccountsInv, CallsOK, CallOK, RowsOK, Anonymise
<1>2. user[u].v + 1 \in 0..MaxVersion /\ user[u].v + 1 > user[u].v
  BY <1>1, VersionGoesUp DEF AccountsInv
<1>. DEFINE gone == Anonymised(user[u])
<1>3. /\ gone \in UserRow /\ gone.made = user[u].made /\ gone.email = Nobody
      /\ gone.google = Nobody /\ gone.v = user[u].v + 1
  BY <1>1, <1>2 DEF Anonymised, UserRow
<1>4. CASE calls[c].by = u
  <2>1. user' = [user EXCEPT ![u] = gone] /\ SetSession(calls[c].at, NoToken) /\ Ends(c)
    BY <1>1, <1>4 DEF Anonymise, AccountsInv, RowsOK
  <2>. HIDE DEF gone
  <2>2. RowsOK' /\ Grows BY <1>1, <1>2, <1>3, <2>1, RowIsWritten DEF AccountsInv
  <2>3. Signature(user', NoToken) BY <2>2, EmptySignature, SignatureHolds DEF AccountsInv
  <2>4. CookiesOK' BY <1>1, <1>4, <2>1, <2>2, <2>3, CookieIsSet DEF AccountsInv
  <2>. QED BY <2>1, <2>2, <2>4, SocketsStay, CallEnds DEF AccountsInv, Anonymise
<1>5. CASE calls[c].by # u
  <2>. DEFINE row == LockedOut(user[u])
  <2>1. user' = [user EXCEPT ![u] = row] /\ Goes(c, "disconnect") /\ UNCHANGED cookie
    BY <1>1, <1>5 DEF Anonymise, AccountsInv, RowsOK
  <2>. HIDE DEF gone
  <2>2. /\ row \in UserRow /\ row.made = user[u].made /\ row.email = Nobody
        /\ row.google = Nobody /\ row.v = user[u].v + 1
    BY <1>3 DEF LockedOut, UserRow, Restrictions, gone
  <2>. HIDE DEF row
  <2>3. RowsOK' /\ Grows BY <1>1, <1>2, <2>1, <2>2, RowIsWritten DEF AccountsInv
  <2>4. calls' = [calls EXCEPT ![c] = [calls[c] EXCEPT !.op = "disconnect"]]
    BY <2>1 DEF Goes, AccountsInv, CallsOK
  <2>5. CallOK(user, [calls[c] EXCEPT !.op = "disconnect"])
    BY <1>1 DEF CallOK, Call, Ops, ForClub
  <2>6. CallsOK' BY <2>3, <2>4, <2>5, CallGoesOn DEF AccountsInv
  <2>. QED BY <2>1, <2>3, <2>6, CookiesStay, SocketsStay DEF AccountsInv, Anonymise
<1>. QED BY <1>4, <1>5

LEMMA AdminRenamesStep ==
  ASSUME AccountsInv, NEW c \in Calls, AdminRenames(c)
  PROVE AccountsInv'
<1>. DEFINE u == calls[c].on
            row == [user[u] EXCEPT !.personal = TRUE]
<1>1. u \in Users /\ user[u] \in UserRow
  BY DEF AccountsInv, CallsOK, CallOK, RowsOK, AdminRenames
<1>2. CASE user' = user
  <2>1. RowsOK' /\ Grows BY <1>2, NothingWritten
  <2>. QED BY <2>1, CookiesStay, SocketsStay, CallEnds DEF AccountsInv, AdminRenames
<1>3. CASE user' # user
  <2>1. user' = [user EXCEPT ![u] = row] BY <1>1, <1>3 DEF AdminRenames, AccountsInv, RowsOK
  <2>2. /\ row \in UserRow /\ row.made = user[u].made /\ row.email = user[u].email
        /\ row.google = user[u].google /\ row.v = user[u].v /\ row.bans = user[u].bans
    BY <1>1 DEF UserRow
  <2>. HIDE DEF row
  <2>3. RowsOK' /\ Grows BY <1>1, <2>1, <2>2, RowIsWritten DEF AccountsInv
  <2>. QED BY <2>3, CookiesStay, SocketsStay, CallEnds DEF AccountsInv, AdminRenames
<1>. QED BY <1>2, <1>3

LEMMA AdminRestrictsStep ==
  ASSUME AccountsInv, NEW c \in Calls, AdminRestricts(c)
  PROVE AccountsInv'
<1>. DEFINE u == calls[c].on
<1>1. /\ u \in Users /\ user[u] \in UserRow
      /\ calls[c] \in Call /\ calls[c].op = "restrict" /\ calls[c].seen = {}
  BY DEF AccountsInv, CallsOK, CallOK, RowsOK, AdminRestricts
<1>2. CASE Live(u)
  <2>1. PICK bans \in Punishments : SetUserRestrictions(u, bans) BY <1>2 DEF AdminRestricts
  <2>2. user[u].v < MaxVersion /\ Goes(c, "disconnect") BY <1>2 DEF AdminRestricts
  <2>3. user[u].v + 1 \in 0..MaxVersion /\ user[u].v + 1 > user[u].v
    BY <1>1, <2>2, VersionGoesUp DEF AccountsInv
  <2>. DEFINE row == [user[u] EXCEPT !.bans = bans, !.v = @ + 1]
  <2>4. user' = [user EXCEPT ![u] = row] BY <1>1, <2>1 DEF SetUserRestrictions, AccountsInv, RowsOK
  <2>5. bans \in SUBSET Restrictions BY PunishmentsAssumption
  <2>6. /\ row \in UserRow /\ row.made = user[u].made /\ row.email = user[u].email
        /\ row.google = user[u].google /\ row.v > user[u].v
    BY <1>1, <2>3, <2>5 DEF UserRow
  <2>. HIDE DEF row
  <2>7. RowsOK' /\ Grows BY <1>1, <2>4, <2>6, RowIsWritten DEF AccountsInv
  <2>8. calls' = [calls EXCEPT ![c] = [calls[c] EXCEPT !.op = "disconnect"]]
    BY <2>2 DEF Goes, AccountsInv, CallsOK
  <2>9. CallOK(user, [calls[c] EXCEPT !.op = "disconnect"])
    BY <1>1 DEF CallOK, Call, Ops, ForClub
  <2>10. CallsOK' BY <2>7, <2>8, <2>9, CallGoesOn DEF AccountsInv
  <2>. QED BY <2>7, <2>10, CookiesStay, SocketsStay DEF AccountsInv, AdminRestricts
<1>3. CASE ~Live(u) BY <1>3, AnsweredStep DEF AdminRestricts
<1>. QED BY <1>2, <1>3

LEMMA DisconnectUserStep ==
  ASSUME AccountsInv, NEW c \in Calls, DisconnectUser(c)
  PROVE AccountsInv'
<1>1. RowsOK /\ RowsOK' /\ Grows BY NothingWritten DEF DisconnectUser
<1>2. SocketOK(user', Down) BY <1>1, DownIsOK, SocketHolds
<1>3. socket' \in [Devices -> Socket]
  BY <1>2 DEF DisconnectUser, AccountsInv, SocketsOK, SocketOK
<1>4. \A d \in Devices : socket'[d] = socket[d] \/ SocketOK(user', socket'[d])
  BY <1>2 DEF DisconnectUser
<1>5. SocketsOK' BY <1>1, <1>3, <1>4, SocketsHold DEF AccountsInv
<1>. QED BY <1>1, <1>5, CookiesStay, CallEnds DEF AccountsInv, DisconnectUser

LEMMA RestartStep == AccountsInv /\ Restart => AccountsInv'
<1>. SUFFICES ASSUME AccountsInv, Restart PROVE AccountsInv' OBVIOUS
<1>1. RowsOK /\ RowsOK' /\ Grows BY NothingWritten DEF Restart
<1>2. SocketOK(user', Down) BY <1>1, DownIsOK, SocketHolds
<1>3. SocketsOK'
  <2>1. socket' \in [Devices -> Socket] BY <1>2 DEF Restart, SocketOK
  <2>. QED BY <1>1, <1>2, <2>1, SocketsHold DEF AccountsInv, Restart
<1>4. CallsOK'
  <2>1. CallOK(user', Answered) /\ CallOK(user', Idle) BY <1>1, AnsweredIsOK, CallHolds
  <2>2. \A c \in Calls : calls'[c] \in {Answered, Idle} BY DEF Restart
  <2>3. calls' \in [Calls -> Call] BY <2>1, <2>2 DEF Restart, CallOK
  <2>. QED BY <2>1, <2>2, <2>3 DEF CallsOK
<1>. QED BY <1>1, <1>3, <1>4, CookiesStay DEF AccountsInv, Restart

LEMMA SyncAdminRosterStep == AccountsInv /\ SyncAdminRoster => AccountsInv'
<1>. SUFFICES ASSUME AccountsInv, SyncAdminRoster PROVE AccountsInv' OBVIOUS
<1>1. user' \in [Users -> UserRow] /\ \A u \in Users :
        /\ user'[u].made = user[u].made /\ user'[u].email = user[u].email
        /\ user'[u].google = user[u].google /\ user'[u].v = user[u].v
        /\ user'[u].bans = user[u].bans
  <2>1. ASSUME NEW u \in Users, NEW listed \in BOOLEAN
        PROVE LET row == [user[u] EXCEPT !.admin = listed]
              IN /\ row \in UserRow /\ row.made = user[u].made /\ row.email = user[u].email
                 /\ row.google = user[u].google /\ row.v = user[u].v /\ row.bans = user[u].bans
    BY DEF AccountsInv, RowsOK, UserRow
  <2>2. \A u \in Users : (user[u].email \in Roster) \in BOOLEAN OBVIOUS
  <2>. QED BY <2>1, <2>2 DEF SyncAdminRoster
<1>2. RowsOK' /\ Grows BY <1>1 DEF RowsOK, Grows, AccountsInv
<1>. QED BY <1>2, CookiesStay, SocketsStay, CallsStay DEF AccountsInv, SyncAdminRoster

\* One socket changes.
LEMMA SocketStep ==
  ASSUME AccountsInv, NEW d \in Devices, NEW s, socket' = [socket EXCEPT ![d] = s],
         SocketOK(user, s), UNCHANGED <<user, cookie, calls, synced>>
  PROVE AccountsInv'
<1>1. RowsOK /\ RowsOK' /\ Grows BY NothingWritten
<1>2. SocketOK(user', s) BY <1>1, SocketHolds
<1>3. socket' \in [Devices -> Socket] BY DEF AccountsInv, SocketsOK, SocketOK
<1>4. \A e \in Devices : socket'[e] = socket[e] \/ SocketOK(user', socket'[e])
  BY <1>2 DEF AccountsInv, SocketsOK
<1>5. SocketsOK' BY <1>1, <1>3, <1>4, SocketsHold DEF AccountsInv
<1>. QED BY <1>1, <1>5, CookiesStay, CallsStay DEF AccountsInv

LEMMA HandshakeReadsStep ==
  ASSUME AccountsInv, NEW d \in Devices, HandshakeReads(d)
  PROVE AccountsInv'
<1>. DEFINE s == [st |-> "shaking", token |-> cookie[d], bans |-> user[cookie[d].u].bans,
                  room |-> FALSE]
<1>1. cookie[d].u \in Users /\ Signature(user, cookie[d])
  BY SignedAreMade DEF AccountsInv, HandshakeReads, CookiesOK
<1>2. user[cookie[d].u].bans \in SUBSET Restrictions BY <1>1 DEF AccountsInv, RowsOK, UserRow
<1>3. SocketOK(user, s) BY <1>1, <1>2 DEF SocketOK, Socket, Signature
<1>. QED BY <1>3, SocketStep DEF HandshakeReads

LEMMA HandshakeConnectsStep ==
  ASSUME AccountsInv, NEW d \in Devices, HandshakeConnects(d)
  PROVE AccountsInv'
<1>. DEFINE s == [socket[d] EXCEPT !.st = "up"]
<1>1. SocketOK(user, socket[d]) /\ socket[d].st = "shaking"
  BY DEF AccountsInv, SocketsOK, HandshakeConnects
<1>2. SocketOK(user, s) BY <1>1 DEF SocketOK, Socket
<1>3. socket' = [socket EXCEPT ![d] = s] BY DEF HandshakeConnects, AccountsInv, SocketsOK
<1>. QED BY <1>2, <1>3, SocketStep DEF HandshakeConnects

LEMMA JoinGameStep ==
  ASSUME AccountsInv, NEW d \in Devices, JoinGame(d)
  PROVE AccountsInv'
<1>. DEFINE s == [socket[d] EXCEPT !.room = TRUE]
<1>1. SocketOK(user, socket[d]) BY DEF AccountsInv, SocketsOK
<1>2. SocketOK(user, s) BY <1>1 DEF SocketOK, Socket
<1>3. socket' = [socket EXCEPT ![d] = s] BY DEF JoinGame, AccountsInv, SocketsOK
<1>. QED BY <1>2, <1>3, SocketStep DEF JoinGame

LEMMA RecheckStep ==
  ASSUME AccountsInv, NEW d \in Devices, Recheck(d)
  PROVE AccountsInv'
<1>1. SocketOK(user, socket[d]) /\ socket[d].st = "up" BY DEF AccountsInv, SocketsOK, Recheck
<1>2. CASE Stale(socket[d]) BY <1>2, DownIsOK, SocketStep DEF Recheck
<1>3. CASE ~Stale(socket[d])
  <2>. DEFINE s == [socket[d] EXCEPT !.bans = user[socket[d].token.u].bans]
  <2>1. socket[d].token.u \in Users BY <1>1 DEF SocketOK
  <2>2. user[socket[d].token.u].bans \in SUBSET Restrictions
    BY <2>1 DEF AccountsInv, RowsOK, UserRow
  <2>3. SocketOK(user, s) BY <1>1, <2>2 DEF SocketOK, Socket
  <2>. QED BY <1>3, <2>3, SocketStep DEF Recheck
<1>. QED BY <1>2, <1>3

LEMMA AccountsStep == AccountsInv /\ AccountsNext => AccountsInv'
<1>. SUFFICES ASSUME AccountsInv, AccountsNext PROVE AccountsInv' OBVIOUS
<1>1. ASSUME NEW d \in Devices, NEW p \in People, Register(d, p) \/ Login(d, p) PROVE AccountsInv'
  BY <1>1, RegisterStep, LoginStep
<1>2. ASSUME NEW c \in Calls, NEW d \in Devices, NEW p \in People, GoogleLooks(c, d, p)
      PROVE AccountsInv'
  BY <1>2, GoogleLooksStep
<1>3. ASSUME NEW c \in Calls,
             GoogleLooksByEmail(c) \/ GoogleRefreshes(c) \/ GoogleLinks(c) \/ GoogleCreates(c)
      PROVE AccountsInv'
  BY <1>3, GoogleLooksByEmailStep, GoogleRefreshesStep, GoogleLinksStep, GoogleCreatesStep
<1>4. ASSUME NEW d \in Devices, Logout(d) \/ LogoutEverywhere(d) PROVE AccountsInv'
  BY <1>4, LogoutStep, LogoutEverywhereStep
<1>5. ASSUME NEW c \in Calls, NEW u \in Users, EditReads(c, u) PROVE AccountsInv'
  BY <1>5, EditReadsStep
<1>6. ASSUME NEW c \in Calls, NEW d \in Devices, NEW u \in Users, DeleteReads(c, d, u)
      PROVE AccountsInv'
  BY <1>6, DeleteReadsStep
<1>7. ASSUME NEW c \in Calls, NEW a \in Users, NEW u \in Users,
             NEW deed \in {"rename", "restrict", "handoff"}, AdminChecks(c, a, u, deed)
      PROVE AccountsInv'
  BY <1>7, AdminChecksStep
<1>8. ASSUME NEW c \in Calls, EditCommits(c) \/ Anonymise(c) \/ AdminRenames(c)
                              \/ AdminRestricts(c) \/ DisconnectUser(c)
      PROVE AccountsInv'
  BY <1>8, EditCommitsStep, AnonymiseStep, AdminRenamesStep, AdminRestrictsStep, DisconnectUserStep
<1>9. CASE Restart \/ SyncAdminRoster BY <1>9, RestartStep, SyncAdminRosterStep
<1>10. ASSUME NEW d \in Devices,
              HandshakeReads(d) \/ HandshakeConnects(d) \/ SocketCloses(d) \/ JoinGame(d) \/ Recheck(d)
       PROVE AccountsInv'
  <2>1. ASSUME SocketCloses(d) PROVE AccountsInv' BY <2>1, DownIsOK, SocketStep DEF SocketCloses
  <2>. QED BY <1>10, <2>1, HandshakeReadsStep, HandshakeConnectsStep, JoinGameStep, RecheckStep
<1>. QED BY <1>1, <1>2, <1>3, <1>4, <1>5, <1>6, <1>7, <1>8, <1>9, <1>10 DEF AccountsNext
-----------------------------------------------------------------------------
(* Lists of members.                                                       *)

\* Taking one element out moves the later ones up by one.
LEMMA RemovalShifts ==
  ASSUME NEW S, NEW q \in Seq(S), NEW k \in 1..Len(q)
  PROVE /\ RemoveAt(q, k) \in Seq(S) /\ Len(RemoveAt(q, k)) = Len(q) - 1
        /\ \A i \in 1..(Len(q) - 1) : RemoveAt(q, k)[i] = IF i < k THEN q[i] ELSE q[i + 1]
<1>. DEFINE a == SubSeq(q, 1, k - 1)
            b == SubSeq(q, k + 1, Len(q))
<1>1. a \in Seq(S) /\ Len(a) = k - 1 /\ \A i \in 1..(k - 1) : a[i] = q[i]
  <2>1. \A i \in 1..(k - 1) : q[i] \in S OBVIOUS
  <2>. QED BY <2>1, SubSeqProperties
<1>2. /\ b \in Seq(S) /\ Len(b) = Len(q) - k
      /\ \A i \in 1..(Len(q) - k) : b[i] = q[k + i]
  <2>1. \A i \in (k + 1)..Len(q) : q[i] \in S OBVIOUS
  <2>2. /\ b \in Seq(S)
        /\ Len(b) = IF k + 1 <= Len(q) THEN Len(q) - (k + 1) + 1 ELSE 0
        /\ \A i \in 1..(Len(q) - (k + 1) + 1) : b[i] = q[(k + 1) + i - 1]
    BY <2>1, SubSeqProperties
  <2>. QED BY <2>2
<1>3. RemoveAt(q, k) = a \o b BY DEF RemoveAt
<1>. HIDE DEF a, b
<1>4. /\ a \o b \in Seq(S) /\ Len(a \o b) = Len(a) + Len(b)
      /\ \A i \in 1..(Len(a) + Len(b)) :
           (a \o b)[i] = IF i <= Len(a) THEN a[i] ELSE b[i - Len(a)]
  BY <1>1, <1>2, ConcatProperties
<1>. QED BY <1>1, <1>2, <1>3, <1>4

\* Everybody but one, in the same order, once.
LEMMA OthersAre ==
  ASSUME NEW S, NEW q \in Seq(S), NEW u, IsInjective(q)
  PROVE /\ Others(q, u) \in Seq(S) /\ IsInjective(Others(q, u))
        /\ ToSet(Others(q, u)) = ToSet(q) \ {u}
<1>1. CASE u \notin ToSet(q) BY <1>1 DEF Others
<1>2. CASE u \in ToSet(q)
  <2>. DEFINE k == CHOOSE i \in DOMAIN q : q[i] = u
              r == Others(q, u)
  <2>1. k \in 1..Len(q) /\ q[k] = u BY <1>2 DEF ToSet
  <2>2. r = RemoveAt(q, k) BY <1>2 DEF Others
  <2>. HIDE DEF k, r
  <2>3. /\ r \in Seq(S) /\ Len(r) = Len(q) - 1
        /\ \A i \in 1..(Len(q) - 1) : r[i] = IF i < k THEN q[i] ELSE q[i + 1]
    BY <2>1, <2>2, RemovalShifts
  <2>4. \A i, j \in 1..Len(q) : q[i] = q[j] => i = j BY DEF IsInjective
  <2>5. IsInjective(r)
    <3>1. SUFFICES ASSUME NEW i \in 1..(Len(q) - 1), NEW j \in 1..(Len(q) - 1), r[i] = r[j]
                   PROVE i = j
      BY <2>3 DEF IsInjective
    <3>2. i \in 1..Len(q) /\ j \in 1..Len(q) /\ i + 1 \in 1..Len(q) /\ j + 1 \in 1..Len(q)
      OBVIOUS
    <3>. QED BY <2>1, <2>3, <2>4, <3>1, <3>2
  <2>6. ToSet(r) = ToSet(q) \ {u}
    <3>1. ASSUME NEW i \in 1..Len(r) PROVE r[i] \in ToSet(q) \ {u}
      <4>1. i \in 1..(Len(q) - 1) /\ i \in 1..Len(q) /\ i + 1 \in 1..Len(q) BY <2>3
      <4>2. r[i] = IF i < k THEN q[i] ELSE q[i + 1] BY <2>3, <4>1
      <4>3. \E j \in 1..Len(q) : j # k /\ r[i] = q[j] BY <2>1, <4>1, <4>2
      <4>. QED BY <2>1, <2>4, <4>3 DEF ToSet
    <3>2. ASSUME NEW j \in 1..Len(q), q[j] # u PROVE q[j] \in ToSet(r)
      <4>1. j # k BY <2>1, <3>2
      <4>2. CASE j < k
        <5>1. j \in 1..Len(r) /\ r[j] = q[j] BY <2>1, <2>3, <4>2
        <5>. QED BY <5>1 DEF ToSet
      <4>3. CASE j > k
        <5>1. j - 1 \in 1..Len(r) /\ r[j - 1] = q[(j - 1) + 1] BY <2>1, <2>3, <4>3
        <5>2. (j - 1) + 1 = j OBVIOUS
        <5>. QED BY <5>1, <5>2 DEF ToSet
      <4>. QED BY <2>1, <4>1, <4>2, <4>3
    <3>. QED BY <2>3, <3>1, <3>2 DEF ToSet
  <2>. QED BY <2>3, <2>5, <2>6 DEF r
<1>. QED BY <1>1, <1>2

LEMMA OneMore ==
  ASSUME NEW S, NEW q \in Seq(S), NEW u \in S, IsInjective(q), u \notin ToSet(q)
  PROVE /\ Append(q, u) \in Seq(S) /\ IsInjective(Append(q, u))
        /\ ToSet(Append(q, u)) = ToSet(q) \cup {u}
<1>. DEFINE r == Append(q, u)
<1>1. /\ r \in Seq(S) /\ Len(r) = Len(q) + 1 /\ r[Len(q) + 1] = u
      /\ \A i \in 1..Len(q) : r[i] = q[i]
  OBVIOUS
<1>. HIDE DEF r
<1>2. \A i, j \in 1..Len(q) : q[i] = q[j] => i = j BY DEF IsInjective
<1>3. \A i \in 1..Len(q) : q[i] # u BY DEF ToSet
<1>4. DOMAIN r = 1..(Len(q) + 1) /\ \A i \in DOMAIN r : i \in 1..Len(q) \/ i = Len(q) + 1 BY <1>1
<1>5. IsInjective(r) BY <1>1, <1>2, <1>3, <1>4 DEF IsInjective
<1>6. ToSet(r) = ToSet(q) \cup {u}
  <2>1. 1..Len(q) \subseteq DOMAIN r /\ Len(q) + 1 \in DOMAIN r BY <1>4
  <2>. QED BY <1>1, <1>4, <2>1 DEF ToSet
<1>. QED BY <1>1, <1>5, <1>6 DEF r

LEMMA JustOne ==
  ASSUME NEW S, NEW u \in S
  PROVE <<u>> \in Seq(S) /\ IsInjective(<<u>>) /\ ToSet(<<u>>) = {u}
BY DEF IsInjective, ToSet

LEMMA NobodyInTheList ==
  ToSet(<<>>) = {} /\ IsInjective(<<>>) /\ \A S : <<>> \in Seq(S)
BY DEF ToSet, IsInjective
-----------------------------------------------------------------------------
(* The invariant of clubs.                                                 *)

RowOK(row) ==
  /\ row \in ClubRow /\ IsInjective(row.members)
  /\ row.st # "live" => row.head = Nobody /\ row.members = <<>> /\ row.asking = {}

ClubsInv ==
  /\ club \in [Clubs -> ClubRow] /\ \A k \in Clubs : RowOK(club[k])
  /\ primary \in [Users -> Clubs \cup {Nobody}]
  /\ \A u \in Users : primary[u] # Nobody => Exists(primary[u])

Memberships(u) == {k \in Clubs : u \in Members(k)}
CapInv ==
  \A u \in Users : IsFiniteSet(Memberships(u)) /\ Cardinality(Memberships(u)) <= MaxClubs

PlatformInv == AccountsInv /\ ClubsInv /\ CapInv

LEMMA RowsOfNoClub == RowOK(NoClub) /\ RowOK(Gone)
<1>1. NoClub \in ClubRow BY NobodyInTheList DEF NoClub, ClubRow
<1>2. Gone \in ClubRow BY <1>1 DEF Gone, ClubRow
<1>. QED BY <1>1, <1>2, NobodyInTheList DEF RowOK, NoClub, Gone

LEMMA MembersAreUsers ==
  ASSUME ClubsInv, NEW k \in Clubs
  PROVE /\ club[k] \in ClubRow /\ RowOK(club[k]) /\ club[k].members \in Seq(Users)
        /\ Members(k) \subseteq Users /\ club[k].head \in Users \cup {Nobody}
        /\ ~Exists(k) => Members(k) = {} /\ club[k].head = Nobody /\ club[k].asking = {}
<1>1. club[k] \in ClubRow /\ RowOK(club[k]) BY DEF ClubsInv
<1>2. club[k].members \in Seq(Users) /\ club[k].head \in Users \cup {Nobody} BY <1>1 DEF ClubRow
<1>3. Members(k) \subseteq Users BY <1>2 DEF Members, ToSet
<1>4. ~Exists(k) => Members(k) = {} /\ club[k].head = Nobody /\ club[k].asking = {}
  BY <1>1, NobodyInTheList DEF RowOK, Exists, Members
<1>. QED BY <1>1, <1>2, <1>3, <1>4

LEMMA PlatformStart == Init => PlatformInv
<1>. SUFFICES ASSUME Init PROVE PlatformInv OBVIOUS
<1>1. ClubsInv BY RowsOfNoClub DEF Init, ClubsInv, RowOK
<1>2. CapInv
  <2>1. \A u \in Users : Memberships(u) = {}
    BY NobodyInTheList DEF Init, Memberships, Members, NoClub
  <2>. QED BY <2>1, FS_EmptySet, ClubsAssumption DEF CapInv
<1>. QED BY <1>1, <1>2, AccountsStart DEF PlatformInv

\* Fewer members, or one more who is below the limit.
LEMMA CapHolds ==
  ASSUME CapInv, \A k \in Clubs : Members(k)' \subseteq Members(k)
  PROVE CapInv'
<1>1. SUFFICES ASSUME NEW u \in Users
               PROVE IsFiniteSet(Memberships(u)') /\ Cardinality(Memberships(u)') <= MaxClubs
  BY DEF CapInv
<1>2. Memberships(u)' \subseteq Memberships(u) BY DEF Memberships
<1>3. IsFiniteSet(Memberships(u)) /\ Cardinality(Memberships(u)) <= MaxClubs BY DEF CapInv
<1>4. IsFiniteSet(Memberships(u)') /\ Cardinality(Memberships(u)') <= Cardinality(Memberships(u))
  BY <1>2, <1>3, FS_Subset
<1>5. Cardinality(Memberships(u)') \in Nat /\ Cardinality(Memberships(u)) \in Nat
  BY <1>3, <1>4, FS_CardinalityType
<1>. QED BY <1>3, <1>4, <1>5, ClubsAssumption

LEMMA CapWithOneMore ==
  ASSUME CapInv, NEW k \in Clubs, NEW u \in Users, RoomForOneMore(u),
         \A j \in Clubs \ {k} : Members(j)' \subseteq Members(j),
         Members(k)' \subseteq Members(k) \cup {u}
  PROVE CapInv'
<1>1. SUFFICES ASSUME NEW w \in Users
               PROVE IsFiniteSet(Memberships(w)') /\ Cardinality(Memberships(w)') <= MaxClubs
  BY DEF CapInv
<1>2. IsFiniteSet(Memberships(w)) /\ Cardinality(Memberships(w)) <= MaxClubs BY DEF CapInv
<1>3. Cardinality(Memberships(w)) \in Nat BY <1>2, FS_CardinalityType
<1>4. CASE w # u
  <2>1. Memberships(w)' \subseteq Memberships(w) BY <1>4 DEF Memberships
  <2>2. IsFiniteSet(Memberships(w)') /\ Cardinality(Memberships(w)') <= Cardinality(Memberships(w))
    BY <1>2, <2>1, FS_Subset
  <2>3. Cardinality(Memberships(w)') \in Nat BY <2>2, FS_CardinalityType
  <2>. QED BY <1>2, <1>3, <2>2, <2>3, ClubsAssumption
<1>5. CASE w = u
  <2>. DEFINE S == Memberships(u) \cup {k}
  <2>1. Cardinality(Memberships(u)) < MaxClubs
    BY DEF RoomForOneMore, UserMembershipCount, Memberships
  <2>2. IsFiniteSet(S) /\ Cardinality(S) <= Cardinality(Memberships(u)) + 1
    <3>1. /\ IsFiniteSet(S)
          /\ Cardinality(S) = Cardinality(Memberships(u)) \/ Cardinality(S) = Cardinality(Memberships(u)) + 1
      BY <1>2, <1>5, FS_AddElement
    <3>. QED BY <1>3, <1>5, <3>1
  <2>3. Memberships(u)' \subseteq S BY DEF Memberships
  <2>. HIDE DEF S
  <2>4. IsFiniteSet(Memberships(u)') /\ Cardinality(Memberships(u)') <= Cardinality(S)
    BY <2>2, <2>3, FS_Subset
  <2>5. Cardinality(Memberships(u)') \in Nat /\ Cardinality(S) \in Nat
    BY <2>2, <2>4, FS_CardinalityType
  <2>. QED BY <1>3, <1>5, <2>1, <2>2, <2>4, <2>5, ClubsAssumption
<1>. QED BY <1>4, <1>5

LEMMA ClubsUntouched ==
  ASSUME ClubsInv, CapInv, UNCHANGED clubVars
  PROVE ClubsInv' /\ CapInv'
<1>1. club' = club /\ primary' = primary BY DEF clubVars
<1>2. \A k \in Clubs : Members(k)' = Members(k) BY <1>1 DEF Members
<1>. QED BY <1>1, <1>2, CapHolds DEF ClubsInv, Exists

\* One club is written, and nobody gets another primary club.
LEMMA ClubIsWritten ==
  ASSUME ClubsInv, NEW k \in Clubs, NEW row, RowOK(row), club' = [club EXCEPT ![k] = row],
         Exists(k) => row.st = "live",
         primary' \in [Users -> Clubs \cup {Nobody}],
         \A u \in Users : primary'[u] = primary[u] \/ primary'[u] = Nobody
  PROVE /\ ClubsInv' /\ Members(k)' = ToSet(row.members)
        /\ \A j \in Clubs \ {k} : Members(j)' = Members(j)
<1>1. row \in ClubRow BY DEF RowOK
<1>2. club' \in [Clubs -> ClubRow] /\ \A j \in Clubs : RowOK(club'[j]) BY <1>1 DEF ClubsInv
<1>3. \A j \in Clubs : Exists(j) => Exists(j)' BY DEF ClubsInv, Exists
<1>4. \A u \in Users : primary'[u] # Nobody => club'[primary'[u]].st = "live"
  BY <1>3 DEF ClubsInv, Exists
<1>. QED BY <1>2, <1>4 DEF ClubsInv, Exists, Members

LEMMA NotPrimaryIs ==
  ASSUME ClubsInv, NEW k, NEW u \in Users, NotPrimary(k, u)
  PROVE /\ primary' \in [Users -> Clubs \cup {Nobody}]
        /\ \A w \in Users : primary'[w] = primary[w] \/ primary'[w] = Nobody
        /\ primary'[u] # k \/ k = Nobody
BY DEF ClubsInv, NotPrimary

LEMMA ClubIsDeleted ==
  ASSUME ClubsInv, CapInv, NEW k \in Clubs, Delete(k)
  PROVE ClubsInv' /\ CapInv'
<1>1. Gone \in ClubRow BY RowsOfNoClub DEF RowOK
<1>2. club' \in [Clubs -> ClubRow] /\ \A j \in Clubs : RowOK(club'[j])
  BY <1>1, RowsOfNoClub DEF ClubsInv, Delete
<1>3. primary' \in [Users -> Clubs \cup {Nobody}] BY DEF ClubsInv, Delete
<1>4. \A u \in Users : primary'[u] # Nobody => primary'[u] = primary[u] /\ primary[u] # k
  BY DEF Delete
<1>5. \A j \in Clubs \ {k} : club'[j] = club[j] BY DEF Delete, ClubsInv
<1>6. \A u \in Users : primary'[u] # Nobody => club'[primary'[u]].st = "live"
  BY <1>3, <1>4, <1>5 DEF ClubsInv, Exists
<1>7. ClubsInv' BY <1>2, <1>3, <1>6 DEF ClubsInv, Exists
<1>8. \A j \in Clubs : Members(j)' \subseteq Members(j)
  <2>1. Members(k)' = {} BY NobodyInTheList DEF Delete, ClubsInv, Members, Gone, NoClub
  <2>. QED BY <1>5, <2>1 DEF Members
<1>. QED BY <1>7, <1>8, CapHolds
-----------------------------------------------------------------------------
(* The steps of clubs.                                                     *)

LEMMA SuccessorIs ==
  ASSUME ClubsInv, NEW k \in Clubs, NEW u
  PROVE Successor(k, u) = Nobody \/ Successor(k, u) \in Members(k) \ {u}
<1>. DEFINE others == Others(club[k].members, u)
<1>1. others \in Seq(Users) /\ ToSet(others) = Members(k) \ {u}
  BY MembersAreUsers, OthersAre DEF RowOK, Members
<1>2. Successor(k, u) = IF others = <<>> THEN Nobody ELSE Head(others) BY DEF Successor
<1>. HIDE DEF others
<1>3. ASSUME others # <<>> PROVE Head(others) \in ToSet(others)
  <2>1. 1 \in DOMAIN others /\ Head(others) = others[1] BY <1>1, <1>3
  <2>. QED BY <2>1 DEF ToSet
<1>. QED BY <1>1, <1>2, <1>3

\* A request about a club is sent.
LEMMA AsksStep ==
  ASSUME PlatformInv, NEW c \in Calls, NEW op \in ForClub, NEW u \in Users, NEW gate,
         NEW on \in Users \cup {Nobody}, NEW k \in Clubs, Asks(c, op, u, gate, on, k),
         op \in {"reject", "approve", "kick", "transfer"} => on \in Users
  PROVE PlatformInv'
<1>1. CallOK(user, [op |-> op, by |-> u, on |-> on, at |-> k, seen |-> {}])
  BY DEF CallOK, Call, Ops, ForClub
<1>2. AccountsInv' BY <1>1, SentStep DEF PlatformInv, Asks
<1>. QED BY <1>2, ClubsUntouched DEF PlatformInv, Asks

LEMMA SubmitReadsStep ==
  ASSUME PlatformInv, NEW c \in Calls, NEW u \in Users, NEW k \in Clubs, SubmitReads(c, u, k)
  PROVE PlatformInv'
BY AsksStep DEF SubmitReads, ForClub

LEMMA DisbandReadsStep ==
  ASSUME PlatformInv, NEW c \in Calls, NEW u \in Users, NEW k \in Clubs, DisbandReads(c, u, k)
  PROVE PlatformInv'
BY AsksStep DEF DisbandReads, HeadAsks, ForClub

LEMMA SetPrimaryReadsStep ==
  ASSUME PlatformInv, NEW c \in Calls, NEW u \in Users, NEW k \in Clubs, SetPrimaryReads(c, u, k)
  PROVE PlatformInv'
BY AsksStep DEF SetPrimaryReads, ForClub

LEMMA LeaveReadsStep ==
  ASSUME PlatformInv, NEW c \in Calls, NEW u \in Users, NEW k \in Clubs, LeaveReads(c, u, k)
  PROVE PlatformInv'
<1>. DEFINE heir == Successor(k, u)
<1>1. heir \in Users \cup {Nobody} BY SuccessorIs, MembersAreUsers DEF PlatformInv
<1>2. "leave" \in ForClub /\ "disband" \in ForClub BY DEF ForClub
<1>3. \/ Asks(c, "leave", u, {}, Nobody, k) \/ Asks(c, "disband", u, {}, Nobody, k)
      \/ Asks(c, "leave", u, {}, heir, k)
  BY DEF LeaveReads
<1>. HIDE DEF heir
<1>4. ASSUME Asks(c, "leave", u, {}, heir, k) PROVE PlatformInv' BY <1>1, <1>2, <1>4, AsksStep
<1>. QED BY <1>2, <1>3, <1>4, AsksStep

LEMMA HeadAsksStep ==
  ASSUME PlatformInv, NEW c \in Calls, NEW h \in Users, NEW u \in Users, NEW k \in Clubs,
         RejectReads(c, h, u, k) \/ ApproveReads(c, h, u, k) \/ KickReads(c, h, u, k)
           \/ TransferReads(c, h, u, k)
  PROVE PlatformInv'
<1>1. PICK op \in {"reject", "approve", "kick", "transfer"} : Asks(c, op, h, {}, u, k)
  BY DEF RejectReads, ApproveReads, KickReads, TransferReads, HeadAsks
<1>. QED BY <1>1, AsksStep DEF ForClub

LEMMA CreateReadsStep ==
  ASSUME PlatformInv, NEW c \in Calls, NEW u \in Users, CreateReads(c, u)
  PROVE PlatformInv'
<1>1. CallOK(user, [op |-> "found", by |-> u, on |-> Nobody, at |-> Nobody, seen |-> {}])
  BY DEF CallOK, Call, Ops, ForClub
<1>2. AccountsInv' BY <1>1, SentStep DEF PlatformInv, CreateReads
<1>. QED BY <1>2, ClubsUntouched DEF PlatformInv, CreateReads

\* What a request about a club has in hand when it comes to write.
LEMMA InHand ==
  ASSUME PlatformInv, NEW c \in Calls, calls[c].op \in ForClub
  PROVE /\ calls[c].by \in Users /\ calls[c].at \in Clubs /\ calls[c].on \in Users \cup {Nobody}
        /\ calls[c].op \in {"reject", "approve", "kick", "transfer"} => calls[c].on \in Users
BY DEF PlatformInv, AccountsInv, CallsOK, CallOK, Call

LEMMA AnswersStep ==
  ASSUME PlatformInv, NEW c \in Calls, Answers(c), ClubsInv', CapInv'
  PROVE PlatformInv'
BY AnsweredStep DEF PlatformInv, Answers

LEMMA PrimaryStays ==
  ASSUME ClubsInv, primary' = primary
  PROVE /\ primary' \in [Users -> Clubs \cup {Nobody}]
        /\ \A u \in Users : primary'[u] = primary[u] \/ primary'[u] = Nobody
BY DEF ClubsInv

\* Who asks to join changes.
LEMMA AskingChanges ==
  ASSUME ClubsInv, CapInv, NEW k \in Clubs, NEW asking \in SUBSET Users,
         Exists(k) \/ asking = {}, club' = [club EXCEPT ![k].asking = asking], primary' = primary
  PROVE ClubsInv' /\ CapInv'
<1>. DEFINE row == [club[k] EXCEPT !.asking = asking]
<1>1. club' = [club EXCEPT ![k] = row] BY DEF ClubsInv
<1>2. /\ row \in ClubRow /\ row.st = club[k].st /\ row.head = club[k].head
      /\ row.members = club[k].members /\ row.asking = asking
  BY MembersAreUsers DEF ClubRow
<1>. HIDE DEF row
<1>3. RowOK(row) BY <1>2, MembersAreUsers DEF RowOK, Exists
<1>4. /\ ClubsInv' /\ Members(k)' = ToSet(row.members)
      /\ \A j \in Clubs \ {k} : Members(j)' = Members(j)
  BY <1>1, <1>2, <1>3, PrimaryStays, ClubIsWritten DEF Exists
<1>5. Members(k)' = Members(k) BY <1>2, <1>4 DEF Members
<1>. QED BY <1>4, <1>5, CapHolds

LEMMA SubmitCreatesStep ==
  ASSUME PlatformInv, NEW c \in Calls, SubmitCreates(c)
  PROVE PlatformInv'
<1>1. calls[c].by \in Users /\ calls[c].at \in Clubs BY InHand DEF SubmitCreates, ForClub
<1>2. ClubsInv' /\ CapInv'
  <2>1. CASE ClubIsThere(calls[c].at)
    <3>. DEFINE k == calls[c].at
                asking == club[k].asking \cup {calls[c].by}
    <3>1. asking \in SUBSET Users BY <1>1, MembersAreUsers DEF PlatformInv, ClubRow
    <3>2. club' = [club EXCEPT ![k].asking = asking]
      BY <1>1, <2>1 DEF SubmitCreates, PlatformInv, ClubsInv
    <3>. QED BY <1>1, <2>1, <3>1, <3>2, AskingChanges DEF PlatformInv, SubmitCreates, ClubIsThere
  <2>2. CASE ~ClubIsThere(calls[c].at)
    BY <2>2, ClubsUntouched DEF PlatformInv, SubmitCreates, clubVars
  <2>. QED BY <2>1, <2>2
<1>. QED BY <1>2, AnswersStep DEF SubmitCreates

LEMMA RejectCommitsStep ==
  ASSUME PlatformInv, NEW c \in Calls, RejectCommits(c)
  PROVE PlatformInv'
<1>. DEFINE k == calls[c].at
            asking == club[k].asking \ {calls[c].on}
<1>1. k \in Clubs BY InHand DEF RejectCommits, ForClub
<1>2. asking \in SUBSET Users /\ (Exists(k) \/ asking = {})
  BY <1>1, MembersAreUsers DEF PlatformInv, ClubRow
<1>3. club' = [club EXCEPT ![k].asking = asking]
  BY <1>1 DEF RejectCommits, PlatformInv, ClubsInv
<1>4. ClubsInv' /\ CapInv' BY <1>1, <1>2, <1>3, AskingChanges DEF PlatformInv, RejectCommits
<1>. QED BY <1>4, AnswersStep DEF RejectCommits

LEMMA CancelJoinRequestStep ==
  ASSUME PlatformInv, NEW u \in Users, NEW k \in Clubs, CancelJoinRequest(u, k)
  PROVE PlatformInv'
<1>. DEFINE asking == club[k].asking \ {u}
<1>1. asking \in SUBSET Users /\ (Exists(k) \/ asking = {})
  BY MembersAreUsers DEF PlatformInv, ClubRow
<1>2. club' = [club EXCEPT ![k].asking = asking]
  BY DEF CancelJoinRequest, PlatformInv, ClubsInv
<1>3. ClubsInv' /\ CapInv' BY <1>1, <1>2, AskingChanges DEF PlatformInv, CancelJoinRequest
<1>4. RowsOK /\ RowsOK' /\ Grows
  BY NothingWritten DEF PlatformInv, CancelJoinRequest, accountVars
<1>5. AccountsInv'
  BY <1>4, CookiesStay, SocketsStay, CallsStay
     DEF PlatformInv, AccountsInv, CancelJoinRequest, accountVars
<1>. QED BY <1>3, <1>5 DEF PlatformInv

LEMMA ClearPrimaryStep ==
  ASSUME PlatformInv, NEW u \in Users, ClearPrimary(u)
  PROVE PlatformInv'
<1>1. ClubsInv' BY DEF PlatformInv, ClubsInv, ClearPrimary, Exists
<1>2. CapInv' BY CapHolds DEF PlatformInv, ClearPrimary, Members
<1>3. RowsOK /\ RowsOK' /\ Grows BY NothingWritten DEF PlatformInv, ClearPrimary, accountVars
<1>4. AccountsInv'
  BY <1>3, CookiesStay, SocketsStay, CallsStay
     DEF PlatformInv, AccountsInv, ClearPrimary, accountVars
<1>. QED BY <1>1, <1>2, <1>4 DEF PlatformInv

\* The count inside the transaction keeps the limit.
LEMMA ApproveCommitsStep ==
  ASSUME PlatformInv, NEW c \in Calls, ApproveCommits(c)
  PROVE PlatformInv'
<1>1. PICK k \in Clubs, u \in Users : k = calls[c].at /\ u = calls[c].on
  BY InHand DEF ApproveCommits, ForClub
<1>. DEFINE row == [club[k] EXCEPT !.asking = @ \ {u}, !.members = Append(@, u)]
<1>2. ClubsInv' /\ CapInv'
  <2>1. CASE RoomForOneMore(u) /\ u \in club[k].asking /\ u \notin Members(k)
    <3>1. club' = [club EXCEPT ![k] = row]
      BY <1>1, <2>1 DEF ApproveCommits, PlatformInv, ClubsInv
    <3>2. /\ club[k] \in ClubRow /\ RowOK(club[k]) /\ club[k].members \in Seq(Users) /\ Exists(k)
      BY <1>1, <2>1, MembersAreUsers DEF PlatformInv
    <3>3. /\ Append(club[k].members, u) \in Seq(Users)
          /\ IsInjective(Append(club[k].members, u))
          /\ ToSet(Append(club[k].members, u)) = Members(k) \cup {u}
      BY <1>1, <2>1, <3>2, OneMore DEF RowOK, Members
    <3>4. /\ row \in ClubRow /\ row.st = "live"
          /\ row.members = Append(club[k].members, u)
      BY <3>2, <3>3 DEF ClubRow, Exists
    <3>5. primary' = primary BY DEF ApproveCommits
    <3>. HIDE DEF row
    <3>6. RowOK(row) BY <3>3, <3>4 DEF RowOK
    <3>7. /\ ClubsInv' /\ Members(k)' = ToSet(row.members)
          /\ \A j \in Clubs \ {k} : Members(j)' = Members(j)
      BY <1>1, <3>1, <3>4, <3>5, <3>6, PrimaryStays, ClubIsWritten DEF PlatformInv
    <3>8. Members(k)' \subseteq Members(k) \cup {u} BY <3>3, <3>4, <3>7
    <3>. QED BY <1>1, <2>1, <3>7, <3>8, CapWithOneMore DEF PlatformInv
  <2>2. CASE ~(RoomForOneMore(u) /\ u \in club[k].asking /\ u \notin Members(k))
    BY <1>1, <2>2, ClubsUntouched DEF PlatformInv, ApproveCommits, clubVars
  <2>. QED BY <2>1, <2>2
<1>. QED BY <1>2, AnswersStep DEF ApproveCommits

LEMMA CreateCommitsStep ==
  ASSUME PlatformInv, NEW c \in Calls, CreateCommits(c)
  PROVE PlatformInv'
<1>. DEFINE u == calls[c].by
<1>1. u \in Users
  BY DEF PlatformInv, AccountsInv, CallsOK, CallOK, CreateCommits
<1>2. ClubsInv' /\ CapInv'
  <2>1. CASE RoomForOneMore(u)
    <3>. DEFINE row == [st |-> "live", head |-> u, members |-> <<u>>, asking |-> {}]
    <3>1. PICK k \in Clubs : club[k].st = "none" /\ club' = [club EXCEPT ![k] = row]
      BY <2>1 DEF CreateCommits
    <3>2. row \in ClubRow /\ RowOK(row) /\ row.st = "live" /\ ToSet(row.members) = {u}
      BY <1>1, JustOne DEF RowOK, ClubRow
    <3>. HIDE DEF row, u
    <3>3. /\ ClubsInv' /\ Members(k)' = ToSet(row.members)
          /\ \A j \in Clubs \ {k} : Members(j)' = Members(j)
      BY <3>1, <3>2, PrimaryStays, ClubIsWritten DEF PlatformInv, CreateCommits
    <3>. QED BY <1>1, <2>1, <3>2, <3>3, CapWithOneMore DEF PlatformInv
  <2>2. CASE ~RoomForOneMore(u)
    BY <2>2, ClubsUntouched DEF PlatformInv, CreateCommits, clubVars
  <2>. QED BY <2>1, <2>2
<1>. QED BY <1>2, AnswersStep DEF CreateCommits

LEMMA DisbandCommitsStep ==
  ASSUME PlatformInv, NEW c \in Calls, DisbandCommits(c)
  PROVE PlatformInv'
<1>1. calls[c].at \in Clubs BY InHand DEF DisbandCommits, ForClub
<1>2. ClubsInv' /\ CapInv'
  BY <1>1, ClubIsDeleted, ClubsUntouched DEF PlatformInv, DisbandCommits
<1>. QED BY <1>2, AnswersStep DEF DisbandCommits

\* A member goes, and somebody may head the club instead.
LEMMA MemberGoes ==
  ASSUME ClubsInv, CapInv, NEW k \in Clubs, NEW u \in Members(k), NEW head \in Users \cup {Nobody},
         club' = [club EXCEPT ![k] = [Without(k, u) EXCEPT !.head = head]], NotPrimary(k, u)
  PROVE ClubsInv' /\ CapInv'
<1>. DEFINE row == [Without(k, u) EXCEPT !.head = head]
<1>1. /\ club[k] \in ClubRow /\ RowOK(club[k]) /\ club[k].members \in Seq(Users)
      /\ u \in Users /\ Exists(k)
  BY MembersAreUsers
<1>2. /\ Others(club[k].members, u) \in Seq(Users) /\ IsInjective(Others(club[k].members, u))
      /\ ToSet(Others(club[k].members, u)) = Members(k) \ {u}
  BY <1>1, OthersAre DEF RowOK, Members
<1>3. row \in ClubRow /\ row.st = "live" /\ row.members = Others(club[k].members, u)
  BY <1>1, <1>2 DEF Without, ClubRow, Exists
<1>. HIDE DEF row
<1>4. RowOK(row) BY <1>2, <1>3 DEF RowOK
<1>5. /\ ClubsInv' /\ Members(k)' = ToSet(row.members)
      /\ \A j \in Clubs \ {k} : Members(j)' = Members(j)
  BY <1>1, <1>3, <1>4, NotPrimaryIs, ClubIsWritten DEF row
<1>. QED BY <1>2, <1>3, <1>5, CapHolds

LEMMA KickCommitsStep ==
  ASSUME PlatformInv, NEW c \in Calls, KickCommits(c)
  PROVE PlatformInv'
<1>. DEFINE k == calls[c].at
            u == calls[c].on
<1>1. k \in Clubs /\ u \in Users BY InHand DEF KickCommits, ForClub
<1>2. ClubsInv' /\ CapInv'
  <2>1. CASE u \in Members(k)
    <3>1. Without(k, u) = [Without(k, u) EXCEPT !.head = club[k].head]
      BY <1>1, MembersAreUsers DEF Without, ClubRow, PlatformInv
    <3>2. club[k].head \in Users \cup {Nobody} BY <1>1, MembersAreUsers DEF PlatformInv
    <3>3. club' = [club EXCEPT ![k] = [Without(k, u) EXCEPT !.head = club[k].head]]
      BY <2>1, <3>1 DEF KickCommits
    <3>. QED BY <1>1, <2>1, <3>2, <3>3, MemberGoes DEF PlatformInv, KickCommits
  <2>2. CASE u \notin Members(k) BY <2>2, ClubsUntouched DEF PlatformInv, KickCommits
  <2>. QED BY <2>1, <2>2
<1>. QED BY <1>2, AnswersStep DEF KickCommits

LEMMA LeaveCommitsStep ==
  ASSUME PlatformInv, NEW c \in Calls, LeaveCommits(c)
  PROVE PlatformInv'
<1>. DEFINE k == calls[c].at
            u == calls[c].by
            head == IF calls[c].on = Nobody THEN club[k].head ELSE calls[c].on
<1>1. k \in Clubs /\ u \in Users /\ calls[c].on \in Users \cup {Nobody}
  BY InHand DEF LeaveCommits, ForClub
<1>2. ClubsInv' /\ CapInv'
  <2>1. CASE u \in Members(k)
    <3>1. head \in Users \cup {Nobody} BY <1>1, MembersAreUsers DEF PlatformInv
    <3>2. Without(k, u).head = club[k].head
      BY <1>1, MembersAreUsers DEF Without, ClubRow, PlatformInv
    <3>3. club' = [club EXCEPT ![k] = [Without(k, u) EXCEPT !.head = head]] /\ NotPrimary(k, u)
      BY <2>1, <3>2 DEF LeaveCommits
    <3>. QED BY <1>1, <2>1, <3>1, <3>3, MemberGoes DEF PlatformInv
  <2>2. CASE u \notin Members(k) BY <2>2, ClubsUntouched DEF PlatformInv, LeaveCommits
  <2>. QED BY <2>1, <2>2
<1>. QED BY <1>2, AnswersStep DEF LeaveCommits

\* A club that is there gets another head.
LEMMA HeadChanges ==
  ASSUME ClubsInv, CapInv, NEW k \in Clubs, NEW head \in Users \cup {Nobody}, Exists(k),
         club' = [club EXCEPT ![k].head = head], primary' = primary
  PROVE ClubsInv' /\ CapInv'
<1>. DEFINE row == [club[k] EXCEPT !.head = head]
<1>1. club' = [club EXCEPT ![k] = row] BY DEF ClubsInv
<1>2. row \in ClubRow /\ row.st = "live" /\ row.members = club[k].members
  BY MembersAreUsers DEF ClubRow, Exists
<1>. HIDE DEF row
<1>3. RowOK(row) BY <1>2, MembersAreUsers DEF RowOK
<1>4. /\ ClubsInv' /\ Members(k)' = ToSet(row.members)
      /\ \A j \in Clubs \ {k} : Members(j)' = Members(j)
  BY <1>1, <1>2, <1>3, PrimaryStays, ClubIsWritten
<1>5. Members(k)' = Members(k) BY <1>2, <1>4 DEF Members
<1>. QED BY <1>4, <1>5, CapHolds

LEMMA TransferCommitsStep ==
  ASSUME PlatformInv, NEW c \in Calls, TransferCommits(c)
  PROVE PlatformInv'
<1>1. calls[c].at \in Clubs /\ calls[c].on \in Users BY InHand DEF TransferCommits, ForClub
<1>2. CASE ClubIsThere(calls[c].at)
  <2>1. club' = [club EXCEPT ![calls[c].at].head = calls[c].on] BY <1>2 DEF TransferCommits
  <2>2. ClubsInv' /\ CapInv'
    BY <1>1, <1>2, <2>1, HeadChanges DEF PlatformInv, TransferCommits, ClubIsThere
  <2>. QED BY <2>2, AnswersStep DEF TransferCommits
<1>3. CASE ~ClubIsThere(calls[c].at)
  <2>1. ClubsInv' /\ CapInv' BY <1>3, ClubsUntouched DEF PlatformInv, TransferCommits, clubVars
  <2>. QED BY <2>1, AnswersStep DEF TransferCommits
<1>. QED BY <1>2, <1>3

LEMMA SetPrimaryCommitsStep ==
  ASSUME PlatformInv, NEW c \in Calls, SetPrimaryCommits(c)
  PROVE PlatformInv'
<1>1. calls[c].by \in Users /\ calls[c].at \in Clubs BY InHand DEF SetPrimaryCommits, ForClub
<1>2. ClubsInv' BY <1>1 DEF PlatformInv, ClubsInv, SetPrimaryCommits, ClubIsThere, Exists
<1>3. CapInv' BY CapHolds DEF PlatformInv, SetPrimaryCommits, Members
<1>. QED BY <1>2, <1>3, AnswersStep DEF SetPrimaryCommits

LEMMA HandOffReadsStep ==
  ASSUME PlatformInv, NEW c \in Calls, HandOffReads(c)
  PROVE PlatformInv'
<1>. DEFINE u == calls[c].on
            seen == {<<k, Successor(k, u)>> : k \in {k \in Clubs : club[k].head = u}}
            call == [calls[c] EXCEPT !.op = "handing", !.seen = seen]
<1>1. calls[c] \in Call /\ CallOK(user, calls[c]) /\ calls[c].op = "handoff"
  BY DEF PlatformInv, AccountsInv, CallsOK, HandOffReads
<1>2. \A k \in Clubs : Successor(k, u) \in Users \cup {Nobody}
  BY SuccessorIs, MembersAreUsers DEF PlatformInv
<1>3. seen \in SUBSET (Clubs \X (Users \cup {Nobody})) BY <1>2
<1>4. calls' = [calls EXCEPT ![c] = call]
  BY DEF HandOffReads, PlatformInv, AccountsInv, CallsOK
<1>. HIDE DEF seen
<1>5. call \in Call BY <1>1, <1>3 DEF Call, Ops
<1>6. call.op = "handing" /\ call.on = u /\ call.by = calls[c].by /\ call.at = calls[c].at
  BY <1>1 DEF Call
<1>. HIDE DEF call
<1>7. CallOK(user, call) BY <1>1, <1>5, <1>6 DEF CallOK, ForClub
<1>8. AccountsInv' BY <1>4, <1>7, OnwardStep DEF PlatformInv, HandOffReads
<1>. QED BY <1>8, ClubsUntouched DEF PlatformInv, HandOffReads

LEMMA HandOffOneStep ==
  ASSUME PlatformInv, NEW c \in Calls, HandOffOne(c)
  PROVE PlatformInv'
<1>1. calls[c] \in Call /\ CallOK(user, calls[c]) /\ calls[c].op = "handing"
  BY DEF PlatformInv, AccountsInv, CallsOK, HandOffOne
<1>2. PICK pair \in calls[c].seen :
        IF ~ClubIsThere(pair[1]) THEN Ends(c) /\ UNCHANGED clubVars
        ELSE /\ calls' = [calls EXCEPT ![c].seen = @ \ {pair}]
             /\ IF pair[2] = Nobody THEN Delete(pair[1])
                ELSE club' = [club EXCEPT ![pair[1]].head = pair[2]] /\ UNCHANGED primary
  BY DEF HandOffOne
<1>3. pair[1] \in Clubs /\ pair[2] \in Users \cup {Nobody} BY <1>1 DEF Call
<1>4. CASE ~ClubIsThere(pair[1])
  <2>1. AccountsInv' BY <1>2, <1>4, AnsweredStep DEF PlatformInv, HandOffOne
  <2>. QED BY <1>2, <1>4, <2>1, ClubsUntouched DEF PlatformInv
<1>5. CASE ClubIsThere(pair[1])
  <2>. DEFINE call == [calls[c] EXCEPT !.seen = @ \ {pair}]
  <2>1. calls' = [calls EXCEPT ![c] = call]
    BY <1>2, <1>5 DEF PlatformInv, AccountsInv, CallsOK
  <2>2. /\ call \in Call /\ call.op = "handing" /\ call.on = calls[c].on
        /\ call.by = calls[c].by /\ call.at = calls[c].at
    BY <1>1 DEF Call
  <2>. HIDE DEF call
  <2>3. CallOK(user, call) BY <1>1, <2>2 DEF CallOK, ForClub
  <2>4. AccountsInv' BY <2>1, <2>3, OnwardStep DEF PlatformInv, HandOffOne
  <2>5. ClubsInv' /\ CapInv'
    BY <1>2, <1>3, <1>5, ClubIsDeleted, HeadChanges DEF PlatformInv, ClubIsThere
  <2>. QED BY <2>4, <2>5 DEF PlatformInv
<1>. QED BY <1>4, <1>5

LEMMA HandOffDoneStep ==
  ASSUME PlatformInv, NEW c \in Calls, HandOffDone(c)
  PROVE PlatformInv'
<1>. DEFINE call == [calls[c] EXCEPT !.op = "anonymise"]
<1>1. calls[c] \in Call /\ CallOK(user, calls[c]) /\ calls[c].op = "handing" /\ calls[c].seen = {}
  BY DEF PlatformInv, AccountsInv, CallsOK, HandOffDone
<1>2. calls' = [calls EXCEPT ![c] = call]
  BY DEF HandOffDone, Goes, PlatformInv, AccountsInv, CallsOK
<1>3. CallOK(user, call) BY <1>1 DEF CallOK, Call, Ops, ForClub
<1>4. AccountsInv' BY <1>2, <1>3, OnwardStep DEF PlatformInv, HandOffDone
<1>. QED BY <1>4, ClubsUntouched DEF PlatformInv, HandOffDone

LEMMA PlatformStep == PlatformInv /\ [Next /\ Observed]_vars => PlatformInv'
<1>. SUFFICES ASSUME PlatformInv, [Next /\ Observed]_vars PROVE PlatformInv' OBVIOUS
<1>1. CASE UNCHANGED vars
  <2>1. RowsOK /\ RowsOK' /\ Grows
    BY <1>1, NothingWritten DEF PlatformInv, vars, accountVars
  <2>2. AccountsInv'
    BY <1>1, <2>1, CookiesStay, SocketsStay, CallsStay
       DEF PlatformInv, AccountsInv, vars, accountVars
  <2>. QED BY <1>1, <2>2, ClubsUntouched DEF PlatformInv, vars, clubVars
<1>2. CASE AccountsNext /\ UNCHANGED clubVars
  BY <1>2, AccountsStep, ClubsUntouched DEF PlatformInv
<1>3. CASE ClubsNext
  <2>1. ASSUME NEW c \in Calls, NEW u \in Users, NEW k \in Clubs,
               \/ SubmitReads(c, u, k) \/ DisbandReads(c, u, k)
               \/ LeaveReads(c, u, k) \/ SetPrimaryReads(c, u, k)
        PROVE PlatformInv'
    BY <2>1, SubmitReadsStep, DisbandReadsStep, LeaveReadsStep, SetPrimaryReadsStep
  <2>2. ASSUME NEW c \in Calls, NEW h \in Users, NEW u \in Users, NEW k \in Clubs,
               \/ RejectReads(c, h, u, k) \/ ApproveReads(c, h, u, k)
               \/ KickReads(c, h, u, k) \/ TransferReads(c, h, u, k)
        PROVE PlatformInv'
    BY <2>2, HeadAsksStep
  <2>3. ASSUME NEW c \in Calls, NEW u \in Users, CreateReads(c, u) PROVE PlatformInv'
    BY <2>3, CreateReadsStep
  <2>4. ASSUME NEW u \in Users, NEW k \in Clubs, CancelJoinRequest(u, k) PROVE PlatformInv'
    BY <2>4, CancelJoinRequestStep
  <2>5. ASSUME NEW u \in Users, ClearPrimary(u) PROVE PlatformInv' BY <2>5, ClearPrimaryStep
  <2>6. ASSUME NEW c \in Calls,
               \/ SubmitCreates(c) \/ RejectCommits(c) \/ ApproveCommits(c) \/ CreateCommits(c)
               \/ DisbandCommits(c) \/ KickCommits(c) \/ LeaveCommits(c) \/ TransferCommits(c)
               \/ SetPrimaryCommits(c) \/ HandOffReads(c) \/ HandOffOne(c) \/ HandOffDone(c)
        PROVE PlatformInv'
    BY <2>6, SubmitCreatesStep, RejectCommitsStep, ApproveCommitsStep, CreateCommitsStep,
       DisbandCommitsStep, KickCommitsStep, LeaveCommitsStep, TransferCommitsStep,
       SetPrimaryCommitsStep, HandOffReadsStep, HandOffOneStep, HandOffDoneStep
  <2>. QED BY <1>3, <2>1, <2>2, <2>3, <2>4, <2>5, <2>6 DEF ClubsNext
<1>. QED BY <1>1, <1>2, <1>3 DEF Next
-----------------------------------------------------------------------------
(* The theorems on rows, sockets and the limit of memberships.             *)

LEMMA PlatformAlways == Spec => []PlatformInv
<1>. QED BY PlatformStart, PlatformStep, PTL DEF Spec

LEMMA RowsFollow == PlatformInv => PlatformTypeOK
<1>. SUFFICES ASSUME PlatformInv PROVE PlatformTypeOK OBVIOUS
<1>1. ASSUME NEW S \in SUBSET Users, \A u, w \in S : u = w PROVE Cardinality(S) <= 1
  <2>1. CASE S = {} BY <2>1, FS_EmptySet
  <2>2. CASE S # {}
    <3>1. PICK u \in S : TRUE BY <2>2
    <3>2. S = {u} BY <1>1, <3>1
    <3>. QED BY <3>2, FS_Singleton
  <2>. QED BY <2>1, <2>2
<1>2. ASSUME NEW p \in People
      PROVE Cardinality(Owners(p)) <= 1 /\ Cardinality(GoogleOwners(p)) <= 1
  <2>1. /\ Owners(p) \in SUBSET Users /\ GoogleOwners(p) \in SUBSET Users
        /\ \A u, w \in Owners(p) : u = w
        /\ \A u, w \in GoogleOwners(p) : u = w
    BY DEF PlatformInv, AccountsInv, RowsOK, Owners, GoogleOwners
  <2>. QED BY <1>1, <2>1
<1>3. AccountsTypeOK
  <2>1. \A d \in Devices : socket[d].st # "down" => socket[d].token.u \in Users
    BY DEF PlatformInv, AccountsInv, SocketsOK, SocketOK
  <2>. QED BY <1>2, <2>1
       DEF AccountsTypeOK, PlatformInv, AccountsInv, RowsOK, CookiesOK, SocketsOK
<1>4. ClubsTypeOK
  <2>1. ASSUME NEW k \in Clubs
        PROVE /\ club[k].head \in Users \cup {Nobody} /\ Members(k) \subseteq Users
              /\ IsInjective(club[k].members)
              /\ ~Exists(k) => club[k] = [NoClub EXCEPT !.st = club[k].st]
    <3>1. /\ club[k] \in ClubRow /\ RowOK(club[k]) /\ club[k].head \in Users \cup {Nobody}
          /\ Members(k) \subseteq Users
      BY MembersAreUsers DEF PlatformInv
    <3>2. ~Exists(k) => club[k] = [NoClub EXCEPT !.st = club[k].st]
      <4>. DEFINE row == [NoClub EXCEPT !.st = club[k].st]
      <4>1. NoClub \in ClubRow BY RowsOfNoClub DEF RowOK
      <4>2. NoClub.head = Nobody /\ NoClub.members = <<>> /\ NoClub.asking = {} BY DEF NoClub
      <4>3. /\ row \in ClubRow /\ row.st = club[k].st
            /\ row.head = NoClub.head /\ row.members = NoClub.members /\ row.asking = NoClub.asking
        BY <3>1, <4>1 DEF ClubRow
      <4>. HIDE DEF row
      <4>4. \A r \in ClubRow :
              r = [st |-> r.st, head |-> r.head, members |-> r.members, asking |-> r.asking]
        BY DEF ClubRow
      <4>5. ~Exists(k) => /\ row.st = club[k].st /\ row.head = club[k].head
                          /\ row.members = club[k].members /\ row.asking = club[k].asking
        BY <3>1, <4>2, <4>3 DEF RowOK, Exists
      <4>6. ~Exists(k) => row = club[k] BY <3>1, <4>3, <4>4, <4>5
      <4>. QED BY <4>6 DEF row
    <3>. QED BY <3>1, <3>2 DEF RowOK
  <2>. QED BY <2>1 DEF ClubsTypeOK, PlatformInv, ClubsInv
<1>. QED BY <1>3, <1>4 DEF PlatformTypeOK

\* Rows of accounts and of clubs keep their types, their unique indexes and their foreign
\* keys through every interleaving of requests (schema.prisma).
THEOREM PlatformTypes == Spec => []PlatformTypeOK
<1>. QED BY PlatformAlways, RowsFollow, PTL

\* A socket's copy of the restrictions is the row's, or its token is stale, whatever
\* handshake was under way when they changed (socketHasRestriction, setUserRestrictions).
THEOREM BansAreCurrentOrTheTokenIsStale == Spec => []CopiedBansAreCurrent
<1>1. PlatformInv => CopiedBansAreCurrent
  BY DEF PlatformInv, AccountsInv, SocketsOK, SocketOK, CopiedBansAreCurrent, Accepted
<1>. QED BY <1>1, PlatformAlways, PTL

\* However many heads accept somebody at once, and whatever he founds meanwhile, he is in
\* no more clubs than allowed (approveJoinRequest, createClub).
THEOREM MembershipsAreCapped == Spec => []MembershipCap
<1>1. PlatformInv => MembershipCap
  BY DEF PlatformInv, CapInv, MembershipCap, UserMembershipCount, Memberships
<1>. QED BY <1>1, PlatformAlways, PTL
-----------------------------------------------------------------------------
(* A club in order.                                                        *)

\* What a request in flight has read of a club, and still is so.
Holds(row, call, k) ==
  /\ call.op \in ForClub /\ call.at = k =>
       /\ row.st # "none"
       /\ call.op = "submit" => call.by \notin ToSet(row.members)
       /\ call.op = "kick" => call.on # row.head
       /\ call.op = "leave" => IF call.on = Nobody THEN call.by # row.head
                               ELSE call.on \in ToSet(row.members) \ {call.by}
       /\ call.op = "transfer" => call.on \in ToSet(row.members)
       /\ call.op = "primary" => call.by \in ToSet(row.members)
  /\ \A pair \in call.seen : pair[1] = k =>
       /\ row.st # "none"
       /\ row.st = "live" => pair[2] \in ToSet(row.members) \cup {Nobody}

\* As long as no two requests about a club overlapped, it is in order, and so is what
\* each request has read of it; two requests about one club are noticed.
OrderInv ==
  /\ \A c, d \in Calls, k \in Clubs :
       c # d /\ k \in About(calls[c]) /\ k \in About(calls[d]) => k \in overlapped
  /\ \A k \in Clubs \ overlapped :
       InOrder(k) /\ \A c \in Calls : Holds(club[k], calls[c], k)

Quiet(call) == call.op \notin ForClub /\ call.seen = {}

LEMMA QuietHolds ==
  ASSUME NEW call, Quiet(call), NEW row, NEW k
  PROVE Holds(row, call, k)
BY DEF Quiet, Holds

LEMMA AnsweredIsQuiet == Quiet(Answered) /\ Quiet(Idle)
BY DEF Quiet, Answered, Idle, ForClub

LEMMA OrderStart == Init => OrderInv
<1>. SUFFICES ASSUME Init PROVE OrderInv OBVIOUS
<1>1. \A c \in Calls : calls[c] = Idle BY DEF Init
<1>2. \A k \in Clubs : k \notin About(Idle) BY ClubsAssumption DEF About, Idle
<1>3. \A k \in Clubs : InOrder(k) BY DEF Init, InOrder, Exists, NoClub
<1>. QED BY <1>1, <1>2, <1>3, AnsweredIsQuiet, QuietHolds DEF OrderInv

\* A request about a club that is not marked is the only one about it.
LEMMA OnlyOne ==
  ASSUME OrderInv, NEW c \in Calls, NEW d \in Calls, c # d, NEW k \in Clubs \ overlapped,
         k \in About(calls[c])
  PROVE k \notin About(calls[d])
BY DEF OrderInv

LEMMA NotAboutHolds ==
  ASSUME NEW call, NEW k \in Clubs, k \notin About(call), NEW row
  PROVE Holds(row, call, k)
<1>1. call.at # k /\ \A pair \in call.seen : pair[1] # k BY DEF About
<1>. QED BY <1>1 DEF Holds

\* The step marks what overlaps after it; the rest is to be shown club by club.
LEMMA OrderHolds ==
  ASSUME OrderInv, Observed,
         \A k \in Clubs \ overlapped : InOrder(k)' /\ \A c \in Calls : Holds(club'[k], calls'[c], k)
  PROVE OrderInv'
<1>1. overlapped \subseteq overlapped' BY DEF Observed
<1>2. \A c, d \in Calls, k \in Clubs :
        c # d /\ k \in About(calls'[c]) /\ k \in About(calls'[d]) => k \in overlapped'
  BY DEF Observed
<1>3. \A k \in Clubs \ overlapped' :
        InOrder(k)' /\ \A c \in Calls : Holds(club'[k], calls'[c], k)
  BY <1>1
<1>. QED BY <1>2, <1>3 DEF OrderInv

\* The clubs and the primary clubs stay; a request is new, or as it was.
LEMMA OrderWhenClubsStay ==
  ASSUME OrderInv, Observed, UNCHANGED clubVars,
         \A c \in Calls : \/ calls'[c] = calls[c]
                          \/ \A k \in Clubs \ overlapped : Holds(club[k], calls'[c], k)
  PROVE OrderInv'
<1>1. club' = club /\ primary' = primary BY DEF clubVars
<1>2. ASSUME NEW k \in Clubs \ overlapped
      PROVE InOrder(k)' /\ \A c \in Calls : Holds(club'[k], calls'[c], k)
  BY <1>1 DEF OrderInv, InOrder, Exists, Members
<1>. QED BY <1>2, OrderHolds

\* One request writes one club and is answered, or goes on with less in hand.
LEMMA OrderWhenOneWrites ==
  ASSUME OrderInv, CallsOK, Observed, NEW c \in Calls, NEW k \in Clubs, NEW call,
         calls' = [calls EXCEPT ![c] = call],
         \A j \in Clubs \ {k} : club'[j] = club[j],
         \A j \in Clubs \ {k}, u \in Users : primary'[u] = j => primary[u] = j,
         \A j \in Clubs \ {k} : Holds(club[j], calls[c], j) => Holds(club[j], call, j),
         k \notin overlapped => /\ InOrder(k)' /\ Holds(club'[k], call, k)
                                /\ \A d \in Calls \ {c} : Holds(club'[k], calls[d], k)
  PROVE OrderInv'
<1>1. \A d \in Calls : calls'[d] = IF d = c THEN call ELSE calls[d] BY DEF CallsOK
<1>2. ASSUME NEW j \in Clubs \ overlapped
      PROVE InOrder(j)' /\ \A d \in Calls : Holds(club'[j], calls'[d], j)
  <2>1. CASE j = k BY <1>1, <2>1
  <2>2. CASE j # k
    <3>1. InOrder(j) /\ \A d \in Calls : Holds(club[j], calls[d], j) BY DEF OrderInv
    <3>2. club'[j] = club[j] /\ \A u \in Users : primary'[u] = j => primary[u] = j BY <2>2
    <3>3. InOrder(j)' BY <3>1, <3>2 DEF InOrder, Exists, Members
    <3>. QED BY <1>1, <2>2, <3>1, <3>2, <3>3
  <2>. QED BY <2>1, <2>2
<1>. QED BY <1>2, OrderHolds

LEMMA AccountsAreQuiet ==
  ASSUME PlatformInv, AccountsNext, NEW c \in Calls
  PROVE calls'[c] = calls[c] \/ Quiet(calls'[c])
<1>. DEFINE Loud == ForClub \cup {"handing"}
<1>1. calls \in [Calls -> Call] BY DEF PlatformInv, AccountsInv, CallsOK
<1>2. AccountsInv' BY AccountsStep DEF PlatformInv
<1>3. SUFFICES calls'[c] = calls[c] \/ calls'[c].op \notin Loud
  BY <1>2 DEF AccountsInv, CallsOK, CallOK, Quiet
<1>4. ASSUME NEW e \in Calls, NEW op, NEW by, NEW on, NEW at, NEW seen,
             Send(e, op, by, on, at, seen), op \notin Loud
      PROVE calls'[c] = calls[c] \/ calls'[c].op \notin Loud
  BY <1>1, <1>4 DEF Send
<1>5. ASSUME NEW e \in Calls, Ends(e)
      PROVE calls'[c] = calls[c] \/ calls'[c].op \notin Loud
  BY <1>1, <1>5 DEF Ends, Answered, Idle, ForClub
<1>6. ASSUME NEW e \in Calls, NEW op, Goes(e, op), op \notin Loud
      PROVE calls'[c] = calls[c] \/ calls'[c].op \notin Loud
  BY <1>1, <1>6 DEF Goes, Call
<1>7. {"photo", "by_email", "link", "create", "edit", "handoff", "rename", "restrict",
       "disconnect"} \cap Loud = {}
  BY DEF ForClub
<1>. HIDE DEF Loud
<1>8. ASSUME NEW d \in Devices, NEW p \in People, Register(d, p) \/ Login(d, p)
      PROVE calls'[c] = calls[c]
  BY <1>8 DEF Register, Login
<1>9. ASSUME NEW e \in Calls, NEW d \in Devices, NEW p \in People, GoogleLooks(e, d, p)
      PROVE calls'[c] = calls[c] \/ calls'[c].op \notin Loud
  BY <1>4, <1>7, <1>9 DEF GoogleLooks
<1>10. ASSUME NEW e \in Calls, GoogleLooksByEmail(e)
       PROVE calls'[c] = calls[c] \/ calls'[c].op \notin Loud
  <2>1. ASSUME NEW u, calls' = [calls EXCEPT ![e].op = "link", ![e].on = u]
        PROVE calls'[c] = calls[c] \/ calls'[c].op \notin Loud
    BY <1>1, <1>7, <2>1 DEF Call
  <2>. QED BY <1>5, <1>6, <1>7, <1>10, <2>1 DEF GoogleLooksByEmail
<1>11. ASSUME NEW e \in Calls, GoogleRefreshes(e) \/ GoogleLinks(e) \/ GoogleCreates(e)
       PROVE calls'[c] = calls[c] \/ calls'[c].op \notin Loud
  BY <1>5, <1>11 DEF GoogleRefreshes, GoogleLinks, GoogleCreates
<1>12. ASSUME NEW d \in Devices, Logout(d) \/ LogoutEverywhere(d) PROVE calls'[c] = calls[c]
  BY <1>12 DEF Logout, LogoutEverywhere
<1>13. ASSUME NEW e \in Calls, NEW u \in Users, EditReads(e, u)
       PROVE calls'[c] = calls[c] \/ calls'[c].op \notin Loud
  BY <1>4, <1>7, <1>13 DEF EditReads
<1>14. ASSUME NEW e \in Calls, NEW d \in Devices, NEW u \in Users, DeleteReads(e, d, u)
       PROVE calls'[c] = calls[c] \/ calls'[c].op \notin Loud
  BY <1>4, <1>7, <1>14 DEF DeleteReads
<1>15. ASSUME NEW e \in Calls, NEW a \in Users, NEW u \in Users,
              NEW deed \in {"rename", "restrict", "handoff"}, AdminChecks(e, a, u, deed)
       PROVE calls'[c] = calls[c] \/ calls'[c].op \notin Loud
  <2>1. deed \notin Loud BY <1>7, <1>15
  <2>. QED BY <1>4, <1>15, <2>1 DEF AdminChecks
<1>16. ASSUME NEW e \in Calls, EditCommits(e) \/ Anonymise(e) \/ AdminRenames(e)
                               \/ AdminRestricts(e) \/ DisconnectUser(e)
       PROVE calls'[c] = calls[c] \/ calls'[c].op \notin Loud
  <2>1. Ends(e) \/ Goes(e, "disconnect")
    BY <1>16 DEF EditCommits, Anonymise, AdminRenames, AdminRestricts, DisconnectUser
  <2>. QED BY <1>5, <1>6, <1>7, <2>1
<1>17. CASE Restart
  BY <1>17, AnsweredIsQuiet, <1>2 DEF Restart, Quiet, AccountsInv, CallsOK, CallOK, Loud, Answered, Idle
<1>18. CASE SyncAdminRoster BY <1>18 DEF SyncAdminRoster
<1>19. ASSUME NEW d \in Devices,
              HandshakeReads(d) \/ HandshakeConnects(d) \/ SocketCloses(d) \/ JoinGame(d) \/ Recheck(d)
       PROVE calls'[c] = calls[c]
  BY <1>19 DEF HandshakeReads, HandshakeConnects, SocketCloses, JoinGame, Recheck
<1>. QED BY <1>8, <1>9, <1>10, <1>11, <1>12, <1>13, <1>14, <1>15, <1>16, <1>17, <1>18, <1>19
         DEF AccountsNext

LEMMA AskedOrder ==
  ASSUME PlatformInv, OrderInv, Observed, NEW c \in Calls, NEW op, NEW u, NEW gate, NEW on,
         NEW k \in Clubs, Asks(c, op, u, gate, on, k),
         k \notin overlapped =>
           Holds(club[k], [op |-> op, by |-> u, on |-> on, at |-> k, seen |-> {}], k)
  PROVE OrderInv'
<1>. DEFINE call == [op |-> op, by |-> u, on |-> on, at |-> k, seen |-> {}]
<1>1. \A j \in Clubs \ overlapped : Holds(club[j], call, j) BY DEF Holds
<1>2. \A d \in Calls : calls'[d] = calls[d] \/ calls'[d] = call
  BY DEF Asks, Send, PlatformInv, AccountsInv, CallsOK
<1>. HIDE DEF call
<1>3. UNCHANGED clubVars BY DEF Asks
<1>. QED BY <1>1, <1>2, <1>3, OrderWhenClubsStay

LEMMA OnceRead ==
  ASSUME OrderInv, PlatformInv, NEW k \in Clubs, Exists(k), k \notin overlapped
  PROVE club[k].st = "live" /\ club[k].head \in Members(k) /\ InOrder(k)
BY DEF OrderInv, InOrder, Exists

LEMMA ReadsOrder ==
  ASSUME PlatformInv, OrderInv, Observed, NEW c \in Calls, NEW u \in Users, NEW k \in Clubs,
         \/ SubmitReads(c, u, k) \/ DisbandReads(c, u, k) \/ SetPrimaryReads(c, u, k)
  PROVE OrderInv'
<1>. USE DEF Holds, Members, ForClub
<1>1. CASE SubmitReads(c, u, k) BY <1>1, OnceRead, AskedOrder DEF SubmitReads, Asks
<1>2. CASE DisbandReads(c, u, k) BY <1>2, OnceRead, AskedOrder DEF DisbandReads, HeadAsks, Asks
<1>3. CASE SetPrimaryReads(c, u, k) BY <1>3, OnceRead, AskedOrder DEF SetPrimaryReads, Asks
<1>. QED BY <1>1, <1>2, <1>3

LEMMA LeaveReadsOrder ==
  ASSUME PlatformInv, OrderInv, Observed, NEW c \in Calls, NEW u \in Users, NEW k \in Clubs,
         LeaveReads(c, u, k)
  PROVE OrderInv'
<1>. USE DEF Holds, Members, ForClub
<1>. DEFINE heir == Successor(k, u)
<1>1. heir = Nobody \/ heir \in Members(k) \ {u} BY SuccessorIs DEF PlatformInv
<1>2. CASE club[k].head # u
  <2>1. Asks(c, "leave", u, {}, Nobody, k) BY <1>2 DEF LeaveReads
  <2>. QED BY <1>2, <2>1, OnceRead, AskedOrder DEF Asks
<1>3. CASE club[k].head = u /\ heir = Nobody
  <2>1. Asks(c, "disband", u, {}, Nobody, k) BY <1>3 DEF LeaveReads
  <2>. QED BY <2>1, OnceRead, AskedOrder DEF Asks
<1>4. CASE club[k].head = u /\ heir # Nobody
  <2>1. Asks(c, "leave", u, {}, heir, k) BY <1>4 DEF LeaveReads
  <2>. HIDE DEF heir
  <2>. QED BY <1>1, <1>4, <2>1, OnceRead, AskedOrder DEF Asks
<1>. QED BY <1>2, <1>3, <1>4

LEMMA HeadReadsOrder ==
  ASSUME PlatformInv, OrderInv, Observed, NEW c \in Calls, NEW h \in Users, NEW u \in Users,
         NEW k \in Clubs,
         \/ RejectReads(c, h, u, k) \/ ApproveReads(c, h, u, k)
         \/ KickReads(c, h, u, k) \/ TransferReads(c, h, u, k)
  PROVE OrderInv'
<1>. USE DEF Holds, Members, ForClub, HeadAsks
<1>1. CASE RejectReads(c, h, u, k) BY <1>1, OnceRead, AskedOrder DEF RejectReads, Asks
<1>2. CASE ApproveReads(c, h, u, k) BY <1>2, OnceRead, AskedOrder DEF ApproveReads, Asks
<1>3. CASE KickReads(c, h, u, k) BY <1>3, OnceRead, AskedOrder DEF KickReads, Asks
<1>4. CASE TransferReads(c, h, u, k) BY <1>4, OnceRead, AskedOrder DEF TransferReads, Asks
<1>. QED BY <1>1, <1>2, <1>3, <1>4

LEMMA CreateReadsOrder ==
  ASSUME PlatformInv, OrderInv, Observed, NEW c \in Calls, NEW u \in Users, CreateReads(c, u)
  PROVE OrderInv'
<1>1. \A d \in Calls : calls'[d] = calls[d] \/ Quiet(calls'[d])
  BY DEF CreateReads, Send, PlatformInv, AccountsInv, CallsOK, Quiet, ForClub
<1>2. UNCHANGED clubVars BY DEF CreateReads
<1>. QED BY <1>1, <1>2, QuietHolds, OrderWhenClubsStay

\* An answer, and no club written.
LEMMA AnsweredOrder ==
  ASSUME PlatformInv, OrderInv, Observed, NEW c \in Calls, Ends(c), UNCHANGED clubVars
  PROVE OrderInv'
<1>1. \A d \in Calls : calls'[d] = calls[d] \/ calls'[d] = Answered
  BY DEF Ends, PlatformInv, AccountsInv, CallsOK
<1>. QED BY <1>1, AnsweredIsQuiet, QuietHolds, OrderWhenClubsStay

\* A request writes the club it is about, and is answered.
LEMMA CommitOrder ==
  ASSUME PlatformInv, OrderInv, Observed, NEW c \in Calls, NEW k \in Clubs, calls[c].at = k,
         Ends(c), \A j \in Clubs \ {k} : club'[j] = club[j],
         \A j \in Clubs \ {k}, u \in Users : primary'[u] = j => primary[u] = j,
         k \notin overlapped => InOrder(k)'
  PROVE OrderInv'
<1>1. k \in About(calls[c]) BY DEF About
<1>2. ASSUME k \notin overlapped, NEW d \in Calls \ {c} PROVE Holds(club'[k], calls[d], k)
  <2>1. k \notin About(calls[d]) BY <1>1, <1>2, OnlyOne
  <2>. QED BY <2>1, NotAboutHolds
<1>3. \A j \in Clubs : \A row : Holds(row, Answered, j) BY AnsweredIsQuiet, QuietHolds
<1>4. calls' = [calls EXCEPT ![c] = Answered] BY DEF Ends
<1>. QED BY <1>2, <1>3, <1>4, OrderWhenOneWrites DEF PlatformInv, AccountsInv

\* What the request had read holds when it commits, if it was alone.
LEMMA StillHolds ==
  ASSUME OrderInv, NEW c \in Calls, NEW k \in Clubs, k \notin overlapped
  PROVE InOrder(k) /\ Holds(club[k], calls[c], k)
BY DEF OrderInv

LEMMA AskingOrder ==
  ASSUME PlatformInv, NEW k \in Clubs, InOrder(k), NEW asking,
         club' = [club EXCEPT ![k].asking = asking], primary' = primary,
         asking \cap Members(k) = {}
  PROVE InOrder(k)'
<1>1. /\ club'[k].st = club[k].st /\ club'[k].head = club[k].head
      /\ club'[k].members = club[k].members /\ club'[k].asking = asking
  BY DEF PlatformInv, ClubsInv, ClubRow
<1>. QED BY <1>1 DEF InOrder, Exists, Members

LEMMA AskingCommitsOrder ==
  ASSUME PlatformInv, OrderInv, Observed, NEW c \in Calls, SubmitCreates(c) \/ RejectCommits(c)
  PROVE OrderInv'
<1>1. PICK k \in Clubs, u \in Users, on \in Users \cup {Nobody} :
        k = calls[c].at /\ u = calls[c].by /\ on = calls[c].on
  BY InHand DEF SubmitCreates, RejectCommits, ForClub
<1>2. Ends(c) /\ primary' = primary BY DEF SubmitCreates, RejectCommits, Answers
<1>3. CASE UNCHANGED club BY <1>2, <1>3, AnsweredOrder DEF clubVars
<1>4. ASSUME NEW asking, club' = [club EXCEPT ![k].asking = asking],
             k \notin overlapped => InOrder(k)'
      PROVE OrderInv'
  <2>1. \A j \in Clubs \ {k} : club'[j] = club[j] BY <1>4 DEF PlatformInv, ClubsInv
  <2>. QED BY <1>1, <1>2, <1>4, <2>1, CommitOrder
<1>5. CASE SubmitCreates(c) /\ ClubIsThere(k)
  <2>. DEFINE asking == club[k].asking \cup {u}
  <2>1. club' = [club EXCEPT ![k].asking = asking]
    BY <1>1, <1>5 DEF SubmitCreates, PlatformInv, ClubsInv
  <2>2. ASSUME k \notin overlapped PROVE InOrder(k)'
    <3>1. InOrder(k) /\ Holds(club[k], calls[c], k) BY <2>2, StillHolds
    <3>2. u \notin Members(k) BY <1>1, <1>5, <3>1 DEF Holds, SubmitCreates, ForClub, Members
    <3>3. asking \cap Members(k) = {}
      BY <1>5, <3>1, <3>2 DEF InOrder, ClubIsThere
    <3>. QED BY <1>2, <2>1, <3>1, <3>3, AskingOrder
  <2>. QED BY <1>4, <2>1, <2>2
<1>6. CASE RejectCommits(c)
  <2>. DEFINE asking == club[k].asking \ {on}
  <2>1. club' = [club EXCEPT ![k].asking = asking]
    BY <1>1, <1>6 DEF RejectCommits, PlatformInv, ClubsInv
  <2>2. ASSUME k \notin overlapped PROVE InOrder(k)'
    <3>1. InOrder(k) BY <2>2, StillHolds
    <3>2. asking \cap Members(k) = {}
      BY <3>1, MembersAreUsers DEF InOrder, PlatformInv
    <3>. QED BY <1>2, <2>1, <3>1, <3>2, AskingOrder
  <2>. QED BY <1>4, <2>1, <2>2
<1>7. CASE SubmitCreates(c) /\ ~ClubIsThere(k) BY <1>1, <1>3, <1>7 DEF SubmitCreates
<1>. QED BY <1>5, <1>6, <1>7

LEMMA CancelOrder ==
  ASSUME PlatformInv, OrderInv, Observed, NEW u \in Users, NEW k \in Clubs, CancelJoinRequest(u, k)
  PROVE OrderInv'
<1>. DEFINE asking == club[k].asking \ {u}
<1>1. club' = [club EXCEPT ![k].asking = asking] /\ primary' = primary /\ calls' = calls
  BY DEF CancelJoinRequest, PlatformInv, ClubsInv, accountVars
<1>2. \A j \in Clubs : /\ club'[j].st = club[j].st /\ club'[j].head = club[j].head
                       /\ club'[j].members = club[j].members
                       /\ club'[j].asking \subseteq club[j].asking
  BY <1>1 DEF PlatformInv, ClubsInv, ClubRow
<1>. HIDE DEF asking
<1>3. ASSUME NEW j \in Clubs \ overlapped
      PROVE InOrder(j)' /\ \A c \in Calls : Holds(club'[j], calls'[c], j)
  <2>1. InOrder(j) /\ \A c \in Calls : Holds(club[j], calls[c], j) BY DEF OrderInv
  <2>2. InOrder(j)' BY <1>1, <1>2, <2>1 DEF InOrder, Exists, Members
  <2>3. \A c \in Calls : Holds(club'[j], calls'[c], j) BY <1>1, <1>2, <2>1 DEF Holds
  <2>. QED BY <2>2, <2>3
<1>. QED BY <1>3, OrderHolds

LEMMA ClearPrimaryOrder ==
  ASSUME PlatformInv, OrderInv, Observed, NEW u \in Users, ClearPrimary(u)
  PROVE OrderInv'
<1>1. club' = club /\ calls' = calls BY DEF ClearPrimary, accountVars
<1>2. \A w \in Users : primary'[w] \in {primary[w], Nobody}
  BY DEF ClearPrimary, PlatformInv, ClubsInv
<1>3. ASSUME NEW j \in Clubs \ overlapped
      PROVE InOrder(j)' /\ \A c \in Calls : Holds(club'[j], calls'[c], j)
  <2>1. InOrder(j) /\ \A c \in Calls : Holds(club[j], calls[c], j) BY DEF OrderInv
  <2>2. j # Nobody BY ClubsAssumption
  <2>3. InOrder(j)' BY <1>1, <1>2, <2>1, <2>2 DEF InOrder, Exists, Members
  <2>. QED BY <1>1, <2>1, <2>3
<1>. QED BY <1>3, OrderHolds

LEMMA ApproveOrder ==
  ASSUME PlatformInv, OrderInv, Observed, NEW c \in Calls, ApproveCommits(c)
  PROVE OrderInv'
<1>1. PICK k \in Clubs, u \in Users : k = calls[c].at /\ u = calls[c].on
  BY InHand DEF ApproveCommits, ForClub
<1>2. Ends(c) /\ primary' = primary BY DEF ApproveCommits, Answers
<1>3. CASE UNCHANGED club BY <1>2, <1>3, AnsweredOrder DEF clubVars
<1>4. CASE ~UNCHANGED club
  <2>1. /\ u \in club[k].asking /\ u \notin Members(k)
        /\ club' = [club EXCEPT ![k].asking = @ \ {u}, ![k].members = Append(@, u)]
    BY <1>1, <1>4 DEF ApproveCommits
  <2>2. /\ club[k] \in ClubRow /\ RowOK(club[k]) /\ club[k].members \in Seq(Users)
    BY MembersAreUsers DEF PlatformInv
  <2>3. ToSet(Append(club[k].members, u)) = Members(k) \cup {u}
    BY <2>1, <2>2, OneMore DEF RowOK, Members
  <2>4. /\ club'[k].st = club[k].st /\ club'[k].head = club[k].head
        /\ club'[k].asking = club[k].asking \ {u}
        /\ club'[k].members = Append(club[k].members, u)
        /\ \A j \in Clubs \ {k} : club'[j] = club[j]
    BY <2>1, <2>2 DEF PlatformInv, ClubsInv, ClubRow
  <2>5. ASSUME k \notin overlapped PROVE InOrder(k)'
    <3>1. InOrder(k) BY <2>5, StillHolds
    <3>2. ToSet(club'[k].members) = Members(k) \cup {u} BY <2>3, <2>4
    <3>. QED BY <1>2, <2>4, <3>1, <3>2 DEF InOrder, Exists, Members
  <2>. QED BY <1>1, <1>2, <2>4, <2>5, CommitOrder
<1>. QED BY <1>3, <1>4

LEMMA CreateOrder ==
  ASSUME PlatformInv, OrderInv, Observed, NEW c \in Calls, CreateCommits(c)
  PROVE OrderInv'
<1>1. PICK u \in Users : u = calls[c].by
  BY DEF PlatformInv, AccountsInv, CallsOK, CallOK, CreateCommits
<1>2. Ends(c) /\ primary' = primary BY DEF CreateCommits, Answers
<1>3. CASE UNCHANGED club BY <1>2, <1>3, AnsweredOrder DEF clubVars
<1>4. CASE ~UNCHANGED club
  <2>1. PICK k \in Clubs :
          /\ club[k].st = "none"
          /\ club' = [club EXCEPT ![k] = [st |-> "live", head |-> u, members |-> <<u>>,
                                          asking |-> {}]]
    BY <1>1, <1>4 DEF CreateCommits
  <2>2. \A j \in Clubs \ {k} : club'[j] = club[j] BY <2>1 DEF PlatformInv, ClubsInv
  <2>3. /\ club'[k].st = "live" /\ club'[k].head = u /\ ToSet(club'[k].members) = {u}
        /\ club'[k].asking = {}
    BY <2>1, JustOne DEF PlatformInv, ClubsInv
  <2>4. \A w \in Users : primary[w] # k
    BY <2>1, ClubsAssumption DEF PlatformInv, ClubsInv, Exists
  <2>5. InOrder(k)' BY <1>2, <2>3, <2>4 DEF InOrder, Exists, Members
  <2>6. ASSUME k \notin overlapped, NEW d \in Calls PROVE Holds(club'[k], calls[d], k)
    <3>1. Holds(club[k], calls[d], k) BY <2>6 DEF OrderInv
    <3>. QED BY <2>1, <3>1 DEF Holds
  <2>7. calls' = [calls EXCEPT ![c] = Answered] BY <1>2 DEF Ends
  <2>8. \A j \in Clubs : \A row : Holds(row, Answered, j) BY AnsweredIsQuiet, QuietHolds
  <2>. QED BY <1>2, <2>2, <2>5, <2>6, <2>7, <2>8, OrderWhenOneWrites DEF PlatformInv, AccountsInv
<1>. QED BY <1>3, <1>4

LEMMA DeleteOrder ==
  ASSUME PlatformInv, NEW k \in Clubs, Delete(k)
  PROVE /\ \A j \in Clubs \ {k} : club'[j] = club[j]
        /\ \A j \in Clubs \ {k}, u \in Users : primary'[u] = j => primary[u] = j
        /\ InOrder(k)' /\ club'[k] = Gone /\ Gone.st = "gone"
<1>1. \A j \in Clubs \ {k} : club'[j] = club[j] BY DEF Delete, PlatformInv, ClubsInv
<1>2. club'[k] = Gone BY DEF Delete, PlatformInv, ClubsInv
<1>3. Gone.st = "gone" BY DEF Gone, NoClub
<1>4. \A j \in Clubs \ {k}, u \in Users : primary'[u] = j => primary[u] = j
  BY ClubsAssumption DEF Delete
<1>. QED BY <1>1, <1>2, <1>3, <1>4 DEF InOrder, Exists

LEMMA DisbandOrder ==
  ASSUME PlatformInv, OrderInv, Observed, NEW c \in Calls, DisbandCommits(c)
  PROVE OrderInv'
<1>1. PICK k \in Clubs : k = calls[c].at BY InHand DEF DisbandCommits, ForClub
<1>2. Ends(c) BY DEF DisbandCommits, Answers
<1>3. CASE UNCHANGED clubVars BY <1>2, <1>3, AnsweredOrder
<1>4. CASE Delete(k) BY <1>1, <1>2, <1>4, DeleteOrder, CommitOrder
<1>. QED BY <1>1, <1>3, <1>4 DEF DisbandCommits

\* A member who is not the new head goes.
LEMMA MemberGoesOrder ==
  ASSUME PlatformInv, NEW k \in Clubs, NEW u \in Users, NEW head,
         club' = [club EXCEPT ![k] = [Without(k, u) EXCEPT !.head = head]], NotPrimary(k, u)
  PROVE /\ \A j \in Clubs \ {k} : club'[j] = club[j]
        /\ \A j \in Clubs \ {k}, w \in Users : primary'[w] = j => primary[w] = j
        /\ InOrder(k) /\ head \in Members(k) \ {u} => InOrder(k)'
<1>1. club[k] \in ClubRow /\ RowOK(club[k]) /\ club[k].members \in Seq(Users)
  BY MembersAreUsers DEF PlatformInv
<1>2. ToSet(Others(club[k].members, u)) = Members(k) \ {u}
  BY <1>1, OthersAre DEF RowOK, Members
<1>3. /\ club'[k].st = club[k].st /\ club'[k].head = head /\ club'[k].asking = club[k].asking
      /\ club'[k].members = Others(club[k].members, u)
  BY <1>1 DEF Without, ClubRow, PlatformInv, ClubsInv
<1>4. \A j \in Clubs \ {k} : club'[j] = club[j] BY DEF PlatformInv, ClubsInv
<1>5. \A w \in Users : primary'[w] \in {primary[w], Nobody} /\ (w = u => primary'[w] # k)
  BY ClubsAssumption DEF NotPrimary, PlatformInv, ClubsInv
<1>6. \A j \in Clubs \ {k}, w \in Users : primary'[w] = j => primary[w] = j
  BY <1>5, ClubsAssumption
<1>7. ASSUME InOrder(k), head \in Members(k) \ {u} PROVE InOrder(k)'
  <2>1. ToSet(club'[k].members) = Members(k) \ {u} BY <1>2, <1>3
  <2>2. \A w \in Users : primary'[w] = k => w # u /\ primary[w] = k BY <1>5, ClubsAssumption
  <2>. QED BY <1>3, <1>7, <2>1, <2>2 DEF InOrder, Exists, Members
<1>. QED BY <1>4, <1>6, <1>7

LEMMA KickOrder ==
  ASSUME PlatformInv, OrderInv, Observed, NEW c \in Calls, KickCommits(c)
  PROVE OrderInv'
<1>1. PICK k \in Clubs, u \in Users : k = calls[c].at /\ u = calls[c].on
  BY InHand DEF KickCommits, ForClub
<1>2. Ends(c) BY DEF KickCommits, Answers
<1>3. CASE UNCHANGED clubVars BY <1>2, <1>3, AnsweredOrder
<1>4. CASE u \in Members(k) /\ club' = [club EXCEPT ![k] = Without(k, u)] /\ NotPrimary(k, u)
  <2>1. PICK head : head = club[k].head OBVIOUS
  <2>2. Without(k, u) = [Without(k, u) EXCEPT !.head = head]
    BY <2>1, MembersAreUsers DEF Without, ClubRow, PlatformInv
  <2>3. club' = [club EXCEPT ![k] = [Without(k, u) EXCEPT !.head = head]] BY <1>4, <2>2
  <2>4. ASSUME k \notin overlapped PROVE InOrder(k) /\ head \in Members(k) \ {u}
    <3>1. InOrder(k) /\ Holds(club[k], calls[c], k) BY <2>4, StillHolds
    <3>2. Exists(k) BY <1>4, MembersAreUsers DEF PlatformInv
    <3>3. u # head BY <1>1, <2>1, <3>1 DEF Holds, KickCommits, ForClub
    <3>. QED BY <2>1, <3>1, <3>2, <3>3 DEF InOrder
  <2>. QED BY <1>1, <1>2, <1>4, <2>3, <2>4, MemberGoesOrder, CommitOrder
<1>. QED BY <1>1, <1>3, <1>4 DEF KickCommits

LEMMA LeaveOrder ==
  ASSUME PlatformInv, OrderInv, Observed, NEW c \in Calls, LeaveCommits(c)
  PROVE OrderInv'
<1>1. PICK k \in Clubs, u \in Users, heir \in Users \cup {Nobody} :
        k = calls[c].at /\ u = calls[c].by /\ heir = calls[c].on
  BY InHand DEF LeaveCommits, ForClub
<1>2. Ends(c) BY DEF LeaveCommits, Answers
<1>3. CASE UNCHANGED clubVars BY <1>2, <1>3, AnsweredOrder
<1>4. CASE ~UNCHANGED clubVars
  <2>1. PICK head : head = IF heir = Nobody THEN club[k].head ELSE heir OBVIOUS
  <2>2. /\ u \in Members(k) /\ NotPrimary(k, u)
        /\ club' = [club EXCEPT ![k] =
             [Without(k, u) EXCEPT !.head = IF heir = Nobody THEN @ ELSE heir]]
    BY <1>1, <1>4 DEF LeaveCommits
  <2>3. Without(k, u).head = club[k].head
    BY MembersAreUsers DEF Without, ClubRow, PlatformInv
  <2>4. club' = [club EXCEPT ![k] = [Without(k, u) EXCEPT !.head = head]]
    BY <2>1, <2>2, <2>3
  <2>5. ASSUME k \notin overlapped PROVE InOrder(k) /\ head \in Members(k) \ {u}
    <3>1. InOrder(k) /\ Holds(club[k], calls[c], k) BY <2>5, StillHolds
    <3>2. Exists(k) BY <2>2, MembersAreUsers DEF PlatformInv
    <3>3. IF heir = Nobody THEN u # club[k].head ELSE heir \in Members(k) \ {u}
      BY <1>1, <3>1 DEF Holds, LeaveCommits, ForClub, Members
    <3>. QED BY <2>1, <3>1, <3>2, <3>3 DEF InOrder
  <2>. QED BY <1>1, <1>2, <2>2, <2>4, <2>5, MemberGoesOrder, CommitOrder
<1>. QED BY <1>3, <1>4

LEMMA NewHeadOrder ==
  ASSUME PlatformInv, NEW k \in Clubs, NEW head,
         club' = [club EXCEPT ![k].head = head], primary' = primary
  PROVE /\ \A j \in Clubs \ {k} : club'[j] = club[j]
        /\ \A j \in Clubs \ {k}, w \in Users : primary'[w] = j => primary[w] = j
        /\ club'[k].members = club[k].members /\ club'[k].st = club[k].st
        /\ InOrder(k) /\ head \in Members(k) => InOrder(k)'
<1>1. /\ club'[k].st = club[k].st /\ club'[k].head = head /\ club'[k].asking = club[k].asking
      /\ club'[k].members = club[k].members
  BY DEF PlatformInv, ClubsInv, ClubRow
<1>2. \A j \in Clubs \ {k} : club'[j] = club[j] BY DEF PlatformInv, ClubsInv
<1>. QED BY <1>1, <1>2 DEF InOrder, Exists, Members

LEMMA TransferOrder ==
  ASSUME PlatformInv, OrderInv, Observed, NEW c \in Calls, TransferCommits(c)
  PROVE OrderInv'
<1>1. PICK k \in Clubs, u \in Users : k = calls[c].at /\ u = calls[c].on
  BY InHand DEF TransferCommits, ForClub
<1>2. Ends(c) /\ primary' = primary BY DEF TransferCommits, Answers
<1>3. CASE UNCHANGED club BY <1>2, <1>3, AnsweredOrder DEF clubVars
<1>4. CASE club' = [club EXCEPT ![k].head = u]
  <2>1. ASSUME k \notin overlapped PROVE InOrder(k) /\ u \in Members(k)
    <3>1. InOrder(k) /\ Holds(club[k], calls[c], k) BY <2>1, StillHolds
    <3>. QED BY <1>1, <3>1 DEF Holds, TransferCommits, ForClub, Members
  <2>. QED BY <1>1, <1>2, <1>4, <2>1, NewHeadOrder, CommitOrder
<1>. QED BY <1>1, <1>3, <1>4 DEF TransferCommits

LEMMA SetPrimaryOrder ==
  ASSUME PlatformInv, OrderInv, Observed, NEW c \in Calls, SetPrimaryCommits(c)
  PROVE OrderInv'
<1>1. PICK k \in Clubs, u \in Users : k = calls[c].at /\ u = calls[c].by
  BY InHand DEF SetPrimaryCommits, ForClub
<1>2. Ends(c) /\ club' = club BY DEF SetPrimaryCommits, Answers
<1>3. CASE UNCHANGED primary BY <1>2, <1>3, AnsweredOrder DEF clubVars
<1>4. CASE primary' = [primary EXCEPT ![u] = k]
  <2>1. \A w \in Users : primary'[w] = IF w = u THEN k ELSE primary[w]
    BY <1>4 DEF PlatformInv, ClubsInv
  <2>2. ASSUME k \notin overlapped PROVE InOrder(k)'
    <3>1. InOrder(k) /\ Holds(club[k], calls[c], k) BY <2>2, StillHolds
    <3>2. u \in Members(k) BY <1>1, <3>1 DEF Holds, SetPrimaryCommits, ForClub, Members
    <3>. QED BY <1>2, <2>1, <3>1, <3>2 DEF InOrder, Exists, Members
  <2>. QED BY <1>1, <1>2, <2>1, <2>2, CommitOrder
<1>. QED BY <1>1, <1>3, <1>4 DEF SetPrimaryCommits

LEMMA HandOffReadsOrder ==
  ASSUME PlatformInv, OrderInv, Observed, NEW c \in Calls, HandOffReads(c)
  PROVE OrderInv'
<1>1. PICK u \in Users : u = calls[c].on
  BY DEF PlatformInv, AccountsInv, CallsOK, CallOK, HandOffReads
<1>. DEFINE seen == {<<k, Successor(k, u)>> : k \in {k \in Clubs : club[k].head = u}}
            call == [calls[c] EXCEPT !.op = "handing", !.seen = seen]
<1>2. calls[c] \in Call BY DEF PlatformInv, AccountsInv, CallsOK
<1>3. calls' = [calls EXCEPT ![c] = call]
  BY <1>1 DEF HandOffReads, PlatformInv, AccountsInv, CallsOK
<1>4. \A pair \in seen : /\ pair[1] \in Clubs /\ club[pair[1]].head = u
                         /\ pair[2] = Successor(pair[1], u)
  OBVIOUS
<1>5. \A pair \in seen : /\ club[pair[1]].st = "live"
                         /\ pair[2] \in Members(pair[1]) \cup {Nobody}
  <2>1. ASSUME NEW pair \in seen
        PROVE club[pair[1]].st = "live" /\ pair[2] \in Members(pair[1]) \cup {Nobody}
    <3>1. u # Nobody BY AccountsAssumption
    <3>. QED BY <1>4, <3>1, MembersAreUsers, SuccessorIs DEF PlatformInv, Exists
  <2>. QED BY <2>1
<1>. HIDE DEF seen
<1>6. call.op = "handing" /\ call.seen = seen BY <1>2 DEF Call
<1>. HIDE DEF call
<1>7. \A k \in Clubs : Holds(club[k], call, k) BY <1>5, <1>6 DEF Holds, ForClub, Members
<1>8. \A d \in Calls : calls'[d] = calls[d] \/ calls'[d] = call
  BY <1>3 DEF PlatformInv, AccountsInv, CallsOK
<1>9. UNCHANGED clubVars BY DEF HandOffReads
<1>. QED BY <1>7, <1>8, <1>9, OrderWhenClubsStay

LEMMA HandOffOneOrder ==
  ASSUME PlatformInv, OrderInv, Observed, NEW c \in Calls, HandOffOne(c)
  PROVE OrderInv'
<1>1. calls[c] \in Call /\ calls[c].op = "handing"
  BY DEF PlatformInv, AccountsInv, CallsOK, HandOffOne
<1>2. PICK pair \in calls[c].seen :
        IF ~ClubIsThere(pair[1]) THEN Ends(c) /\ UNCHANGED clubVars
        ELSE /\ calls' = [calls EXCEPT ![c].seen = @ \ {pair}]
             /\ IF pair[2] = Nobody THEN Delete(pair[1])
                ELSE club' = [club EXCEPT ![pair[1]].head = pair[2]] /\ UNCHANGED primary
  BY DEF HandOffOne
<1>3. PICK k \in Clubs : k = pair[1] BY <1>1 DEF Call
<1>4. CASE ~ClubIsThere(k) BY <1>2, <1>3, <1>4, AnsweredOrder
<1>5. CASE ClubIsThere(k)
  <2>1. PICK call : call = [calls[c] EXCEPT !.seen = @ \ {pair}] OBVIOUS
  <2>2. calls' = [calls EXCEPT ![c] = call]
    BY <1>2, <1>3, <1>5, <2>1 DEF PlatformInv, AccountsInv, CallsOK
  <2>3. call.op = "handing" /\ call.seen \subseteq calls[c].seen BY <1>1, <2>1 DEF Call
  <2>4. \A j \in Clubs : Holds(club[j], calls[c], j) => Holds(club[j], call, j)
    BY <2>3 DEF Holds, ForClub
  <2>5. k \in About(calls[c]) BY <1>3 DEF About
  <2>6. ASSUME k \notin overlapped, NEW d \in Calls \ {c} PROVE Holds(club'[k], calls[d], k)
    <3>1. k \notin About(calls[d]) BY <2>5, <2>6, OnlyOne
    <3>. QED BY <3>1, NotAboutHolds
  <2>7. CASE pair[2] = Nobody
    <3>1. Delete(k) BY <1>2, <1>3, <1>5, <2>7
    <3>2. Holds(club'[k], call, k) BY <2>3, <3>1, DeleteOrder DEF Holds, ForClub
    <3>. QED BY <2>2, <2>4, <2>6, <3>1, <3>2, DeleteOrder, OrderWhenOneWrites
         DEF PlatformInv, AccountsInv
  <2>8. CASE pair[2] # Nobody
    <3>1. club' = [club EXCEPT ![k].head = pair[2]] /\ primary' = primary
      BY <1>2, <1>3, <1>5, <2>8
    <3>2. ASSUME k \notin overlapped
          PROVE InOrder(k)' /\ Holds(club'[k], call, k)
      <4>1. InOrder(k) /\ Holds(club[k], calls[c], k) BY <3>2, StillHolds
      <4>2. pair[2] \in Members(k)
        BY <1>3, <1>5, <2>8, <4>1 DEF Holds, ClubIsThere, Exists, Members
      <4>3. InOrder(k)' BY <3>1, <4>1, <4>2, NewHeadOrder
      <4>4. club'[k].members = club[k].members /\ club'[k].st = club[k].st
        BY <3>1, NewHeadOrder
      <4>5. Holds(club'[k], call, k) BY <2>3, <2>4, <4>1, <4>4 DEF Holds, ForClub
      <4>. QED BY <4>3, <4>5
    <3>3. /\ \A j \in Clubs \ {k} : club'[j] = club[j]
          /\ \A j \in Clubs \ {k}, w \in Users : primary'[w] = j => primary[w] = j
      BY <3>1, NewHeadOrder
    <3>4. \A j \in Clubs \ {k} : Holds(club[j], calls[c], j) => Holds(club[j], call, j) BY <2>4
    <3>5. CallsOK BY DEF PlatformInv, AccountsInv
    <3>. QED BY <2>2, <2>6, <3>2, <3>3, <3>4, <3>5, OrderWhenOneWrites
  <2>. QED BY <2>7, <2>8
<1>. QED BY <1>4, <1>5

LEMMA HandOffDoneOrder ==
  ASSUME PlatformInv, OrderInv, Observed, NEW c \in Calls, HandOffDone(c)
  PROVE OrderInv'
<1>1. \A d \in Calls : calls'[d] = calls[d] \/ Quiet(calls'[d])
  BY DEF HandOffDone, Goes, PlatformInv, AccountsInv, CallsOK, Call, Quiet, ForClub
<1>2. UNCHANGED clubVars BY DEF HandOffDone
<1>. QED BY <1>1, <1>2, QuietHolds, OrderWhenClubsStay

LEMMA OrderStep == PlatformInv /\ OrderInv /\ [Next /\ Observed]_vars => OrderInv'
<1>. SUFFICES ASSUME PlatformInv, OrderInv, [Next /\ Observed]_vars PROVE OrderInv' OBVIOUS
<1>1. CASE UNCHANGED vars
  BY <1>1 DEF vars, accountVars, clubVars, OrderInv, InOrder, Exists, Members
<1>2. CASE AccountsNext /\ UNCHANGED clubVars /\ Observed
  <2>1. \A c \in Calls : calls'[c] = calls[c] \/ Quiet(calls'[c]) BY <1>2, AccountsAreQuiet
  <2>. QED BY <1>2, <2>1, QuietHolds, OrderWhenClubsStay
<1>3. CASE ClubsNext /\ Observed
  <2>1. ASSUME NEW c \in Calls, NEW u \in Users, NEW k \in Clubs,
               \/ SubmitReads(c, u, k) \/ DisbandReads(c, u, k)
               \/ LeaveReads(c, u, k) \/ SetPrimaryReads(c, u, k)
        PROVE OrderInv'
    BY <1>3, <2>1, ReadsOrder, LeaveReadsOrder
  <2>2. ASSUME NEW c \in Calls, NEW h \in Users, NEW u \in Users, NEW k \in Clubs,
               \/ RejectReads(c, h, u, k) \/ ApproveReads(c, h, u, k)
               \/ KickReads(c, h, u, k) \/ TransferReads(c, h, u, k)
        PROVE OrderInv'
    BY <1>3, <2>2, HeadReadsOrder
  <2>3. ASSUME NEW c \in Calls, NEW u \in Users, CreateReads(c, u) PROVE OrderInv'
    BY <1>3, <2>3, CreateReadsOrder
  <2>4. ASSUME NEW u \in Users, NEW k \in Clubs, CancelJoinRequest(u, k) PROVE OrderInv'
    BY <1>3, <2>4, CancelOrder
  <2>5. ASSUME NEW u \in Users, ClearPrimary(u) PROVE OrderInv'
    BY <1>3, <2>5, ClearPrimaryOrder
  <2>6. ASSUME NEW c \in Calls,
               \/ SubmitCreates(c) \/ RejectCommits(c) \/ ApproveCommits(c) \/ CreateCommits(c)
               \/ DisbandCommits(c) \/ KickCommits(c) \/ LeaveCommits(c) \/ TransferCommits(c)
               \/ SetPrimaryCommits(c) \/ HandOffReads(c) \/ HandOffOne(c) \/ HandOffDone(c)
        PROVE OrderInv'
    BY <1>3, <2>6, AskingCommitsOrder, ApproveOrder, CreateOrder, DisbandOrder, KickOrder,
       LeaveOrder, TransferOrder, SetPrimaryOrder, HandOffReadsOrder, HandOffOneOrder,
       HandOffDoneOrder
  <2>. QED BY <1>3, <2>1, <2>2, <2>3, <2>4, <2>5, <2>6 DEF ClubsNext
<1>. QED BY <1>1, <1>2, <1>3 DEF Next

\* A club is headed by a member, is the primary club of members only and no member still
\* asks to join, whatever was asked and done before, until two requests about it overlapped
\* (leaveClub, transferLeadership, kickMember, handOffOrDisbandHeadClubs).
THEOREM ClubsAreInOrder == Spec => []ClubsInOrder
<1>1. OrderInv => ClubsInOrder BY DEF OrderInv, ClubsInOrder
<1>2. Spec => []OrderInv BY OrderStart, OrderStep, PlatformAlways, PTL DEF Spec
<1>. QED BY <1>1, <1>2, PTL
=============================================================================
