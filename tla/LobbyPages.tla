------------------------------ MODULE LobbyPages ------------------------------
(***************************************************************************)
(* The browsers in front of a lobby: the list (LobbyListPage.tsx) and the  *)
(* room (LobbyRoomPage.tsx, LobbyRoom.tsx), the socket that carries        *)
(* LOBBY_UPDATED to them (useLobbyConnection.ts, lobby.gateway.ts,         *)
(* lobby.broadcast.ts), and their requests (lobby.routes.ts), which are    *)
(* those of Lobby.                                                         *)
(*                                                                         *)
(* A broadcast reads the lobby when it changes and is sent later, so two   *)
(* of them may arrive in either order.  A page takes what it is shown and  *)
(* does what its effects say in one step.                                  *)
(***************************************************************************)
EXTENDS Lobby

CONSTANTS
  Browsers,   \* the people who have a browser open
  MaxVisits,  \* bound: rooms opened in all
  MaxDrops    \* bound: connections lost

ASSUME PagesAssumption == Browsers \subseteq Users /\ MaxVisits \in Nat /\ MaxDrops \in Nat

VARIABLES
  page,       \* of each browser
  casts,      \* broadcasts under way
  unready,    \* rooms somebody left, whose flag is still to be reset
  told,       \* history: who had the room open, with nothing left to send, at the start
  visits, drops
pageVars == <<page, casts, unready, told, visits, drops>>
-----------------------------------------------------------------------------
\* What GET and LOBBY_UPDATED carry (toLobbyDetails).
Details(l) == [status |-> lobby[l].status, host |-> lobby[l].host, game |-> game[l].made,
               rows |-> Rows(l)]
Unknown == [status |-> "unknown", host |-> Nobody, game |-> FALSE, rows |-> {}]
Asked == [Unknown EXCEPT !.status = "asked"]

\* Where it is and which lobby it is about; the cached details; the GET and the
\* answer to "ready" on their way; LOBBY_JOIN on its way or let in; the requests.
Blank == [at |-> "list", of |-> Nobody, tried |-> FALSE, shown |-> Unknown, get |-> Unknown,
          reply |-> Unknown, line |-> "down", hello |-> "none", inside |-> FALSE, asks |-> {}]
Ask(op, c) == [op |-> op, call |-> c, ok |-> FALSE]

Viewer(d, u) == {m \in d.rows : m.user = u}
Sitting(d) == {m \in d.rows : m.seat # Judge}

PagesInit ==
  /\ page = [u \in Browsers |-> Blank]
  /\ casts = {} /\ unready = {} /\ told = {}
  /\ visits = 0 /\ drops = 0
-----------------------------------------------------------------------------
(* What a room page does with the details it is shown. *)

To(p, where) == [p EXCEPT !.at = where, !.hello = "none", !.inside = FALSE]

\* The three effects: to the game, back to the list, and the automatic join of
\* whoever is not a member, once per mount.
Shows(u, p, d) ==
  LET q == [p EXCEPT !.shown = d] IN
  CASE p.at # "room" -> q
    [] p.at = "room" /\ d.status = "CLOSED" -> To(q, "list")
    [] p.at = "room" /\ d.status # "CLOSED" /\ d.game -> To(q, "game")
    [] p.at = "room" /\ d.status = "WAITING" /\ ~d.game ->
         IF p.tried \/ Viewer(d, u) # {} THEN q
         ELSE [q EXCEPT !.tried = TRUE, !.asks = @ \cup {Ask("join", Nobody)}]
    [] OTHER -> q

\* joinRoom: LOBBY_JOIN, and the details again.
JoinsRoom_PushOnly(p) == [p EXCEPT !.hello = "sent"]
JoinsRoom(p) == [p EXCEPT !.hello = "sent", !.get = Asked]

\* The room is mounted; the cache may still hold what it showed last time.
Mount(u, p, l) ==
  LET fresh == [p EXCEPT !.at = "room", !.of = l, !.tried = FALSE, !.get = Asked]
      open == IF p.line = "up" THEN JoinsRoom(fresh) ELSE fresh
  IN IF p.of = l /\ p.shown # Unknown THEN Shows(u, open, p.shown)
     ELSE [open EXCEPT !.shown = Unknown]

\* The client makes one socket and keeps it; what a room page leaves behind.
Turn(u, p) == page' = [page EXCEPT ![u] = p]

\* broadcastLobbyUpdate for every lobby that changed, unless it finds the room empty;
\* LOBBY_LEAVE and disconnecting for everybody who is no longer in a room.
RoomEmpty(l) == \A u \in Browsers : ~(page[u].inside /\ page[u].of = l)

Aftermath(sent, reset) ==
  /\ LET changed == {l \in Lobbies : Details(l)' # Details(l)} IN
     \E heard \in SUBSET changed :
       /\ \A l \in changed : l \in heard \/ RoomEmpty(l)
       /\ casts' = (casts \ sent) \cup {[of |-> l, d |-> Details(l)'] : l \in heard}
  /\ unready' = (unready \ reset) \cup
       {<<u, page[u].of>> : u \in {v \in Browsers :
          /\ page[v].at = "room"
          /\ page'[v].at # "room" \/ (page[v].inside /\ page'[v].line = "down")}}
  /\ told' = {u \in Browsers :
       /\ page'[u].at = "room"
       /\ \/ u \in told
          \/ /\ page[u].line = "up" /\ page[u].hello = "none"
             /\ ~game[page[u].of].made /\ game'[page[u].of].made}

Still == UNCHANGED vars
-----------------------------------------------------------------------------
(* The socket and the details. *)

OpensRoom(u, l) ==
  /\ page[u].at = "list" /\ visits < MaxVisits /\ visits' = visits + 1
  /\ lobby[l].status # "NONE"
  /\ Turn(u, Mount(u, page[u], l))
  /\ Still /\ UNCHANGED drops /\ Aftermath({}, {})

WalksOut(u) ==
  /\ page[u].at = "room"
  /\ Turn(u, To(page[u], "list"))
  /\ Still /\ UNCHANGED <<visits, drops>> /\ Aftermath({}, {})

Connects(u) ==
  /\ page[u].line = "down" /\ page[u].at = "room"
  /\ Turn(u, JoinsRoom([page[u] EXCEPT !.line = "up"]))
  /\ Still /\ UNCHANGED <<visits, drops>> /\ Aftermath({}, {})

Drops(u) ==
  /\ page[u].line = "up" /\ drops < MaxDrops /\ drops' = drops + 1
  /\ Turn(u, [page[u] EXCEPT !.line = "down", !.hello = "none", !.inside = FALSE])
  /\ Still /\ UNCHANGED visits /\ Aftermath({}, {})

DetailsRead(u) ==
  /\ page[u].get = Asked
  /\ Turn(u, [page[u] EXCEPT !.get = Details(page[u].of)])
  /\ Still /\ UNCHANGED <<visits, drops>> /\ Aftermath({}, {})

DetailsArrive(u) ==
  /\ page[u].get \notin {Asked, Unknown}
  /\ Turn(u, Shows(u, [page[u] EXCEPT !.get = Unknown], page[u].get))
  /\ Still /\ UNCHANGED <<visits, drops>> /\ Aftermath({}, {})

ReplyArrives(u) ==
  /\ page[u].reply # Unknown
  /\ Turn(u, Shows(u, [page[u] EXCEPT !.reply = Unknown], page[u].reply))
  /\ Still /\ UNCHANGED <<visits, drops>> /\ Aftermath({}, {})

\* LOBBY_JOIN: only members are let in; a refusal is not asked about again.
JoinHandled(u) ==
  /\ page[u].hello = "sent"
  /\ LET rows == {m \in Rows(page[u].of) : m.user = u} IN
     Turn(u, [page[u] EXCEPT !.hello = IF rows = {} THEN "none"
                                       ELSE IF \E m \in rows : m.ready THEN "ready" ELSE "member"])
  /\ Still /\ UNCHANGED <<visits, drops>> /\ Aftermath({}, {})

\* Whoever comes back is no longer ready.
JoinDone(u) ==
  /\ page[u].hello \in {"member", "ready"}
  /\ Turn(u, [page[u] EXCEPT !.hello = "none", !.inside = TRUE])
  /\ \/ page[u].hello = "ready" /\ ResetReady(u, page[u].of)
     \/ /\ page[u].hello = "ready" => ~\E m \in Rows(page[u].of) : m.user = u /\ m.ready
        /\ Still
  /\ UNCHANGED <<visits, drops>> /\ Aftermath({}, {})

\* The flag of whoever left a room.
ReadyReset(u, l) ==
  /\ <<u, l>> \in unready
  /\ \/ ResetReady(u, l)
     \/ Still /\ ~\E m \in Rows(l) : m.user = u /\ m.ready
  /\ UNCHANGED <<page, visits, drops>> /\ Aftermath({}, {<<u, l>>})

\* To every socket in the room; a page that is gone does not listen.
Sends(cast) ==
  /\ page' = [u \in Browsers |-> IF page[u].inside /\ page[u].of = cast.of
                                 THEN Shows(u, page[u], cast.d) ELSE page[u]]
  /\ Still /\ UNCHANGED <<visits, drops>> /\ Aftermath({cast}, {})
-----------------------------------------------------------------------------
(* The buttons.  The web client never asks for the judge's seat. *)

OnRoom(u, l) == page[u].at = "room" /\ page[u].of = l /\ page[u].shown # Unknown

StartEnabled(d) ==
  /\ Cardinality(Sitting(d)) = PlayerSlots
  /\ \E m \in d.rows : m.seat = Judge
  /\ \A m \in Sitting(d) : m.ready

Free(u, op) == \A a \in page[u].asks : a.op # op
Requests(u, op, c) == Turn(u, [page[u] EXCEPT !.asks = @ \cup {Ask(op, c)}])

\* A row of the list; the room opens when the answer comes.
ClicksJoin(c, u, l) ==
  /\ page[u].at = "list" /\ page[u].asks = {}
  /\ visits < MaxVisits /\ visits' = visits + 1
  /\ JoinReads(c, u, l) /\ calls'[c].seat # Judge
  /\ Turn(u, [page[u] EXCEPT !.asks = {Ask("enter", c)}, !.of = l,
                             !.shown = IF @ # Unknown /\ page[u].of = l THEN @ ELSE Unknown])
  /\ UNCHANGED drops /\ Aftermath({}, {})

\* The automatic join reaches the service, which may refuse it.
JoinsByItself(c, u) ==
  LET mine == Ask("join", Nobody)
      others == page[u].asks \ {mine} IN
  /\ mine \in page[u].asks
  /\ \/ /\ JoinReads(c, u, page[u].of) /\ calls'[c].seat # Judge
        /\ Turn(u, [page[u] EXCEPT !.asks = others \cup {Ask("join", c)}])
     \/ /\ \/ u \in Seated(page[u].of)
           \/ lobby[page[u].of].status # "WAITING"
           \/ Seats \subseteq Taken(page[u].of)
        /\ calls[c] = Idle /\ Still
        /\ Turn(u, [page[u] EXCEPT !.asks = others])
  /\ UNCHANGED <<visits, drops>> /\ Aftermath({}, {})

ClicksReady(u, l) ==
  /\ OnRoom(u, l) /\ page[u].reply = Unknown
  /\ \E m \in Viewer(page[u].shown, u) : m.seat # Judge /\ SetReady(u, l, ~m.ready)
  /\ Turn(u, [page[u] EXCEPT !.reply = Details(l)'])
  /\ UNCHANGED <<visits, drops>> /\ Aftermath({}, {})

ClicksKick(u, l) ==
  /\ OnRoom(u, l) /\ page[u].shown.host = u
  /\ \E m \in Sitting(page[u].shown) : m.user # u /\ KickMember(l, m.user)
  /\ Turn(u, [page[u] EXCEPT !.get = Asked])
  /\ UNCHANGED <<visits, drops>> /\ Aftermath({}, {})

Clicks(c, u, l) ==
  /\ OnRoom(u, l)
  /\ \/ Free(u, "leave") /\ LeaveLobby(c, u, l) /\ Requests(u, "leave", c)
     \/ /\ page[u].shown.host = u
        /\ \/ Free(u, "close") /\ CloseReads(c, l) /\ Requests(u, "close", c)
           \/ /\ Free(u, "start") /\ StartEnabled(page[u].shown)
              /\ StartReads(c, l) /\ Requests(u, "start", c)
           \/ /\ Free(u, "fill") /\ Cardinality(Sitting(page[u].shown)) # PlayerSlots
              /\ FillReads(c, l) /\ Requests(u, "fill", c)
  /\ UNCHANGED <<visits, drops>> /\ Aftermath({}, {})

\* The service goes on with a request; the answer says what came of it.
Came(op, u, l) ==
  CASE op = "start" -> game'[l].made
    [] op \in {"join", "enter"} -> \E m \in members' : m.lobby = l /\ m.user = u
    [] OTHER -> TRUE

Serves(c) ==
  /\ Continue(c)
  /\ page' = [u \in Browsers |-> [page[u] EXCEPT !.asks =
       {IF a.call = c /\ calls'[c] = Answered THEN [a EXCEPT !.ok = Came(a.op, u, page[u].of)]
                                               ELSE a : a \in @}]]
  /\ UNCHANGED <<visits, drops>> /\ Aftermath({}, {})

\* onSuccess and onError.  What the page itself wants done is done only while the
\* page is there.
Answer(u, p, a) ==
  CASE a.op = "enter" /\ p.at = "list" /\ a.ok -> Mount(u, p, p.of)
    [] a.op \in {"leave", "close"} /\ p.at = "room" -> To(p, "list")
    [] a.op = "start" /\ p.at = "room" /\ a.ok -> To(p, "game")
    [] a.op \in {"join", "fill"} /\ p.at = "room" /\ a.ok -> [p EXCEPT !.get = Asked]
    [] OTHER -> p

Answers(u, a) ==
  /\ a.call # Nobody /\ calls[a.call] = Answered
  /\ Turn(u, Answer(u, [page[u] EXCEPT !.asks = @ \ {a}], a))
  /\ Still /\ UNCHANGED <<visits, drops>> /\ Aftermath({}, {})
-----------------------------------------------------------------------------
PagesNext ==
  \/ \E u \in Browsers :
       \/ WalksOut(u) \/ Connects(u) \/ Drops(u)
       \/ DetailsRead(u) \/ DetailsArrive(u) \/ ReplyArrives(u)
       \/ JoinHandled(u) \/ JoinDone(u)
       \/ \E a \in page[u].asks : Answers(u, a)
       \/ \E c \in Calls : JoinsByItself(c, u)
       \/ \E l \in Lobbies : \/ OpensRoom(u, l) \/ ReadyReset(u, l)
                             \/ ClicksReady(u, l) \/ ClicksKick(u, l)
                             \/ \E c \in Calls : ClicksJoin(c, u, l) \/ Clicks(c, u, l)
  \/ \E cast \in casts : Sends(cast)
  \/ \E c \in Calls : Serves(c)

\* An evening on which no page is open yet, whatever the rows.
PagesSpec ==
  /\ LobbyTypeOK /\ calls = [c \in Calls |-> Idle]
  /\ PagesInit /\ [][PagesNext]_<<vars, pageVars>>
-----------------------------------------------------------------------------
\* Nothing is on its way any more.
Quiet ==
  /\ casts = {} /\ unready = {}
  /\ \A c \in Calls : calls[c] \in {Idle, Answered}
  /\ \A u \in Browsers :
       /\ page[u].get = Unknown /\ page[u].reply = Unknown
       /\ page[u].hello = "none" /\ page[u].asks = {}
       /\ page[u].at = "room" => page[u].line = "up"

Stuck(u) == page[u].at = "room" /\ game[page[u].of].made

\* "Whenever the lobby becomes attached to a started game, redirect everyone in the
\* room" (LobbyRoomPage.tsx): whoever sits at the table and had the room open.
StartSendsEveryone ==
  Quiet => \A u \in told : u \in Seated(page[u].of) => ~Stuck(u)

\* Whoever the socket's room holds is on his way to the game, lost connections and
\* overtaken broadcasts and answers notwithstanding.
StartSendsTheRoom == Quiet => \A u \in told : page[u].inside => ~Stuck(u)
=============================================================================
