--------------------------------- MODULE Feed ---------------------------------
(***************************************************************************)
(* The way of a click to the table and of the table back to the screens:   *)
(* the game page and its socket (useGameConnection.ts, game.socket.ts,     *)
(* game.store.ts), the socket handlers (game.gateway.ts), the per-game     *)
(* lock they queue in (Mutex), and the broadcast (game.broadcast.ts).      *)
(*                                                                         *)
(* A table is the number of changes it has seen, and each change is made   *)
(* by one call of withLock.  Calls are made by clicks, and by the server   *)
(* itself: timers, bots, HTTP requests, the lobby.  Messages between a     *)
(* browser and the server stay in order and die with the connection.       *)
(***************************************************************************)
EXTENDS Mutex, Sequences

CONSTANTS
  Clients,    (* open browsers, each a participant of every game           *)
  MaxVisits,  (* bound: pages opened by one browser                        *)
  MaxDrops    (* bound: connections lost                                   *)

ASSUME FeedAssumption == MaxVisits \in Nat /\ MaxDrops \in Nat /\ "none" \notin Keys

VARIABLES
  revision,   \* of each game: the changes its table has seen
  told,       \* the revision last sent to the game's room
  origin,     \* of each call: a click, the server itself, or the lobby
  answer,     \* the revision a call's task returned with ok, or 0
  known,      \* the games recovery has put back into the registry
  link, rooms, toServer, toClient,          \* of each browser's socket
  page, screen, failed, kept,               \* of each browser
  visits, drops

lockVars == <<made, key, previous, promise, returned, tail>>
serverVars == <<revision, told, origin, answer, known>>
wireVars == <<link, rooms, toServer, toClient>>
browserVars == <<page, screen, failed, kept>>
feedVars == <<lockVars, serverVars, wireVars, browserVars, visits, drops>>

NoPage == "none"
Nothing == <<>>

Join(g) == [what |-> "join", page |-> g]
\* A click knows the page and the screen it was made on, and whether the
\* socket was open.
Clicked(b) ==
  [what |-> "click", page |-> page[b], shown |-> screen[b][1], live |-> link[b] = "up"]
ByItself(who) == [what |-> who]

Table(g) == <<g, revision[g]>>
Refused == <<"refused">>

FeedInit ==
  /\ Init
  /\ revision = [g \in Keys |-> 0] /\ told = revision
  /\ origin = [c \in Calls |-> ByItself("server")] /\ answer = [c \in Calls |-> 0]
  /\ known \in {Keys, {}}          \* after a restart: not yet
  /\ link = [b \in Clients |-> "down"] /\ rooms = [b \in Clients |-> {}]
  /\ toServer = [b \in Clients |-> <<>>] /\ toClient = toServer /\ kept = toServer
  /\ page = [b \in Clients |-> NoPage] /\ screen = [b \in Clients |-> Nothing]
  /\ failed = [b \in Clients |-> FALSE]
  /\ visits = 0 /\ drops = 0

-----------------------------------------------------------------------------
(* The browser.                                                            *)

\* Mutant: only the connect event joins.
JoinsOnMount_Never(b, g) == toServer[b]

\* "If the socket is already connected, trigger the join manually."
JoinsOnMount(b, g) ==
  IF link[b] = "up" THEN Append(toServer[b], Join(g)) ELSE toServer[b]

OpenPage(b, g) ==
  /\ page[b] = NoPage /\ visits < MaxVisits
  /\ visits' = visits + 1
  /\ page' = [page EXCEPT ![b] = g] /\ failed' = [failed EXCEPT ![b] = FALSE]
  /\ toServer' = [toServer EXCEPT ![b] = JoinsOnMount(b, g)]
  /\ UNCHANGED <<lockVars, serverVars, link, rooms, toClient, screen, kept, drops>>

\* The listeners go and the store is reset; the socket and its room stay.
ClosePage(b) ==
  /\ page[b] # NoPage
  /\ page' = [page EXCEPT ![b] = NoPage] /\ screen' = [screen EXCEPT ![b] = Nothing]
  /\ failed' = [failed EXCEPT ![b] = FALSE]
  /\ UNCHANGED <<lockVars, serverVars, wireVars, kept, visits, drops>>

\* Mutant: what was kept follows the join.
OnConnect_JoinFirst(b) ==
  (IF page[b] = NoPage THEN <<>> ELSE <<Join(page[b])>>) \o kept[b]

\* What was emitted offline is sent before the page's connect handler runs.
OnConnect(b) == kept[b] \o (IF page[b] = NoPage THEN <<>> ELSE <<Join(page[b])>>)

Connects(b) ==
  /\ link[b] = "down" /\ page[b] # NoPage
  /\ link' = [link EXCEPT ![b] = "up"]
  /\ toServer' = [toServer EXCEPT ![b] = OnConnect(b)]
  /\ kept' = [kept EXCEPT ![b] = <<>>] /\ failed' = [failed EXCEPT ![b] = FALSE]
  /\ UNCHANGED <<lockVars, serverVars, rooms, toClient, page, screen, visits, drops>>

\* The network, a closed laptop: whatever is on its way is lost.
Drops(b) ==
  /\ link[b] = "up" /\ drops < MaxDrops /\ drops' = drops + 1
  /\ link' = [link EXCEPT ![b] = "down"] /\ rooms' = [rooms EXCEPT ![b] = {}]
  /\ toServer' = [toServer EXCEPT ![b] = <<>>] /\ toClient' = [toClient EXCEPT ![b] = <<>>]
  /\ UNCHANGED <<lockVars, serverVars, browserVars, visits>>

\* emitGameAction, from a screen that shows a table.
Click(b) ==
  /\ page[b] # NoPage /\ screen[b] # Nothing /\ ~failed[b]
  /\ Len(kept[b]) + Len(toServer[b]) < 2
  /\ IF link[b] = "up"
     THEN /\ toServer' = [toServer EXCEPT ![b] = Append(@, Clicked(b))]
          /\ UNCHANGED kept
     ELSE /\ kept' = [kept EXCEPT ![b] = Append(@, Clicked(b))]
          /\ UNCHANGED toServer
  /\ UNCHANGED <<lockVars, serverVars, link, rooms, toClient, page, screen, failed, visits, drops>>

\* handleState shows whatever table arrives; a refused join fails the page.
Receives(b) ==
  /\ toClient[b] # <<>>
  /\ toClient' = [toClient EXCEPT ![b] = Tail(@)]
  /\ LET msg == Head(toClient[b])
     IN /\ screen' = [screen EXCEPT ![b] = IF page[b] = NoPage \/ msg = Refused THEN @ ELSE msg]
        /\ failed' = [failed EXCEPT ![b] = @ \/ (page[b] # NoPage /\ msg = Refused)]
  /\ UNCHANGED <<lockVars, serverVars, link, rooms, toServer, page, kept, visits, drops>>

-----------------------------------------------------------------------------
(* The server.                                                             *)

Takes(b, what) ==
  /\ toServer[b] # <<>> /\ Head(toServer[b]).what = what
  /\ toServer' = [toServer EXCEPT ![b] = Tail(@)]

\* Mutant: the other game rooms are not left.
RoomsAfterJoin_All(b, g) == rooms[b] \cup {g}

RoomsAfterJoin(b, g) == {g}

\* GAME_JOIN: into the room, and the table as it is now.
HandlesJoin(b) ==
  /\ Takes(b, "join")
  /\ LET g == Head(toServer[b]).page
     IN IF g \in known
        THEN /\ rooms' = [rooms EXCEPT ![b] = RoomsAfterJoin(b, g)]
             /\ toClient' = [toClient EXCEPT ![b] = Append(@, Table(g))]
        ELSE toClient' = [toClient EXCEPT ![b] = Append(@, Refused)] /\ UNCHANGED rooms
  /\ UNCHANGED <<lockVars, serverVars, link, browserVars, visits, drops>>

\* withSchema: the game is the one whose room the socket is in.  A ban, a
\* payload that does not parse, or no room at all, and the click is refused.
HandlesClick(b) ==
  /\ Takes(b, "click")
  /\ \/ \E c \in Calls : /\ WithLock(c) /\ key[c] \in rooms[b]
                         /\ origin' = [origin EXCEPT ![c] = Head(toServer[b])]
     \/ UNCHANGED <<lockVars, origin>>
  /\ UNCHANGED <<revision, told, answer, known, link, rooms, toClient, browserVars, visits, drops>>

\* A timer, a bot, a request over HTTP; or somebody who leaves the lobby.
ServerCalls(c) ==
  /\ WithLock(c) /\ key[c] \in known
  /\ \E who \in {"server", "lobby"} : origin' = [origin EXCEPT ![c] = ByItself(who)]
  /\ UNCHANGED <<revision, told, answer, known, wireVars, browserVars, visits, drops>>

Begins(c) == Begin(c) /\ UNCHANGED <<serverVars, wireVars, browserVars, visits, drops>>

\* The task changes the table, is refused, or throws: before setGame, or after it.
Settles(c) ==
  /\ Settle(c)
  /\ \/ /\ revision' = [revision EXCEPT ![key[c]] = @ + 1]
        /\ answer' = [answer EXCEPT ![c] = IF promise'[c] = "resolved" THEN revision'[key[c]] ELSE 0]
     \/ UNCHANGED <<revision, answer>>
  /\ UNCHANGED <<told, origin, known, wireVars, browserVars, visits, drops>>

\* Mutant: the answer of the call is sent.
Sent_Answer(c) == <<key[c], answer[c]>>

\* broadcastGameState reads the registry again.
Sent(c) == Table(key[c])

\* respondAndBroadcast; removeUserFromActiveGameForLobby tells nobody.
Returns(c) ==
  /\ Return(c)
  /\ IF answer[c] # 0 /\ origin[c].what # "lobby"
     THEN /\ told' = [told EXCEPT ![key[c]] = revision[key[c]]]
          /\ toClient' = [b \in Clients |-> IF key[c] \in rooms[b]
                                            THEN Append(toClient[b], Sent(c)) ELSE toClient[b]]
     ELSE UNCHANGED <<told, toClient>>
  /\ UNCHANGED <<revision, origin, answer, known, link, rooms, toServer, browserVars, visits, drops>>

\* recoverActiveGames runs while the sockets are already coming back.
Recovers(g) ==
  /\ g \notin known /\ known' = known \cup {g}
  /\ UNCHANGED <<lockVars, revision, told, origin, answer, wireVars, browserVars, visits, drops>>

FeedNext ==
  \/ \E b \in Clients :
       \/ ClosePage(b) \/ Connects(b) \/ Drops(b) \/ Click(b)
       \/ Receives(b) \/ HandlesJoin(b) \/ HandlesClick(b)
       \/ \E g \in Keys : OpenPage(b, g)
  \/ \E c \in Calls : ServerCalls(c) \/ Begins(c) \/ Settles(c) \/ Returns(c)
  \/ \E g \in Keys : Recovers(g)

\* Messages arrive while the connection lasts, and the browser reconnects;
\* promises settle and tasks end, as in Mutex.
FeedFairness ==
  /\ \A b \in Clients : /\ WF_feedVars(Connects(b)) /\ WF_feedVars(Receives(b))
                        /\ WF_feedVars(HandlesJoin(b)) /\ WF_feedVars(HandlesClick(b))
  /\ \A c \in Calls : WF_feedVars(Begins(c)) /\ WF_feedVars(Settles(c)) /\ WF_feedVars(Returns(c))

FeedSpec == FeedInit /\ [][FeedNext]_feedVars /\ FeedFairness

-----------------------------------------------------------------------------

FeedTypeOK ==
  /\ revision \in [Keys -> Nat] /\ told \in [Keys -> Nat] /\ known \subseteq Keys
  /\ link \in [Clients -> {"up", "down"}] /\ rooms \in [Clients -> SUBSET Keys]
  /\ page \in [Clients -> Keys \cup {NoPage}] /\ failed \in [Clients -> BOOLEAN]
  /\ \A b \in Clients : screen[b] = Nothing \/ screen[b] \in Keys \X Nat

\* A screen never shows an older table than the one it showed before, although
\* the answers of two calls may overtake each other between the lock and the
\* broadcast (game.broadcast.ts:88-140).
ScreenNeverGoesBack ==
  [][\A b \in Clients, g \in Keys :
       screen[b] # Nothing /\ screen'[b] # Nothing /\ screen[b][1] = g /\ screen'[b][1] = g
         => screen'[b][2] >= screen[b][2]]_feedVars

\* A click acts on the game of the page it was made on (or on the one that page
\* still shows, when recovery has yet to bring its own back) and, if the connection
\* was gone by then, on nothing: it does not wait for the table to come back in a
\* state the player has not seen (game.gateway.ts:93-97, 270-276).  A browser that
\* opens a third game before recovery is through may still be in the first one's room.
ClickMeansThePage ==
  \A c \in 1..made : origin[c].what = "click" =>
    key[c] \in {origin[c].page, origin[c].shown} /\ origin[c].live

\* An open page that is connected comes to show the table as it is, whatever was
\* lost before, if the last change was announced at all (useGameConnection.ts:
\* 40-47, 105-106).
ScreensCatchUp ==
  \A b \in Clients, g \in Keys :
    <>[](page[b] = g /\ link[b] = "up" /\ ~failed[b] /\ told[g] = revision[g])
      => <>[](screen[b] = Table(g))
=============================================================================
