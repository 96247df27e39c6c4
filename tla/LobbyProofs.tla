----------------------------- MODULE LobbyProofs -----------------------------
(***************************************************************************)
(* The rows of the lobbies keep their unique indexes, nobody waits as a    *)
(* guest at two tables, and a waiting table has its host: for any number   *)
(* of people, lobbies, seats and requests in flight.                       *)
(*                                                                         *)
(* None of the three is inductive.  What has to be known is what a request *)
(* still means when its later steps come: that the rows a join has read    *)
(* are of guests' and are all there are, that nobody but their own request *)
(* seats the bots it made, and that a lobby is never new again.            *)
(***************************************************************************)
EXTENDS LobbyPages, TLAPS, WellFoundedInduction

Ops == {"idle", "answered", "join", "evicted", "create", "named", "moving", "ending",
        "close", "shut", "fill", "seat", "start"}
CallRow == [op : Ops, by : Users \cup Bots \cup {Nobody}, at : Lobbies \cup {Nobody},
            seat : {Judge} \cup Seats, seen : SUBSET (MemberRow \cup Lobbies \cup Users \cup Bots \cup Seats)]

Made(l) == lobby[l].status # "NONE"

\* Whom the rows of a join are of: a guest of the lobby they are in.
GuestOf(u, l) == l \in Lobbies /\ Made(l) /\ lobby[l].host # u

\* What a request in flight has read, and what of it still holds.
CallMeans(c) ==
  LET call == calls[c] IN
  /\ call \in CallRow
  /\ call.op \in {"join", "evicted", "create", "named", "moving"} => call.by \in Users
  /\ call.op \in {"join", "ending", "close", "shut", "fill", "seat", "start"} => call.at \in Lobbies
  /\ call.op \in {"join", "fill", "seat"} => Made(call.at)
  /\ call.op = "join" =>
       /\ \A m \in call.seen : m \in MemberRow /\ m.user = call.by /\ GuestOf(call.by, m.lobby)
       /\ \A n \in GuestRows(call.by) : \E m \in call.seen : m.lobby = n.lobby
  /\ call.op \in {"evicted", "moving"} => call.seen \subseteq Lobbies
  /\ call.op = "named" => \A l \in call.seen : GuestOf(call.by, l)
  /\ call.op \in {"fill", "seat"} => call.seen \subseteq Seats /\ call.seen # {}
  /\ call.op = "seat" => /\ call.by \in Bots /\ bot[call.by] # "unborn"
                         /\ \A m \in members : m.user # call.by
  /\ call.op = "start" => call.by \in Users /\ call.seen \subseteq Users \cup Bots

\* Two requests never seat one bot.
BotsApart ==
  \A c, d \in Calls : calls[c].op = "seat" /\ calls[d].op = "seat" /\ c # d => calls[c].by # calls[d].by

\* A bot has a row before it has a seat, and is never the judge.
BotsPlay ==
  \A m \in members : m.user \in Bots => m.seat # Judge /\ bot[m.user] # "unborn"

RowsOfLobbies == \A m \in members : Made(m.lobby)

\* There is a game only where a start has committed.
GamesOfStarted ==
  \A l \in Lobbies : IF game[l].made THEN lobby[l].status \in {"IN_GAME", "CLOSED"}
                                     ELSE game[l] = NoGame

SweptBots == sweep.at = "delete" => sweep.ids \subseteq Bots

RowsInv == RowsOfLobbies /\ BotsPlay /\ GuestOfOneTable /\ HostSitsAtHisTable
CallsInv == calls \in [Calls -> CallRow] /\ (\A c \in Calls : CallMeans(c)) /\ BotsApart

IInv == LobbyTypeOK /\ RowsInv /\ CallsInv /\ GamesOfStarted /\ SweptBots

-----------------------------------------------------------------------------
(* What does not disturb a request in flight. *)

\* No lobby is new again, nor changes its host.
LobbiesStay ==
  \A l \in Lobbies : Made(l) => Made(l)' /\ lobby'[l].host = lobby[l].host

BornStay == \A b \in Bots : bot[b] # "unborn" => bot'[b] # "unborn"

\* The person is a guest nowhere new; the bot is nowhere seated that was not.
NoNewGuest(u) == \A n \in GuestRows(u)' : \E m \in GuestRows(u) : m.lobby = n.lobby
NoNewBot(b) == \A m \in members' : m.user = b => \E n \in members : n.user = b

LEMMA CallKept ==
  ASSUME NEW c \in Calls, CallMeans(c), calls'[c] = calls[c], LobbiesStay, BornStay,
         calls[c].op = "join" => NoNewGuest(calls[c].by),
         calls[c].op = "seat" => NoNewBot(calls[c].by)
  PROVE CallMeans(c)'
<1>1. \A u, l : GuestOf(u, l) => GuestOf(u, l)' BY DEF GuestOf, LobbiesStay
<1>2. \A l \in Lobbies : Made(l) => Made(l)' BY DEF LobbiesStay
<1>3. calls[c].op = "join" => \A n \in GuestRows(calls[c].by)' : \E m \in calls[c].seen : m.lobby = n.lobby
  BY DEF NoNewGuest, CallMeans
<1>4. calls[c].op = "seat" => /\ bot'[calls[c].by] # "unborn"
                              /\ \A m \in members' : m.user # calls[c].by
  BY DEF NoNewBot, BornStay, CallMeans
<1>. QED BY <1>1, <1>2, <1>3, <1>4 DEF CallMeans

LEMMA RequestMeans ==
  ASSUME NEW c \in Calls, calls'[c] \in {Idle, Answered}
  PROVE CallMeans(c)'
BY DEF CallMeans, Idle, Answered, CallRow, Ops

\* Each request waits, or goes on to what it still means.
CallsGo ==
  /\ calls' \in [Calls -> CallRow]
  /\ \A c \in Calls : calls'[c] = calls[c] \/ (calls'[c].op # "seat" /\ CallMeans(c)')

LEMMA CallsKept ==
  ASSUME CallsInv, LobbiesStay, BornStay, CallsGo,
         \A u \in Users : NoNewGuest(u), \A b \in Bots : NoNewBot(b)
  PROVE CallsInv'
<1>1. \A c \in Calls : CallMeans(c)'
  <2>. SUFFICES ASSUME NEW c \in Calls, calls'[c] = calls[c] PROVE CallMeans(c)' BY DEF CallsGo
  <2>1. CallMeans(c) BY DEF CallsInv
  <2>2. /\ calls[c].op = "join" => calls[c].by \in Users
        /\ calls[c].op = "seat" => calls[c].by \in Bots BY <2>1 DEF CallMeans
  <2>. QED BY <2>1, <2>2, CallKept
<1>2. BotsApart' BY DEF BotsApart, CallsInv, CallsGo
<1>. QED BY <1>1, <1>2 DEF CallsInv, CallsGo

LEMMA CallsRest == ASSUME CallsInv, UNCHANGED calls PROVE CallsGo
BY DEF CallsInv, CallsGo

LEMMA CallEnds == ASSUME CallsInv, NEW c \in Calls, Ends(c) PROVE CallsGo
<1>1. Answered \in CallRow BY DEF Answered, Idle, CallRow, Ops
<1>2. calls' \in [Calls -> CallRow] /\ calls'[c] = Answered
  BY <1>1 DEF Ends, CallsInv
<1>3. CallMeans(c)' /\ calls'[c].op # "seat" BY <1>2, RequestMeans DEF Answered, Idle
<1>. QED BY <1>2, <1>3 DEF Ends, CallsInv, CallsGo

LEMMA CallGoes ==
  ASSUME CallsInv, NEW c \in Calls, NEW r \in CallRow, calls' = [calls EXCEPT ![c] = r],
         r.op # "seat", CallMeans(c)'
  PROVE CallsGo
BY DEF CallsInv, CallsGo

-----------------------------------------------------------------------------
(* What a step does to lobbies, games, bots and the sweeper. *)

Started == {"IN_GAME", "CLOSED"}
NoneOpens == \A l \in Lobbies : lobby'[l].status = "WAITING" => lobby[l].status = "WAITING"
StartedStay == \A l \in Lobbies : lobby[l].status \in Started => lobby'[l].status \in Started
PeopleStay == \A l \in Lobbies : \A u \in Users : u \in Seated(l) => u \in Seated(l)'

LobbyOK == lobby' \in [Lobbies -> LobbyRow] /\ LobbiesStay /\ NoneOpens /\ StartedStay
GameOK == game' \in [Lobbies -> GameRow] /\ GamesOfStarted'
BotOK == bot' \in [Bots -> {"unborn", "row", "deleted"}] /\ BornStay
SweepOK == deleted' \subseteq Users /\ SweptBots'

LEMMA LobbyRests == ASSUME IInv, UNCHANGED lobby PROVE LobbyOK
BY DEF IInv, LobbyTypeOK, LobbyOK, LobbiesStay, NoneOpens, StartedStay, Made

LEMMA GameRests == ASSUME IInv, UNCHANGED game, LobbyOK PROVE GameOK
BY DEF IInv, LobbyTypeOK, GameOK, GamesOfStarted, LobbyOK, StartedStay, Started

LEMMA BotRests == ASSUME IInv, UNCHANGED bot PROVE BotOK
BY DEF IInv, LobbyTypeOK, BotOK, BornStay

LEMMA SweepRests == ASSUME IInv, UNCHANGED <<deleted, sweep>> PROVE SweepOK
BY DEF IInv, LobbyTypeOK, SweepOK, SweptBots

LEMMA ClosePreserves ==
  ASSUME IInv, NEW ls, Close(ls)
  PROVE LobbyOK /\ \A l \in Lobbies : lobby'[l].status = "WAITING" => l \notin ls
<1>1. lobby \in [Lobbies -> LobbyRow] BY DEF IInv, LobbyTypeOK
<1>2. \A l \in Lobbies : lobby'[l] = IF l \in ls THEN [lobby[l] EXCEPT !.status = "CLOSED"] ELSE lobby[l]
  BY DEF Close
<1>3. \A l \in Lobbies : lobby'[l] \in LobbyRow /\ lobby'[l].host = lobby[l].host
                         /\ lobby'[l].status = IF l \in ls THEN "CLOSED" ELSE lobby[l].status
  BY <1>1, <1>2 DEF LobbyRow
<1>4. lobby' \in [Lobbies -> LobbyRow] BY <1>3 DEF Close
<1>. QED BY <1>3, <1>4 DEF LobbyOK, LobbiesStay, NoneOpens, StartedStay, Started, Made

LEMMA DropBotsPreserves ==
  ASSUME IInv, NEW gone \in SUBSET Bots, DropBots(gone)
  PROVE members' \subseteq members /\ BotOK /\ PeopleStay
<1>1. bot \in [Bots -> {"unborn", "row", "deleted"}] BY DEF IInv, LobbyTypeOK
<1>2. BotOK BY <1>1 DEF DropBots, BotOK, BornStay
<1>3. PeopleStay BY LobbyAssumption DEF DropBots, PeopleStay, Seated, Rows
<1>. QED BY <1>2, <1>3 DEF DropBots

\* Whatever happens to a game that was made.
LEMMA GamePlays ==
  ASSUME IInv, LobbyOK, NEW l \in Lobbies, game[l].made, NEW r \in GameRow, r.made,
         game' = [game EXCEPT ![l] = r]
  PROVE GameOK
BY DEF IInv, LobbyTypeOK, GameOK, GamesOfStarted, LobbyOK, StartedStay, Started

LEMMA FinishedPreserves ==
  ASSUME IInv, NEW l \in Lobbies, game[l].made, Finished(l), LobbyOK
  PROVE GameOK /\ members' \subseteq members /\ BotOK /\ PeopleStay
<1>1. DropBots(game[l].seated \cap Bots) BY DEF Finished
<1>2. game \in [Lobbies -> GameRow] BY DEF IInv, LobbyTypeOK
<1>. DEFINE r == [game[l] EXCEPT !.ended = TRUE, !.over = TRUE]
<1>3. r \in GameRow /\ r.made BY <1>2 DEF GameRow
<1>4. game' = [game EXCEPT ![l] = r] BY <1>2 DEF Finished
<1>. HIDE DEF r
<1>5. GameOK BY <1>3, <1>4, GamePlays
<1>. QED BY <1>1, <1>5, DropBotsPreserves

LEMMA EndActiveGamePreserves ==
  ASSUME IInv, NEW l \in Lobbies, EndActiveGame(l), LobbyOK
  PROVE GameOK /\ members' \subseteq members /\ BotOK /\ PeopleStay
<1>1. CASE Running(l) BY <1>1, FinishedPreserves DEF EndActiveGame, Running
<1>2. CASE ~Running(l)
  <2>1. UNCHANGED <<game, bot, members>> BY <1>2 DEF EndActiveGame
  <2>. QED BY <2>1, GameRests, BotRests DEF PeopleStay, Seated, Rows
<1>. QED BY <1>1, <1>2

LEMMA RemoveFromActiveGamePreserves ==
  ASSUME IInv, NEW l \in Lobbies, NEW u, RemoveFromActiveGame(l, u), LobbyOK
  PROVE GameOK /\ members' \subseteq members /\ BotOK /\ PeopleStay
<1>1. CASE Running(l) /\ ~game[l].over /\ u \in Players(l)
  <2>1. PICK decided \in BOOLEAN :
          /\ game' = [game EXCEPT ![l].gone = @ \cup {u}, ![l].ended = decided, ![l].over = decided]
          /\ IF decided THEN DropBots(game[l].seated \cap Bots) ELSE UNCHANGED <<bot, members>>
    BY <1>1 DEF RemoveFromActiveGame
  <2>2. game \in [Lobbies -> GameRow] /\ game[l].made BY <1>1 DEF IInv, LobbyTypeOK, Running
  <2>. DEFINE r == [game[l] EXCEPT !.gone = @ \cup {u}, !.ended = decided, !.over = decided]
  <2>3. u \in Users \cup Bots BY <1>1, <2>2 DEF Players, GameRow
  <2>4. r \in GameRow /\ r.made BY <2>2, <2>3 DEF GameRow
  <2>5. game' = [game EXCEPT ![l] = r] BY <2>1, <2>2
  <2>. HIDE DEF r
  <2>6. GameOK BY <2>2, <2>4, <2>5, GamePlays
  <2>7. CASE decided BY <2>1, <2>6, <2>7, DropBotsPreserves
  <2>8. CASE ~decided
    <3>1. UNCHANGED <<bot, members>> BY <2>1, <2>8
    <3>. QED BY <3>1, <2>6, BotRests DEF PeopleStay, Seated, Rows
  <2>. QED BY <2>7, <2>8
<1>2. CASE ~(Running(l) /\ ~game[l].over /\ u \in Players(l))
  <2>1. UNCHANGED <<game, bot, members>> BY <1>2 DEF RemoveFromActiveGame
  <2>. QED BY <2>1, GameRests, BotRests DEF PeopleStay, Seated, Rows
<1>. QED BY <1>1, <1>2

-----------------------------------------------------------------------------
(* Steps that seat nobody. *)

HostsKeepTheirSeats ==
  \A l \in Lobbies : lobby'[l].status = "WAITING" => lobby[l].host \in Seated(l)'

LEMMA Shrinks ==
  ASSUME IInv, LobbyOK, GameOK, BotOK, SweepOK, members' \subseteq members,
         HostsKeepTheirSeats, CallsGo
  PROVE IInv'
<1>. USE DEF LobbyOK, GameOK, BotOK, SweepOK
<1>1. LobbyTypeOK' BY DEF IInv, LobbyTypeOK
<1>2. members \subseteq MemberRow BY DEF IInv, LobbyTypeOK
<1>3. \A m \in members' : m \in members /\ m.lobby \in Lobbies /\ Made(m.lobby) /\ m.user \in Users \cup Bots
  BY <1>2 DEF IInv, RowsInv, RowsOfLobbies, MemberRow
<1>4. \A u : \A n \in GuestRows(u)' : n \in GuestRows(u)
  BY <1>3 DEF GuestRows, LobbiesStay, NoneOpens
<1>5. \A u \in Users : NoNewGuest(u) BY <1>4 DEF NoNewGuest
<1>6. \A b \in Bots : NoNewBot(b) BY DEF NoNewBot
<1>7. CallsInv' BY <1>5, <1>6, CallsKept DEF IInv
<1>8. RowsOfLobbies' BY <1>3 DEF RowsOfLobbies, LobbiesStay
<1>9. BotsPlay' BY <1>3 DEF IInv, RowsInv, BotsPlay, BornStay
<1>10. GuestOfOneTable' BY <1>4 DEF IInv, RowsInv, GuestOfOneTable
<1>11. HostSitsAtHisTable'
  <2>1. \A l \in Lobbies : lobby'[l].status = "WAITING" => lobby'[l].host = lobby[l].host
    BY DEF LobbiesStay, NoneOpens, Made
  <2>. QED BY <2>1 DEF HostSitsAtHisTable, HostsKeepTheirSeats
<1>. QED BY <1>1, <1>7, <1>8, <1>9, <1>10, <1>11 DEF IInv, RowsInv

\* The host of a waiting lobby is a person, and has a row.
LEMMA Hosts ==
  ASSUME IInv, NEW l \in Lobbies, lobby[l].status = "WAITING"
  PROVE lobby[l].host \in Users /\ lobby[l].host \in Seated(l)
<1>1. lobby[l].host \in Seated(l) BY DEF IInv, RowsInv, HostSitsAtHisTable
<1>2. lobby[l].host \in Users \cup {Nobody} BY DEF IInv, LobbyTypeOK, LobbyRow
<1>3. Seated(l) \subseteq Users \cup Bots BY DEF IInv, LobbyTypeOK, MemberRow, Seated, Rows
<1>. QED BY <1>1, <1>2, <1>3, LobbyAssumption

\* Nothing happens to rows of people.
LEMMA Spares ==
  ASSUME IInv, LobbyOK, GameOK, BotOK, SweepOK, members' \subseteq members, PeopleStay, CallsGo
  PROVE IInv'
<1>1. HostsKeepTheirSeats BY Hosts DEF HostsKeepTheirSeats, PeopleStay, LobbyOK, NoneOpens
<1>. QED BY <1>1, Shrinks

LEMMA MembersRest == ASSUME UNCHANGED members PROVE members' \subseteq members /\ PeopleStay
BY DEF PeopleStay, Seated, Rows

\* A request is made, or goes on, and nothing else happens.
LEMMA OnlyCalls ==
  ASSUME IInv, UNCHANGED <<lobby, members, game, bot, deleted, sweep>>, CallsGo
  PROVE IInv'
BY Spares, LobbyRests, GameRests, BotRests, SweepRests, MembersRest

-----------------------------------------------------------------------------
(* Requests that are made. *)

LEMMA RowsTyped ==
  ASSUME IInv
  PROVE /\ members \subseteq MemberRow
        /\ \A l : Seated(l) \subseteq Users \cup Bots
        /\ \A u : \A m \in GuestRows(u) : m \in MemberRow /\ m.user = u /\ GuestOf(u, m.lobby)
<1>1. members \subseteq MemberRow BY DEF IInv, LobbyTypeOK
<1>2. \A l : Seated(l) \subseteq Users \cup Bots BY <1>1 DEF Seated, Rows, MemberRow
<1>3. \A u : \A m \in GuestRows(u) : m \in MemberRow /\ m.user = u /\ GuestOf(u, m.lobby)
  BY <1>1 DEF GuestRows, GuestOf, Made, MemberRow
<1>. QED BY <1>1, <1>2, <1>3

LEMMA JoinReadsKeeps ==
  ASSUME IInv, NEW c \in Calls, NEW u \in Users, NEW l \in Lobbies, JoinReads(c, u, l)
  PROVE IInv'
<1>1. PICK s \in Placement(l) : Send(c, "join", u, l, s, GuestRows(u)) BY DEF JoinReads
<1>2. UNCHANGED <<lobby, members, game, bot, deleted, sweep>> /\ Made(l) BY DEF JoinReads, Made
<1>. DEFINE r == [op |-> "join", by |-> u, at |-> l, seat |-> s, seen |-> GuestRows(u)]
<1>3. r \in CallRow BY RowsTyped DEF CallRow, Ops, Placement
<1>4. calls' = [calls EXCEPT ![c] = r] BY <1>1 DEF Send
<1>5. calls'[c] = r BY <1>4 DEF IInv, CallsInv
<1>6. \A v : GuestRows(v)' = GuestRows(v) BY <1>2 DEF GuestRows
<1>7. \A v, k : GuestOf(v, k)' <=> GuestOf(v, k) BY <1>2 DEF GuestOf, Made
<1>8. CallMeans(c)' BY <1>2, <1>3, <1>5, <1>6, <1>7, RowsTyped DEF CallMeans, Made
<1>. QED BY <1>2, <1>3, <1>4, <1>8, CallGoes, OnlyCalls DEF IInv

LEMMA CreateReadsKeeps ==
  ASSUME IInv, NEW c \in Calls, NEW u \in Users, NEW s \in {Judge, 1}, CreateReads(c, u, s)
  PROVE IInv'
<1>. DEFINE r == [op |-> "create", by |-> u, at |-> Nobody, seat |-> s, seen |-> {}]
<1>1. r \in CallRow BY LobbyAssumption DEF CallRow, Ops, Seats
<1>2. calls' = [calls EXCEPT ![c] = r] BY DEF CreateReads, Send
<1>3. calls'[c] = r BY <1>2 DEF IInv, CallsInv
<1>4. CallMeans(c)' BY <1>1, <1>3 DEF CallMeans
<1>. QED BY <1>1, <1>2, <1>4, CallGoes, OnlyCalls DEF IInv, CreateReads

LEMMA CreateSeesTablesKeeps ==
  ASSUME IInv, NEW c \in Calls, CreateSeesTables(c)
  PROVE IInv'
<1>. DEFINE seen == {m.lobby : m \in GuestRows(calls[c].by)}
            r == [calls[c] EXCEPT !.op = "named", !.seen = seen]
<1>1. calls[c] \in CallRow /\ calls[c].by \in Users /\ calls[c].op = "create"
  BY DEF CreateSeesTables, IInv, CallsInv, CallMeans
<1>2. \A l \in seen : GuestOf(calls[c].by, l) BY RowsTyped
<1>3. r \in CallRow BY <1>1, <1>2 DEF CallRow, Ops, GuestOf
<1>4. calls' = [calls EXCEPT ![c] = r] BY <1>1 DEF CreateSeesTables, IInv, CallsInv
<1>5. calls'[c] = r BY <1>4 DEF IInv, CallsInv
<1>6. r.op = "named" /\ r.by = calls[c].by /\ r.seen = seen BY <1>1 DEF CallRow
<1>7. \A v, k : GuestOf(v, k)' <=> GuestOf(v, k) BY DEF CreateSeesTables, GuestOf, Made
<1>. HIDE DEF r
<1>8. CallMeans(c)' BY <1>1, <1>2, <1>3, <1>5, <1>6, <1>7 DEF CallMeans
<1>. QED BY <1>3, <1>4, <1>6, <1>8, CallGoes, OnlyCalls DEF IInv, CreateSeesTables

LEMMA CloseReadsKeeps ==
  ASSUME IInv, NEW c \in Calls, NEW l \in Lobbies, CloseReads(c, l)
  PROVE IInv'
<1>. DEFINE r == [op |-> "close", by |-> Nobody, at |-> l, seat |-> Judge, seen |-> {}]
<1>1. r \in CallRow BY DEF CallRow, Ops
<1>2. calls' = [calls EXCEPT ![c] = r] BY DEF CloseReads, Send
<1>3. calls'[c] = r BY <1>2 DEF IInv, CallsInv
<1>4. CallMeans(c)' BY <1>1, <1>3 DEF CallMeans
<1>. QED BY <1>1, <1>2, <1>4, CallGoes, OnlyCalls DEF IInv, CloseReads

LEMMA FillReadsKeeps ==
  ASSUME IInv, NEW c \in Calls, NEW l \in Lobbies, FillReads(c, l)
  PROVE IInv'
<1>. DEFINE r == [op |-> "fill", by |-> Nobody, at |-> l, seat |-> Judge, seen |-> Seats \ Taken(l)]
<1>1. r \in CallRow BY DEF CallRow, Ops
<1>2. calls' = [calls EXCEPT ![c] = r] BY DEF FillReads, Send
<1>3. calls'[c] = r BY <1>2 DEF IInv, CallsInv
<1>4. Made(l)' /\ Seats \ Taken(l) # {} BY DEF FillReads, Made
<1>5. CallMeans(c)' BY <1>1, <1>3, <1>4 DEF CallMeans
<1>. QED BY <1>1, <1>2, <1>5, CallGoes, OnlyCalls DEF IInv, FillReads

LEMMA StartReadsKeeps ==
  ASSUME IInv, NEW c \in Calls, NEW l \in Lobbies, StartReads(c, l)
  PROVE IInv'
<1>1. PICK m \in Rows(l) : m.seat = Judge /\ Send(c, "start", m.user, l, Judge, Seated(l))
  BY DEF StartReads
<1>. DEFINE r == [op |-> "start", by |-> m.user, at |-> l, seat |-> Judge, seen |-> Seated(l)]
<1>2. m.user \in Users
  <2>1. m \in members /\ m \in MemberRow BY RowsTyped DEF Rows
  <2>2. m.user \notin Bots BY <1>1, <2>1 DEF IInv, RowsInv, BotsPlay
  <2>. QED BY <2>1, <2>2 DEF MemberRow
<1>3. Seated(l) \subseteq Users \cup Bots BY RowsTyped
<1>4. r \in CallRow BY <1>2, <1>3 DEF CallRow, Ops
<1>5. calls' = [calls EXCEPT ![c] = r] BY <1>1 DEF Send
<1>6. calls'[c] = r BY <1>5 DEF IInv, CallsInv
<1>7. CallMeans(c)' BY <1>2, <1>3, <1>4, <1>6 DEF CallMeans
<1>. QED BY <1>4, <1>5, <1>7, CallGoes, OnlyCalls DEF IInv, StartReads

-----------------------------------------------------------------------------
(* Requests that take somebody out, or close. *)

\* A row taken out of a lobby whose host is somebody else.
LEMMA TakesOut ==
  ASSUME IInv, LobbyOK, GameOK, BotOK, SweepOK, CallsGo, members' \subseteq members,
         \A m \in members \ members' :
            m.user \in Bots \/ lobby[m.lobby].host # m.user \/ lobby'[m.lobby].status # "WAITING"
  PROVE IInv'
<1>1. SUFFICES ASSUME NEW l \in Lobbies, lobby'[l].status = "WAITING"
               PROVE lobby[l].host \in Seated(l)'
  BY Shrinks DEF HostsKeepTheirSeats
<1>2. lobby[l].host \in Users /\ lobby[l].host \in Seated(l)
  BY <1>1, Hosts DEF LobbyOK, NoneOpens
<1>3. PICK m \in members : m.lobby = l /\ m.user = lobby[l].host BY <1>2 DEF Seated, Rows
<1>4. m \in members' BY <1>1, <1>2, <1>3, LobbyAssumption
<1>. QED BY <1>3, <1>4 DEF Seated, Rows

LEMMA CallForward ==
  ASSUME IInv, NEW c \in Calls, NEW op \in {"moving", "shut"}, Goes(c, op),
         op = "moving" => calls[c].op = "named",
         op = "shut" => calls[c].op \in {"ending", "close"}
  PROVE CallsGo
<1>. DEFINE r == [calls[c] EXCEPT !.op = op]
<1>1. calls[c] \in CallRow /\ CallMeans(c) BY DEF IInv, CallsInv
<1>2. r \in CallRow /\ r.op = op /\ r.by = calls[c].by /\ r.at = calls[c].at /\ r.seen = calls[c].seen
  BY <1>1 DEF CallRow, Ops
<1>3. calls' = [calls EXCEPT ![c] = r] BY <1>1 DEF Goes, IInv, CallsInv
<1>4. calls'[c] = r BY <1>3 DEF IInv, CallsInv
<1>. HIDE DEF r
<1>5. CallMeans(c)' BY <1>1, <1>2, <1>4 DEF CallMeans, GuestOf
<1>. QED BY <1>2, <1>3, <1>5, CallGoes DEF IInv

LEMMA LeavesTheTableKeeps ==
  ASSUME IInv, NEW c \in Calls, LeavesTheTable(c)
  PROVE IInv'
<1>. DEFINE call == calls[c]
<1>1. PICK l \in call.seen :
        /\ RemoveFromActiveGame(l, call.by)
        /\ IF call.seen = {l} /\ call.op = "evicted" THEN Ends(c)
           ELSE calls' = [calls EXCEPT ![c].seen = @ \ {l}]
  BY DEF LeavesTheTable
<1>2. call \in CallRow /\ CallMeans(c) /\ call.op \in {"evicted", "moving"} /\ call.seen \subseteq Lobbies
  BY DEF LeavesTheTable, IInv, CallsInv, CallMeans
<1>3. LobbyOK BY LobbyRests DEF LeavesTheTable
<1>4. GameOK /\ members' \subseteq members /\ BotOK /\ PeopleStay
  BY <1>1, <1>2, <1>3, RemoveFromActiveGamePreserves
<1>5. CallsGo
  <2>1. CASE Ends(c) BY <2>1, CallEnds DEF IInv
  <2>2. CASE calls' = [calls EXCEPT ![c].seen = @ \ {l}]
    <3>. DEFINE r == [call EXCEPT !.seen = call.seen \ {l}]
    <3>1. r \in CallRow /\ r.op = call.op /\ r.by = call.by /\ r.seen \subseteq Lobbies
      BY <1>2 DEF CallRow
    <3>2. calls' = [calls EXCEPT ![c] = r] BY <2>2 DEF IInv, CallsInv
    <3>3. calls'[c] = r BY <3>2 DEF IInv, CallsInv
    <3>. HIDE DEF r
    <3>4. CallMeans(c)' BY <1>2, <3>1, <3>3 DEF CallMeans
    <3>. QED BY <1>2, <3>1, <3>2, <3>4, CallGoes DEF IInv
  <2>. QED BY <1>1, <2>1, <2>2
<1>. QED BY <1>3, <1>4, <1>5, Spares, SweepRests DEF LeavesTheTable

LEMMA CreateEvictsKeeps ==
  ASSUME IInv, NEW c \in Calls, CreateEvicts(c)
  PROVE IInv'
<1>1. CallMeans(c) /\ calls[c].op = "named" BY DEF CreateEvicts, IInv, CallsInv
<1>2. CallsGo BY <1>1, CallForward DEF CreateEvicts
<1>3. \A m \in members \ members' : lobby[m.lobby].host # m.user
  BY <1>1 DEF CreateEvicts, CallMeans, GuestOf
<1>4. members' \subseteq members BY DEF CreateEvicts
<1>. QED BY <1>2, <1>3, <1>4, TakesOut, LobbyRests, GameRests, BotRests, SweepRests DEF CreateEvicts

LEMMA LeaveLobbyKeeps ==
  ASSUME IInv, NEW c \in Calls, NEW u \in Users, NEW l \in Lobbies, LeaveLobby(c, u, l)
  PROVE IInv'
<1>1. UNCHANGED <<game, bot, deleted, sweep>> BY DEF LeaveLobby
<1>2. CASE lobby[l].host = u
  <2>. DEFINE r == [op |-> "ending", by |-> u, at |-> l, seat |-> Judge, seen |-> {}]
  <2>1. r \in CallRow BY DEF CallRow, Ops
  <2>2. calls' = [calls EXCEPT ![c] = r] /\ UNCHANGED members /\ Close({l})
    BY <1>2 DEF LeaveLobby, Send
  <2>3. calls'[c] = r BY <2>2 DEF IInv, CallsInv
  <2>4. CallMeans(c)' BY <2>1, <2>3 DEF CallMeans
  <2>5. CallsGo BY <2>1, <2>2, <2>4, CallGoes DEF IInv
  <2>6. LobbyOK BY <2>2, ClosePreserves
  <2>. QED BY <1>1, <2>2, <2>5, <2>6, Spares, MembersRest, GameRests, BotRests, SweepRests
<1>3. CASE lobby[l].host # u
  <2>. DEFINE r == [op |-> "evicted", by |-> u, at |-> l, seat |-> Judge, seen |-> {l}]
  <2>1. r \in CallRow BY DEF CallRow, Ops
  <2>2. /\ calls' = [calls EXCEPT ![c] = r] /\ UNCHANGED lobby
        /\ members' = {m \in members : ~(m.lobby = l /\ m.user = u)}
    BY <1>3 DEF LeaveLobby, Send
  <2>3. calls'[c] = r BY <2>2 DEF IInv, CallsInv
  <2>4. CallMeans(c)' BY <2>1, <2>3 DEF CallMeans
  <2>5. CallsGo BY <2>1, <2>2, <2>4, CallGoes DEF IInv
  <2>6. LobbyOK BY <2>2, LobbyRests
  <2>7. \A m \in members \ members' : lobby[m.lobby].host # m.user BY <1>3, <2>2
  <2>8. members' \subseteq members BY <2>2
  <2>. QED BY <1>1, <2>5, <2>6, <2>7, <2>8, TakesOut, GameRests, BotRests, SweepRests
<1>. QED BY <1>2, <1>3

LEMMA EndsTheGameKeeps ==
  ASSUME IInv, NEW c \in Calls, EndsTheGame(c)
  PROVE IInv'
<1>1. calls[c].op \in {"ending", "close"} /\ calls[c].at \in Lobbies
  BY DEF EndsTheGame, IInv, CallsInv, CallMeans
<1>2. LobbyOK BY LobbyRests DEF EndsTheGame
<1>3. GameOK /\ members' \subseteq members /\ BotOK /\ PeopleStay
  BY <1>1, <1>2, EndActiveGamePreserves DEF EndsTheGame
<1>4. CallsGo BY <1>1, CallEnds, CallForward DEF EndsTheGame, IInv
<1>. QED BY <1>2, <1>3, <1>4, Spares, SweepRests DEF EndsTheGame

LEMMA CloseCommitsKeeps ==
  ASSUME IInv, NEW c \in Calls, CloseCommits(c)
  PROVE IInv'
<1>1. LobbyOK BY ClosePreserves DEF CloseCommits
<1>2. CallsGo BY CallEnds DEF CloseCommits, IInv
<1>. QED BY <1>1, <1>2, Spares, MembersRest, GameRests, BotRests, SweepRests DEF CloseCommits

LEMMA KickMemberKeeps ==
  ASSUME IInv, NEW l \in Lobbies, NEW target, KickMember(l, target)
  PROVE IInv'
<1>1. \A m \in members \ members' : lobby[m.lobby].host # m.user BY DEF KickMember
<1>2. members' \subseteq members BY DEF KickMember
<1>. QED BY <1>1, <1>2, TakesOut, LobbyRests, GameRests, BotRests, SweepRests, CallsRest
     DEF KickMember, IInv

-----------------------------------------------------------------------------
(* Games. *)

LEMMA StartCommitsKeeps ==
  ASSUME IInv, NEW c \in Calls, StartCommits(c)
  PROVE IInv'
<1>. DEFINE call == calls[c]
            l == call.at
<1>1. CallMeans(c) /\ call.op = "start" BY DEF StartCommits, IInv, CallsInv
<1>2. l \in Lobbies /\ call.by \in Users /\ call.seen \subseteq Users \cup Bots BY <1>1 DEF CallMeans
<1>3. CallsGo /\ UNCHANGED <<members, bot, deleted, sweep>> BY CallEnds DEF StartCommits, IInv
<1>4. CASE UNCHANGED <<lobby, game>>
  BY <1>3, <1>4, Spares, MembersRest, LobbyRests, GameRests, BotRests, SweepRests
<1>5. CASE /\ lobby' = [lobby EXCEPT ![l].status = "IN_GAME", ![l].old = FALSE]
           /\ game' = [game EXCEPT ![l] = [NoGame EXCEPT !.made = TRUE, !.judge = call.by,
                                                         !.seated = call.seen]]
  <2>. DEFINE r == [NoGame EXCEPT !.made = TRUE, !.judge = call.by, !.seated = call.seen]
  <2>1. r \in GameRow /\ r.made BY <1>2 DEF NoGame, GameRow
  <2>2. lobby \in [Lobbies -> LobbyRow] /\ game \in [Lobbies -> GameRow] BY DEF IInv, LobbyTypeOK
  <2>. HIDE DEF r
  <2>3. game' \in [Lobbies -> GameRow] /\ \A k \in Lobbies : game'[k] = IF k = l THEN r ELSE game[k]
    BY <1>2, <1>5, <2>1, <2>2 DEF r
  <2>4. lobby' \in [Lobbies -> LobbyRow]
        /\ \A k \in Lobbies : /\ lobby'[k].host = lobby[k].host
                              /\ lobby'[k].status = IF k = l THEN "IN_GAME" ELSE lobby[k].status
    BY <1>2, <1>5, <2>2 DEF LobbyRow
  <2>5. LobbyOK BY <2>4 DEF LobbyOK, LobbiesStay, NoneOpens, StartedStay, Started, Made
  <2>6. GameOK BY <2>1, <2>3, <2>4 DEF GameOK, GamesOfStarted, IInv
  <2>. QED BY <1>3, <2>5, <2>6, Spares, MembersRest, BotRests, SweepRests
<1>. QED BY <1>4, <1>5 DEF StartCommits

LEMMA GameFinishesKeeps ==
  ASSUME IInv, NEW l \in Lobbies, GameFinishes(l)
  PROVE IInv'
<1>1. game[l].made /\ Finished(l) BY DEF GameFinishes, Running
<1>2. LobbyOK BY LobbyRests DEF GameFinishes
<1>3. GameOK /\ members' \subseteq members /\ BotOK /\ PeopleStay BY <1>1, <1>2, FinishedPreserves
<1>. QED BY <1>2, <1>3, Spares, SweepRests, CallsRest DEF GameFinishes, IInv

\* Only somebody at a table can leave one, and where there is one nobody waits.
LEMMA PlayerLeavesGameKeeps ==
  ASSUME IInv, NEW u \in Users, NEW l \in Lobbies, PlayerLeavesGame(u, l)
  PROVE IInv'
<1>1. PICK decided \in {game[l].over, TRUE} :
        /\ game' = [game EXCEPT ![l].gone = @ \cup {u}, ![l].ended = decided, ![l].over = decided]
        /\ LET dropped == IF decided THEN game[l].seated \cap Bots ELSE {} IN
           /\ bot' = [b \in Bots |-> IF b \in dropped THEN "deleted" ELSE bot[b]]
           /\ members' = {m \in members : m.user \notin dropped /\ ~(m.lobby = l /\ m.user = u)}
  BY DEF PlayerLeavesGame
<1>2. game \in [Lobbies -> GameRow] /\ bot \in [Bots -> {"unborn", "row", "deleted"}]
  BY DEF IInv, LobbyTypeOK
<1>3. game[l].made /\ lobby[l].status \in Started
  BY DEF PlayerLeavesGame, Players, IInv, GamesOfStarted, NoGame, Started
<1>4. decided \in BOOLEAN BY <1>2 DEF GameRow
<1>. DEFINE r == [game[l] EXCEPT !.gone = @ \cup {u}, !.ended = decided, !.over = decided]
<1>5. r \in GameRow /\ r.made BY <1>2, <1>3, <1>4 DEF GameRow
<1>6. game' = [game EXCEPT ![l] = r] BY <1>1, <1>2
<1>. HIDE DEF r
<1>7. LobbyOK /\ UNCHANGED lobby BY LobbyRests DEF PlayerLeavesGame
<1>8. GameOK BY <1>3, <1>5, <1>6, <1>7, GamePlays
<1>9. BotOK BY <1>1, <1>2 DEF BotOK, BornStay
<1>10. members' \subseteq members BY <1>1
<1>11. \A m \in members \ members' : m.user \in Bots \/ lobby'[m.lobby].status # "WAITING"
  BY <1>1, <1>3, <1>7 DEF Started
<1>. QED BY <1>7, <1>8, <1>9, <1>10, <1>11, TakesOut, SweepRests, CallsRest
     DEF PlayerLeavesGame, IInv

LEMMA JudgeLeavesGameKeeps ==
  ASSUME IInv, NEW l \in Lobbies, JudgeLeavesGame(l)
  PROVE IInv'
<1>1. game[l].made
  BY LobbyAssumption DEF JudgeLeavesGame, People, IInv, GamesOfStarted, NoGame
<1>2. LobbyOK BY ClosePreserves DEF JudgeLeavesGame
<1>3. GameOK /\ members' \subseteq members /\ BotOK /\ PeopleStay
  BY <1>1, <1>2, FinishedPreserves DEF JudgeLeavesGame
<1>. QED BY <1>2, <1>3, Spares, SweepRests, CallsRest DEF JudgeLeavesGame, IInv

-----------------------------------------------------------------------------
(* The sweeper and the world around. *)

LEMMA SweepReadsKeeps ==
  ASSUME IInv, SweepReads
  PROVE IInv'
<1>1. SweepOK
  <2>1. Orphans \subseteq Bots BY DEF Orphans
  <2>2. sweep'.at = "delete" => sweep'.ids \subseteq Bots BY <2>1 DEF SweepReads, Stage
  <2>. QED BY <2>2 DEF SweepReads, SweepOK, SweptBots, IInv, LobbyTypeOK
<1>. QED BY <1>1, Spares, MembersRest, LobbyRests, GameRests, BotRests, CallsRest DEF SweepReads, IInv

LEMMA SweepExpiresKeeps ==
  ASSUME IInv, SweepExpires
  PROVE IInv'
<1>1. LobbyOK BY ClosePreserves DEF SweepExpires
<1>2. SweepOK BY DEF SweepExpires, Stage, SweepOK, SweptBots, IInv, LobbyTypeOK
<1>. QED BY <1>1, <1>2, Spares, MembersRest, GameRests, BotRests, CallsRest DEF SweepExpires, IInv

LEMMA SweepEndsZombiesKeeps ==
  ASSUME IInv, SweepEndsZombies
  PROVE IInv'
<1>. DEFINE ends == {l \in sweep.ids : Running(l)}
            gone == UNION {game[l].seated \cap Bots : l \in ends}
<1>1. /\ game' = [l \in Lobbies |-> IF l \in ends THEN [game[l] EXCEPT !.ended = TRUE, !.over = TRUE]
                                                  ELSE game[l]]
      /\ DropBots(gone) /\ Stage("shut", sweep.ids)
      /\ UNCHANGED <<lobby, deleted, calls>>
  BY DEF SweepEndsZombies
<1>2. gone \in SUBSET Bots OBVIOUS
<1>3. LobbyOK BY <1>1, LobbyRests
<1>4. game \in [Lobbies -> GameRow] BY DEF IInv, LobbyTypeOK
<1>5. \A l \in Lobbies : game'[l] \in GameRow /\ IF game[l].made THEN game'[l].made
                                                  ELSE game'[l] = game[l]
  BY <1>1, <1>4 DEF GameRow, Running
<1>6. game' \in [Lobbies -> GameRow] BY <1>1, <1>5
<1>7. GameOK BY <1>1, <1>5, <1>6 DEF GameOK, GamesOfStarted, IInv
<1>8. SweepOK BY <1>1 DEF Stage, SweepOK, SweptBots, IInv, LobbyTypeOK
<1>9. members' \subseteq members /\ BotOK /\ PeopleStay BY <1>1, <1>2, DropBotsPreserves
<1>. QED BY <1>1, <1>3, <1>7, <1>8, <1>9, Spares, CallsRest DEF IInv

LEMMA SweepClosesZombiesKeeps ==
  ASSUME IInv, SweepClosesZombies
  PROVE IInv'
<1>1. LobbyOK BY ClosePreserves DEF SweepClosesZombies
<1>2. SweepOK BY DEF SweepClosesZombies, Stage, SweepOK, SweptBots, IInv, LobbyTypeOK
<1>. QED BY <1>1, <1>2, Spares, MembersRest, GameRests, BotRests, CallsRest DEF SweepClosesZombies, IInv

LEMMA SweepDeletesOrphansKeeps ==
  ASSUME IInv, SweepDeletesOrphans
  PROVE IInv'
<1>1. sweep.ids \in SUBSET Bots BY DEF SweepDeletesOrphans, IInv, SweptBots
<1>2. members' \subseteq members /\ BotOK /\ PeopleStay
  BY <1>1, DropBotsPreserves DEF SweepDeletesOrphans
<1>3. SweepOK BY DEF SweepDeletesOrphans, Stage, SweepOK, SweptBots, IInv, LobbyTypeOK
<1>. QED BY <1>2, <1>3, Spares, LobbyRests, GameRests, CallsRest DEF SweepDeletesOrphans, IInv

LEMMA GrowsOldKeeps ==
  ASSUME IInv, NEW l \in Lobbies, GrowsOld(l)
  PROVE IInv'
<1>1. lobby \in [Lobbies -> LobbyRow] BY DEF IInv, LobbyTypeOK
<1>2. lobby' \in [Lobbies -> LobbyRow]
      /\ \A k \in Lobbies : lobby'[k].host = lobby[k].host /\ lobby'[k].status = lobby[k].status
  BY <1>1 DEF GrowsOld, LobbyRow
<1>3. LobbyOK BY <1>2 DEF LobbyOK, LobbiesStay, NoneOpens, StartedStay, Made
<1>. QED BY <1>3, Spares, MembersRest, GameRests, BotRests, SweepRests, CallsRest DEF GrowsOld, IInv

\* The lobbies somebody hosted are closed when his rows go.
LEMMA DeleteAccountKeeps ==
  ASSUME IInv, NEW u \in Users, DeleteAccount(u)
  PROVE IInv'
<1>1. LobbyOK /\ \A l \in Lobbies : lobby'[l].status = "WAITING" => lobby[l].host # u
  BY ClosePreserves DEF DeleteAccount
<1>2. members' \subseteq members BY DEF DeleteAccount
<1>3. \A m \in members \ members' : lobby[m.lobby].host # m.user \/ lobby'[m.lobby].status # "WAITING"
  BY <1>1, RowsTyped DEF DeleteAccount, MemberRow
<1>4. SweepOK BY DEF DeleteAccount, People, SweepOK, SweptBots, IInv, LobbyTypeOK
<1>. QED BY <1>1, <1>2, <1>3, <1>4, TakesOut, GameRests, BotRests, CallsRest DEF DeleteAccount, IInv

LEMMA CrashKeeps ==
  ASSUME IInv, Crash
  PROVE IInv'
<1>1. SweepOK BY DEF Crash, Asleep, SweepOK, SweptBots, IInv, LobbyTypeOK
<1>2. CallsGo
  <2>1. Idle \in CallRow /\ Answered \in CallRow BY DEF Answered, Idle, CallRow, Ops
  <2>2. calls' \in [Calls -> CallRow] /\ \A c \in Calls : calls'[c] \in {Idle, Answered}
    BY <2>1 DEF Crash
  <2>3. Idle.op # "seat" /\ Answered.op # "seat" BY DEF Answered, Idle
  <2>. QED BY <2>2, <2>3, RequestMeans DEF CallsGo
<1>. QED BY <1>1, <1>2, Spares, MembersRest, LobbyRests, GameRests, BotRests DEF Crash

-----------------------------------------------------------------------------
(* A row that changes. *)

LEMMA RowChanges ==
  ASSUME IInv, UNCHANGED <<lobby, game, bot, deleted, calls, sweep>>,
         NEW m \in members, NEW n \in MemberRow, n.lobby = m.lobby, n.user = m.user, m.user \in Users,
         n.seat = m.seat \/ n.seat \notin Taken(m.lobby), members' = (members \ {m}) \cup {n}
  PROVE IInv'
<1>1. LobbyOK /\ GameOK /\ BotOK /\ SweepOK BY LobbyRests, GameRests, BotRests, SweepRests
<1>2. members \subseteq MemberRow BY RowsTyped
<1>3. \A k \in members : k.lobby = n.lobby /\ (k.seat = n.seat \/ k.user = n.user) => k = m
  <2>. SUFFICES ASSUME NEW k \in members, k.lobby = m.lobby, k.seat = n.seat \/ k.user = m.user
                PROVE k = m
    OBVIOUS
  <2>1. n.seat = m.seat \/ k.seat # n.seat BY DEF Taken, Rows
  <2>. QED BY <2>1 DEF IInv, LobbyTypeOK
<1>4. LobbyTypeOK' BY <1>2, <1>3 DEF IInv, LobbyTypeOK
<1>5. \A u : \A k \in GuestRows(u)' :
        /\ k = n => m \in GuestRows(u) /\ m.lobby = k.lobby
        /\ k # n => k \in GuestRows(u) /\ k # m
  BY DEF GuestRows
<1>6. \A u \in Users : NoNewGuest(u) BY <1>5 DEF NoNewGuest
<1>7. \A b \in Bots : NoNewBot(b) BY DEF NoNewBot
<1>8. CallsInv' BY <1>1, <1>6, <1>7, CallsKept, CallsRest DEF IInv, LobbyOK, BotOK
<1>9. RowsOfLobbies' BY DEF IInv, RowsInv, RowsOfLobbies, Made
<1>10. BotsPlay' BY LobbyAssumption DEF IInv, RowsInv, BotsPlay
<1>11. GuestOfOneTable' BY <1>5 DEF IInv, RowsInv, GuestOfOneTable
<1>12. HostSitsAtHisTable' BY DEF IInv, RowsInv, HostSitsAtHisTable, Seated, Rows
<1>. QED BY <1>1, <1>4, <1>8, <1>9, <1>10, <1>11, <1>12 DEF IInv, RowsInv, GameOK, SweepOK

LEMMA SetReadyKeeps ==
  ASSUME IInv, NEW u \in Users, NEW l \in Lobbies, NEW ready \in BOOLEAN, SetReady(u, l, ready)
  PROVE IInv'
<1>1. PICK m \in Rows(l) : m.user = u /\ Update(m, [m EXCEPT !.ready = ready]) BY DEF SetReady
<1>. DEFINE n == [m EXCEPT !.ready = ready]
<1>2. m \in members /\ m \in MemberRow BY RowsTyped DEF Rows
<1>3. n \in MemberRow /\ n.lobby = m.lobby /\ n.user = m.user /\ n.seat = m.seat BY <1>2 DEF MemberRow
<1>4. members' = (members \ {m}) \cup {n} BY <1>1 DEF Update
<1>. HIDE DEF n
<1>. QED BY <1>1, <1>2, <1>3, <1>4, RowChanges DEF SetReady

LEMMA ResetReadyKeeps ==
  ASSUME IInv, NEW u \in Users, NEW l \in Lobbies, ResetReady(u, l)
  PROVE IInv'
<1>1. PICK m \in Rows(l) : m.user = u /\ Update(m, [m EXCEPT !.ready = FALSE]) BY DEF ResetReady
<1>. DEFINE n == [m EXCEPT !.ready = FALSE]
<1>2. m \in members /\ m \in MemberRow BY RowsTyped DEF Rows
<1>3. n \in MemberRow /\ n.lobby = m.lobby /\ n.user = m.user /\ n.seat = m.seat BY <1>2 DEF MemberRow
<1>4. members' = (members \ {m}) \cup {n} BY <1>1 DEF Update
<1>. HIDE DEF n
<1>. QED BY <1>1, <1>2, <1>3, <1>4, RowChanges DEF ResetReady

LEMMA ClaimJudgeSeatKeeps ==
  ASSUME IInv, NEW u \in Users, NEW l \in Lobbies, ClaimJudgeSeat(u, l)
  PROVE IInv'
<1>1. PICK m \in Rows(l) : m.user = u /\ Update(m, [m EXCEPT !.seat = Judge, !.ready = FALSE])
  BY DEF ClaimJudgeSeat
<1>. DEFINE n == [m EXCEPT !.seat = Judge, !.ready = FALSE]
<1>2. m \in members /\ m \in MemberRow /\ m.lobby = l BY RowsTyped DEF Rows
<1>3. n \in MemberRow /\ n.lobby = m.lobby /\ n.user = m.user /\ n.seat = Judge BY <1>2 DEF MemberRow
<1>4. members' = (members \ {m}) \cup {n} BY <1>1 DEF Update
<1>5. n.seat \notin Taken(m.lobby) BY <1>2, <1>3 DEF ClaimJudgeSeat
<1>. HIDE DEF n
<1>. QED BY <1>1, <1>2, <1>3, <1>4, <1>5, RowChanges DEF ClaimJudgeSeat

-----------------------------------------------------------------------------
(* A row that is new. *)

\* Some rows go and one comes, for a seat and a user the lobby does not have.
LEMMA RowComes ==
  ASSUME IInv, NEW row \in MemberRow, NEW Stay \in SUBSET members, members' = Stay \cup {row},
         \A m \in Stay : m.lobby = row.lobby => m.seat # row.seat /\ m.user # row.user,
         UNCHANGED <<game, deleted>>, lobby' \in [Lobbies -> LobbyRow],
         bot' \in [Bots -> {"unborn", "row", "deleted"}]
  PROVE LobbyTypeOK'
<1>1. members \subseteq MemberRow BY RowsTyped
<1>2. \A m, n \in Stay : m.lobby = n.lobby /\ (m.seat = n.seat \/ m.user = n.user) => m = n
  BY DEF IInv, LobbyTypeOK
<1>. QED BY <1>1, <1>2 DEF IInv, LobbyTypeOK

\* A join that serializes leaves its user no other table to wait at: it has read all
\* of them, none has been joined since (that request would have ended it), and
\* the rows it has read are still there.
LEMMA JoinCommitsKeeps ==
  ASSUME IInv, NEW c \in Calls, JoinCommits(c)
  PROVE IInv'
<1>. DEFINE call == calls[c]
            row == [lobby |-> call.at, user |-> call.by, seat |-> call.seat, ready |-> FALSE]
            evicted == {m.lobby : m \in call.seen}
            serializes == call.seen \subseteq members /\ call.seat \notin Taken(call.at)
                                                      /\ call.by \notin Seated(call.at)
<1>1. call.op = "join" /\ UNCHANGED <<lobby, game, bot, deleted, sweep>> BY Zenon DEF JoinCommits
<1>2. IF serializes
      THEN /\ members' = (members \ call.seen) \cup {row}
           /\ calls' = [d \in Calls |->
                IF d = c THEN IF evicted = {} THEN Answered
                              ELSE [call EXCEPT !.op = "evicted", !.seen = evicted]
                ELSE IF Conflicts(d, call) THEN Answered ELSE calls[d]]
      ELSE Ends(c) /\ UNCHANGED members
  BY Zenon DEF JoinCommits
<1>3. CallMeans(c) /\ call \in CallRow /\ call.at \in Lobbies /\ call.by \in Users /\ Made(call.at)
  BY <1>1 DEF IInv, CallsInv, CallMeans
<1>4. LobbyOK /\ GameOK /\ BotOK /\ SweepOK BY <1>1, LobbyRests, GameRests, BotRests, SweepRests
<1>5. CASE ~serializes
  <2>1. Ends(c) /\ UNCHANGED members BY <1>2, <1>5, Zenon
  <2>. QED BY <1>4, <2>1, CallEnds, MembersRest, Spares DEF IInv
<1>6. CASE serializes
  <2>. DEFINE r == IF evicted = {} THEN Answered ELSE [call EXCEPT !.op = "evicted", !.seen = evicted]
  <2>1. /\ members' = (members \ call.seen) \cup {row}
        /\ calls' = [d \in Calls |-> IF d = c THEN r
                                     ELSE IF Conflicts(d, call) THEN Answered ELSE calls[d]]
    BY <1>2, <1>6, Zenon
  <2>2. evicted \subseteq Lobbies BY <1>1, <1>3 DEF CallMeans, GuestOf
  <2>3. r \in CallRow /\ r.op \in {"answered", "evicted"}
         /\ (r.op = "evicted" => r.by = call.by /\ r.seen = evicted)
    BY <1>3, <2>2 DEF CallRow, Ops, Answered, Idle
  <2>. HIDE DEF r
  <2>4. /\ row \in MemberRow /\ row.lobby = call.at /\ row.user = call.by /\ row.seat = call.seat
        /\ Made(row.lobby) /\ row.user \in Users
    BY <1>3 DEF CallRow, MemberRow
  <2>5. \A m \in members : m.lobby = call.at => m.seat # call.seat /\ m.user # call.by
    BY <1>6 DEF Taken, Seated, Rows
  <2>6. \A m \in members : m \in GuestRows(call.by) => m \in call.seen
    <3>. SUFFICES ASSUME NEW m \in members, m \in GuestRows(call.by) PROVE m \in call.seen OBVIOUS
    <3>1. PICK n \in call.seen : n.lobby = m.lobby BY <1>1, <1>3 DEF CallMeans
    <3>2. n \in members /\ n.user = m.user BY <1>1, <1>3, <1>6 DEF CallMeans, GuestRows
    <3>. QED BY <3>1, <3>2 DEF IInv, LobbyTypeOK
  <2>7. members' = (members \ call.seen) \cup {row} BY <2>1
  <2>8. \A m \in call.seen : \A l \in Lobbies : m.lobby = l => lobby[l].host # m.user
    BY <1>1, <1>3 DEF CallMeans, GuestOf
  <2>. HIDE DEF row
  <2>9. LobbyTypeOK'
    <3>. DEFINE Stay == members \ call.seen
    <3>1. Stay \in SUBSET members /\ members' = Stay \cup {row} BY <2>7
    <3>2. \A m \in Stay : m.lobby = row.lobby => m.seat # row.seat /\ m.user # row.user BY <2>4, <2>5
    <3>3. UNCHANGED <<game, deleted>> BY <1>1
    <3>4. lobby' \in [Lobbies -> LobbyRow] /\ bot' \in [Bots -> {"unborn", "row", "deleted"}]
      BY <1>4 DEF LobbyOK, BotOK
    <3>5. row \in MemberRow BY <2>4
    <3>. HIDE DEF Stay
    <3>. QED BY <3>1, <3>2, <3>3, <3>4, <3>5, RowComes
  <2>10. \A u : \A m \in GuestRows(u)' :
          /\ m # row => m \in GuestRows(u) /\ u # call.by
          /\ m = row => u = call.by
    BY <1>1, <2>4, <2>6, <2>7 DEF GuestRows
  <2>11. GuestOfOneTable'
    <3>. SUFFICES ASSUME NEW u \in Users, NEW m \in GuestRows(u)', NEW n \in GuestRows(u)' PROVE m = n
      BY DEF GuestOfOneTable
    <3>. QED BY <2>10 DEF IInv, RowsInv, GuestOfOneTable
  <2>12. \A u \in Users : u # call.by => NoNewGuest(u) BY <2>10 DEF NoNewGuest
  <2>13. \A b \in Bots : NoNewBot(b) BY <2>4, <2>7, LobbyAssumption DEF NoNewBot
  <2>14. Answered \in CallRow /\ Answered.op = "answered" BY DEF Answered, Idle, CallRow, Ops
  <2>15. calls' \in [Calls -> CallRow] BY <2>1, <2>3, <2>14 DEF IInv, CallsInv
  <2>16. calls'[c] = r BY <2>1
  <2>17. CallMeans(c)' BY <1>3, <2>2, <2>3, <2>16 DEF CallMeans
  <2>18. \A d \in Calls : d # c => CallMeans(d)'
    <3>. SUFFICES ASSUME NEW d \in Calls, d # c PROVE CallMeans(d)' OBVIOUS
    <3>1. CASE Conflicts(d, call) BY <2>1, <3>1, RequestMeans
    <3>2. CASE ~Conflicts(d, call)
      <4>1. calls'[d] = calls[d] /\ CallMeans(d) BY <2>1, <3>2 DEF IInv, CallsInv
      <4>2. calls[d].op = "join" => NoNewGuest(calls[d].by)
        BY <2>12, <3>2, <4>1 DEF Conflicts, CallMeans
      <4>3. calls[d].op = "seat" => NoNewBot(calls[d].by) BY <2>13, <4>1 DEF CallMeans
      <4>. QED BY <1>4, <4>1, <4>2, <4>3, CallKept DEF LobbyOK, BotOK
    <3>. QED BY <3>1, <3>2
  <2>19. BotsApart'
    <3>1. \A d \in Calls : calls'[d].op = "seat" => calls'[d] = calls[d] BY <2>1, <2>3, <2>14
    <3>. QED BY <3>1 DEF BotsApart, IInv, CallsInv
  <2>20. CallsInv' BY <2>15, <2>17, <2>18, <2>19 DEF CallsInv
  <2>21. RowsOfLobbies' BY <1>1, <2>4, <2>7 DEF IInv, RowsInv, RowsOfLobbies, Made
  <2>22. BotsPlay' BY <1>1, <2>4, <2>7, LobbyAssumption DEF IInv, RowsInv, BotsPlay
  <2>23. HostSitsAtHisTable'
    <3>. SUFFICES ASSUME NEW l \in Lobbies, lobby[l].status = "WAITING"
                  PROVE \E m \in members' : m.lobby = l /\ m.user = lobby[l].host
      BY <1>1 DEF HostSitsAtHisTable, Seated, Rows
    <3>1. PICK m \in members : m.lobby = l /\ m.user = lobby[l].host
      BY DEF IInv, RowsInv, HostSitsAtHisTable, Seated, Rows
    <3>2. m \notin call.seen BY <2>8, <3>1
    <3>. QED BY <2>7, <3>1, <3>2
  <2>. QED BY <1>4, <2>9, <2>11, <2>20, <2>21, <2>22, <2>23 DEF IInv, RowsInv, GameOK, SweepOK
<1>. QED BY <1>5, <1>6

\* A new lobby has its host in it, and nobody else: no row was ever of a lobby that was not.
LEMMA CreateInsertsKeeps ==
  ASSUME IInv, NEW c \in Calls, CreateInserts(c)
  PROVE IInv'
<1>. DEFINE call == calls[c]
<1>1. CallMeans(c) /\ call \in CallRow /\ call.by \in Users
  BY DEF CreateInserts, IInv, CallsInv, CallMeans
<1>2. UNCHANGED <<game, bot, deleted, sweep>> /\ CallsGo BY CallEnds DEF CreateInserts, IInv
<1>3. BotOK /\ SweepOK BY <1>2, BotRests, SweepRests
<1>4. CASE Hosting(call.by) # {}
  <2>1. UNCHANGED <<lobby, members>> BY <1>4 DEF CreateInserts
  <2>. QED BY <1>2, <2>1, OnlyCalls
<1>5. CASE Hosting(call.by) = {}
  <2>. DEFINE opened == [status |-> "WAITING", host |-> call.by, old |-> FALSE]
  <2>1. PICK l \in Lobbies :
          /\ lobby[l].status = "NONE"
          /\ lobby' = [lobby EXCEPT ![l] = opened]
          /\ members' = members \cup {[lobby |-> l, user |-> call.by, seat |-> call.seat, ready |-> FALSE]}
    BY <1>5 DEF CreateInserts
  <2>. DEFINE row == [lobby |-> l, user |-> call.by, seat |-> call.seat, ready |-> FALSE]
  <2>2. row \in MemberRow /\ row.lobby = l /\ row.user = call.by BY <1>1 DEF CallRow, MemberRow
  <2>3. opened \in LobbyRow /\ opened.status = "WAITING" /\ opened.host = call.by BY <1>1 DEF LobbyRow
  <2>4. members' = members \cup {row} BY <2>1
  <2>. HIDE DEF row, opened
  <2>5. lobby \in [Lobbies -> LobbyRow] BY DEF IInv, LobbyTypeOK
  <2>6. lobby' \in [Lobbies -> LobbyRow] /\ lobby'[l] = opened
        /\ \A k \in Lobbies : k # l => lobby'[k] = lobby[k]
    BY <2>1, <2>3, <2>5
  <2>7. \A m \in members : m \in MemberRow /\ m.lobby \in Lobbies /\ m.lobby # l /\ Made(m.lobby)
    BY <2>1, RowsTyped DEF MemberRow, IInv, RowsInv, RowsOfLobbies, Made
  <2>8. LobbiesStay BY <2>1, <2>6 DEF LobbiesStay, Made
  <2>9. GamesOfStarted' BY <1>2, <2>1, <2>6 DEF IInv, GamesOfStarted
  <2>10. LobbyTypeOK'
    <3>1. members \in SUBSET members /\ \A m \in members : m.lobby = row.lobby => FALSE BY <2>2, <2>7
    <3>. QED BY <1>2, <1>3, <2>2, <2>4, <2>6, <3>1, RowComes DEF BotOK
  <2>11. \A u \in Users : \A m \in GuestRows(u)' : m \in GuestRows(u)
    BY <2>2, <2>3, <2>4, <2>6, <2>7 DEF GuestRows
  <2>12. \A u \in Users : NoNewGuest(u) BY <2>11 DEF NoNewGuest
  <2>13. \A b \in Bots : NoNewBot(b) BY <1>1, <2>2, <2>4, LobbyAssumption DEF NoNewBot
  <2>14. CallsInv' BY <1>2, <1>3, <2>8, <2>12, <2>13, CallsKept DEF IInv, BotOK
  <2>15. RowsOfLobbies' BY <2>2, <2>3, <2>4, <2>6, <2>7 DEF RowsOfLobbies, Made
  <2>16. BotsPlay' BY <1>1, <1>2, <2>2, <2>4, LobbyAssumption DEF IInv, RowsInv, BotsPlay
  <2>17. GuestOfOneTable' BY <2>11 DEF IInv, RowsInv, GuestOfOneTable
  <2>18. HostSitsAtHisTable'
    <3>. SUFFICES ASSUME NEW k \in Lobbies, lobby'[k].status = "WAITING"
                  PROVE \E m \in members' : m.lobby = k /\ m.user = lobby'[k].host
      BY DEF HostSitsAtHisTable, Seated, Rows
    <3>1. CASE k = l BY <2>2, <2>3, <2>4, <2>6, <3>1
    <3>2. CASE k # l
      <4>1. lobby'[k] = lobby[k] BY <2>6, <3>2
      <4>2. \E m \in members : m.lobby = k /\ m.user = lobby[k].host
        BY <4>1 DEF IInv, RowsInv, HostSitsAtHisTable, Seated, Rows
      <4>. QED BY <2>4, <4>1, <4>2
    <3>. QED BY <3>1, <3>2
  <2>. QED BY <1>3, <2>9, <2>10, <2>14, <2>15, <2>16, <2>17, <2>18 DEF IInv, RowsInv, SweepOK
<1>. QED BY <1>4, <1>5

-----------------------------------------------------------------------------
(* Bots. *)

\* The new bot has no seat: only rows of bots that were born are in any lobby.
LEMMA FillCreatesBotKeeps ==
  ASSUME IInv, NEW c \in Calls, FillCreatesBot(c)
  PROVE IInv'
<1>1. PICK b \in Bots :
        /\ bot[b] = "unborn" /\ bot' = [bot EXCEPT ![b] = "row"]
        /\ calls' = [calls EXCEPT ![c].op = "seat", ![c].by = b]
  BY DEF FillCreatesBot
<1>2. calls[c].op = "fill" /\ UNCHANGED <<lobby, members, game, deleted, sweep>> BY DEF FillCreatesBot
<1>3. calls \in [Calls -> CallRow] /\ CallMeans(c) BY DEF IInv, CallsInv
<1>4. bot \in [Bots -> {"unborn", "row", "deleted"}] BY DEF IInv, LobbyTypeOK
<1>5. BotOK /\ bot'[b] = "row" BY <1>1, <1>4 DEF BotOK, BornStay
<1>6. LobbyOK /\ GameOK /\ SweepOK BY <1>2, LobbyRests, GameRests, SweepRests
<1>. DEFINE r == [calls[c] EXCEPT !.op = "seat", !.by = b]
<1>7. /\ r \in CallRow /\ r.op = "seat" /\ r.by = b
      /\ r.at = calls[c].at /\ r.seen = calls[c].seen
  BY <1>3 DEF CallRow, Ops
<1>8. calls' = [calls EXCEPT ![c] = r] BY <1>1, <1>3
<1>. HIDE DEF r
<1>9. calls' \in [Calls -> CallRow] /\ calls'[c] = r /\ \A d \in Calls : d # c => calls'[d] = calls[d]
  BY <1>3, <1>7, <1>8
<1>10. \A m \in members : m.user # b BY <1>1 DEF IInv, RowsInv, BotsPlay
<1>11. CallMeans(c)' BY <1>2, <1>3, <1>5, <1>7, <1>9, <1>10 DEF CallMeans, Made
<1>12. (\A u : NoNewGuest(u)) /\ \A d : NoNewBot(d) BY <1>2 DEF NoNewGuest, NoNewBot, GuestRows
<1>13. \A d \in Calls : d # c => CallMeans(d)'
  <2>. SUFFICES ASSUME NEW d \in Calls, d # c PROVE CallMeans(d)' OBVIOUS
  <2>1. CallMeans(d) /\ calls'[d] = calls[d] BY <1>9 DEF IInv, CallsInv
  <2>. QED BY <1>5, <1>6, <1>12, <2>1, CallKept DEF LobbyOK, BotOK
<1>14. BotsApart'
  <2>1. \A d \in Calls : calls[d].op = "seat" => calls[d].by # b BY <1>1 DEF IInv, CallsInv, CallMeans
  <2>. QED BY <1>7, <1>9, <2>1 DEF BotsApart, IInv, CallsInv
<1>15. CallsInv' BY <1>9, <1>11, <1>13, <1>14 DEF CallsInv
<1>16. LobbyTypeOK' BY <1>2, <1>5 DEF IInv, LobbyTypeOK, BotOK
<1>17. RowsOfLobbies' /\ GuestOfOneTable' /\ HostSitsAtHisTable'
  BY <1>2 DEF IInv, RowsInv, RowsOfLobbies, Made, GuestOfOneTable, GuestRows, HostSitsAtHisTable, Seated, Rows
<1>18. BotsPlay' BY <1>2, <1>5 DEF IInv, RowsInv, BotsPlay, BotOK, BornStay
<1>. QED BY <1>6, <1>15, <1>16, <1>17, <1>18 DEF IInv, RowsInv, GameOK, SweepOK

LEMMA LeastExists ==
  ASSUME NEW T, T \subseteq Nat, T # {}
  PROVE \E x \in T : \A y \in T : x <= y
<1>1. PICK x \in T : \A y \in T : ~(<<y, x>> \in OpToRel(<, Nat))
  BY NatLessThanWellFounded, WFMin
<1>2. \A y \in T : ~(y < x) BY <1>1, ZenonT(20) DEF OpToRel
<1>. QED BY <1>2


\* A request seats only the bot it made, which is nowhere, on the lowest seat it read as
\* free, and only if that still is.
LEMMA FillSeatsBotKeeps ==
  ASSUME IInv, NEW c \in Calls, FillSeatsBot(c)
  PROVE IInv'
<1>. DEFINE call == calls[c]
            s == CHOOSE x \in call.seen : \A y \in call.seen : x <= y
<1>1. call.op = "seat" /\ UNCHANGED <<lobby, game, bot, deleted, sweep>> BY DEF FillSeatsBot
<1>2. CallMeans(c) /\ call \in CallRow /\ calls \in [Calls -> CallRow]
  BY DEF IInv, CallsInv, CallMeans
<1>3. /\ call.at \in Lobbies /\ Made(call.at) /\ call.by \in Bots /\ bot[call.by] # "unborn"
      /\ call.seen \subseteq Seats /\ call.seen # {} /\ \A m \in members : m.user # call.by
  BY <1>1, <1>2 DEF CallMeans
<1>4. LobbyOK /\ GameOK /\ BotOK /\ SweepOK BY <1>1, LobbyRests, GameRests, BotRests, SweepRests
<1>5. s \in Seats
  <2>1. call.seen \subseteq Nat BY <1>3, LobbyAssumption DEF Seats
  <2>2. \E x \in call.seen : \A y \in call.seen : x <= y BY <1>3, <2>1, LeastExists
  <2>. QED BY <1>3, <2>2
<1>. HIDE DEF s
<1>6. CASE s \in Taken(call.at) \/ bot[call.by] # "row"
  <2>1. Ends(c) /\ UNCHANGED members BY <1>6 DEF FillSeatsBot, s
  <2>. QED BY <1>4, <2>1, CallEnds, MembersRest, Spares DEF IInv
<1>7. CASE ~(s \in Taken(call.at) \/ bot[call.by] # "row")
  <2>. DEFINE row == [lobby |-> call.at, user |-> call.by, seat |-> s, ready |-> TRUE]
              next == [call EXCEPT !.op = "fill", !.by = Nobody, !.seen = @ \ {s}]
  <2>1. /\ members' = members \cup {row}
        /\ IF call.seen = {s} THEN Ends(c)
           ELSE calls' = [calls EXCEPT ![c].op = "fill", ![c].by = Nobody, ![c].seen = @ \ {s}]
    BY <1>7 DEF FillSeatsBot, s
  <2>2. row \in MemberRow /\ row.lobby = call.at /\ row.user = call.by /\ row.seat = s
    BY <1>3, <1>5 DEF MemberRow
  <2>3. /\ next \in CallRow /\ next.op = "fill" /\ next.at = call.at
        /\ next.seen = call.seen \ {s}
    BY <1>2, <1>3 DEF CallRow, Ops
  <2>4. calls' = IF call.seen = {s} THEN [calls EXCEPT ![c] = Answered] ELSE [calls EXCEPT ![c] = next]
    BY <1>2, <2>1 DEF Ends
  <2>5. members' = members \cup {row} BY <2>1
  <2>. HIDE DEF row, next
  <2>6. Answered \in CallRow /\ Answered.op = "answered" BY DEF Answered, Idle, CallRow, Ops
  <2>7. /\ calls' \in [Calls -> CallRow]
        /\ calls'[c] = IF call.seen = {s} THEN Answered ELSE next
        /\ \A d \in Calls : d # c => calls'[d] = calls[d]
    BY <1>2, <2>3, <2>4, <2>6
  <2>8. CallMeans(c)'
    <3>1. CASE call.seen = {s} BY <2>7, <3>1, RequestMeans
    <3>2. CASE call.seen # {s}
      <4>1. call.seen \ {s} # {} BY <1>3, <3>2
      <4>2. lobby'[call.at].status # "NONE" BY <1>1, <1>3 DEF Made
      <4>. QED BY <1>3, <2>3, <2>7, <3>2, <4>1, <4>2 DEF CallMeans, Made
    <3>. QED BY <3>1, <3>2
  <2>9. \A u \in Users : \A m \in GuestRows(u)' : m \in GuestRows(u)
    BY <1>1, <1>3, <2>2, <2>5, LobbyAssumption DEF GuestRows
  <2>10. \A u \in Users : NoNewGuest(u) BY <2>9 DEF NoNewGuest
  <2>11. \A b \in Bots : b # call.by => NoNewBot(b) BY <2>2, <2>5 DEF NoNewBot
  <2>12. \A d \in Calls : d # c => CallMeans(d)'
    <3>. SUFFICES ASSUME NEW d \in Calls, d # c PROVE CallMeans(d)' OBVIOUS
    <3>1. CallMeans(d) /\ calls'[d] = calls[d] BY <2>7 DEF IInv, CallsInv
    <3>2. calls[d].op = "join" => NoNewGuest(calls[d].by) BY <2>10, <3>1 DEF CallMeans
    <3>3. calls[d].op = "seat" => NoNewBot(calls[d].by)
      BY <1>1, <2>11, <3>1 DEF CallMeans, IInv, CallsInv, BotsApart
    <3>. QED BY <1>4, <3>1, <3>2, <3>3, CallKept DEF LobbyOK, BotOK
  <2>13. BotsApart'
    <3>1. \A d \in Calls : calls'[d].op = "seat" => calls'[d] = calls[d] BY <2>3, <2>6, <2>7
    <3>. QED BY <3>1 DEF BotsApart, IInv, CallsInv
  <2>14. CallsInv' BY <2>7, <2>8, <2>12, <2>13 DEF CallsInv
  <2>15. LobbyTypeOK'
    <3>1. s \notin Taken(call.at) BY <1>7
    <3>2. members \in SUBSET members
          /\ \A m \in members : m.lobby = row.lobby => m.seat # row.seat /\ m.user # row.user
      BY <1>3, <2>2, <3>1 DEF Taken, Rows
    <3>. QED BY <1>1, <1>4, <2>2, <2>5, <3>2, RowComes DEF LobbyOK, BotOK
  <2>16. RowsOfLobbies' BY <1>1, <1>3, <2>2, <2>5 DEF IInv, RowsInv, RowsOfLobbies, Made
  <2>17. BotsPlay'
    <3>1. s # Judge BY <1>5, LobbyAssumption DEF Seats, Judge
    <3>. QED BY <1>1, <1>3, <2>2, <2>5, <3>1 DEF IInv, RowsInv, BotsPlay
  <2>18. GuestOfOneTable' BY <2>9 DEF IInv, RowsInv, GuestOfOneTable
  <2>19. HostSitsAtHisTable' BY <1>1, <2>5 DEF IInv, RowsInv, HostSitsAtHisTable, Seated, Rows
  <2>. QED BY <1>4, <2>14, <2>15, <2>16, <2>17, <2>18, <2>19 DEF IInv, RowsInv, GameOK, SweepOK
<1>. QED BY <1>6, <1>7

-----------------------------------------------------------------------------
(* The theorems. *)

LEMMA InitIInv == Init => IInv
<1>. SUFFICES ASSUME Init PROVE IInv OBVIOUS
<1>1. LobbyTypeOK
  <2>1. [status |-> "NONE", host |-> Nobody, old |-> FALSE] \in LobbyRow BY DEF LobbyRow
  <2>2. NoGame \in GameRow BY DEF NoGame, GameRow
  <2>. QED BY <2>1, <2>2 DEF Init, LobbyTypeOK
<1>2. RowsInv
  BY DEF Init, RowsInv, RowsOfLobbies, BotsPlay, GuestOfOneTable, GuestRows, HostSitsAtHisTable
<1>3. CallsInv
  <2>1. Idle \in CallRow BY DEF Idle, CallRow, Ops
  <2>2. \A c \in Calls : calls[c] = Idle BY DEF Init
  <2>3. \A c \in Calls : CallMeans(c) BY <2>1, <2>2 DEF CallMeans, Idle
  <2>4. BotsApart BY <2>2 DEF BotsApart, Idle
  <2>. QED BY <2>1, <2>3, <2>4 DEF CallsInv, Init
<1>4. GamesOfStarted BY DEF Init, GamesOfStarted, NoGame
<1>5. SweptBots BY DEF Init, SweptBots, Asleep
<1>. QED BY <1>1, <1>2, <1>3, <1>4, <1>5 DEF IInv

LEMMA RequestKeeps == ASSUME IInv, Request PROVE IInv'
<1>1. CASE \E c \in Calls, l \in Lobbies :
             \/ CloseReads(c, l) \/ FillReads(c, l) \/ StartReads(c, l)
             \/ \E u \in Users : JoinReads(c, u, l) \/ LeaveLobby(c, u, l)
  BY <1>1, CloseReadsKeeps, FillReadsKeeps, StartReadsKeeps, JoinReadsKeeps, LeaveLobbyKeeps
<1>2. CASE \E c \in Calls, u \in Users, s \in {Judge, 1} : CreateReads(c, u, s)
  BY <1>2, CreateReadsKeeps
<1>3. CASE \E u \in Users, l \in Lobbies :
             \/ \E ready \in BOOLEAN : SetReady(u, l, ready)
             \/ ResetReady(u, l) \/ ClaimJudgeSeat(u, l) \/ PlayerLeavesGame(u, l)
  BY <1>3, SetReadyKeeps, ResetReadyKeeps, ClaimJudgeSeatKeeps, PlayerLeavesGameKeeps
<1>4. CASE \E l \in Lobbies : JudgeLeavesGame(l) \/ \E u \in Users \cup Bots : KickMember(l, u)
  BY <1>4, JudgeLeavesGameKeeps, KickMemberKeeps
<1>. QED BY <1>1, <1>2, <1>3, <1>4 DEF Request

LEMMA ContinueKeeps == ASSUME IInv, NEW c \in Calls, Continue(c) PROVE IInv'
BY JoinCommitsKeeps, LeavesTheTableKeeps, CreateSeesTablesKeeps, CreateEvictsKeeps, CreateInsertsKeeps,
   EndsTheGameKeeps, CloseCommitsKeeps, FillCreatesBotKeeps, FillSeatsBotKeeps, StartCommitsKeeps
   DEF Continue

LEMMA SweepKeeps == ASSUME IInv, Sweep PROVE IInv'
BY SweepReadsKeeps, SweepExpiresKeeps, SweepEndsZombiesKeeps, SweepClosesZombiesKeeps,
   SweepDeletesOrphansKeeps DEF Sweep

LEMMA WorldKeeps == ASSUME IInv, World PROVE IInv'
BY GameFinishesKeeps, GrowsOldKeeps, DeleteAccountKeeps, CrashKeeps DEF World

LEMMA StutterKeeps == ASSUME IInv, UNCHANGED vars PROVE IInv'
BY OnlyCalls, CallsRest DEF vars, IInv

LEMMA IInvAlways == Spec => []IInv
<1>1. IInv /\ [Next]_vars => IInv'
  BY RequestKeeps, ContinueKeeps, SweepKeeps, WorldKeeps, StutterKeeps DEF Next
<1>. QED BY <1>1, InitIInv, PTL DEF Spec

\* The unique indexes of LobbyMember hold whatever requests overlap: one row for a
\* user and one for a seat in each lobby, and every row is of its type.
THEOREM RowsKeepTheirIndexes == Spec => []LobbyTypeOK
<1>1. IInv => LobbyTypeOK BY DEF IInv
<1>. QED BY <1>1, IInvAlways, PTL

\* Nobody waits as a guest at two tables (joinLobby): whoever joins, fills, creates and
\* starts at the same time, and whatever is closed, swept or lost in between.
THEOREM GuestsWaitOnce == Spec => []GuestOfOneTable
<1>1. IInv => GuestOfOneTable BY DEF IInv, RowsInv
<1>. QED BY <1>1, IInvAlways, PTL

\* A waiting lobby has its host in it: no join, kick, eviction, deletion of an account or
\* cleanup of bots takes his row before the lobby is closed.
THEOREM HostsSit == Spec => []HostSitsAtHisTable
<1>1. IInv => HostSitsAtHisTable BY DEF IInv, RowsInv
<1>. QED BY <1>1, IInvAlways, PTL

-----------------------------------------------------------------------------
(* The room pages.                                                         *)

PageFields == {"at", "of", "tried", "shown", "get", "reply", "line", "hello", "inside", "asks"}

Whole(p) ==
  /\ DOMAIN p = PageFields
  /\ p.at = "room" \/ p.asks # {} => p.of \in Lobbies

\* The details on their way to a page are still to be read, or tell of the game.
Fetches(p) == p.get = Asked \/ p.get.game = TRUE

Coming(l) == \E cast \in casts : cast.of = l /\ cast.d.game = TRUE

\* A game is never unmade.
GamesInv ==
  /\ DOMAIN game = Lobbies
  /\ \A l \in Lobbies : "made" \in DOMAIN game[l] /\ game[l].made \in BOOLEAN

\* Whoever is told of the game and asks for the socket's room again fetches the
\* details as well; whoever is in the socket's room does so, or a broadcast that
\* tells of the game is under way to it.
Reached(u, p) ==
  /\ p.at = "room" /\ game[p.of].made = TRUE
  /\ p.hello # "none" => Fetches(p)
  /\ p.inside => Fetches(p) \/ Coming(p.of)

PagesInv ==
  /\ GamesInv
  /\ DOMAIN page = Browsers /\ \A u \in Browsers : Whole(page[u])
  /\ \A u \in told : u \in Browsers /\ Reached(u, page[u])

\* What a page that stays in its room may do without losing sight of the game.
KeepsSight(p, q) ==
  q.at = "room" /\ p.at = "room" =>
    /\ q.of = p.of
    /\ \/ Fetches(q)
       \/ /\ q.get = p.get \/ ~Fetches(p)
          /\ q.hello # "none" => p.hello # "none"
          /\ q.inside => p.inside \/ p.hello # "none"

LEMMA ToLeaves ==
  ASSUME NEW p, Whole(p), NEW where, where \in {"list", "game"}
  PROVE /\ DOMAIN To(p, where) = PageFields /\ To(p, where).at = where
        /\ To(p, where).of = p.of /\ To(p, where).asks = p.asks /\ To(p, where).get = p.get
        /\ Whole(To(p, where))
<1>. DEFINE q == To(p, where)
<1>1. /\ DOMAIN q = PageFields /\ q.at = where /\ q.of = p.of /\ q.asks = p.asks
      /\ q.get = p.get
  BY DEF To, Whole, PageFields
<1>. HIDE DEF q
<1>2. Whole(q) BY <1>1 DEF Whole
<1>. QED BY <1>1, <1>2 DEF q

\* What a page is after it was shown details.
Heard(p, d, q) ==
  /\ Whole(q) /\ q.of = p.of /\ q.get = p.get
  /\ q.at = "room" =>
       /\ p.at = "room" /\ d.game # TRUE
       /\ q.hello = p.hello /\ q.inside = p.inside

LEMMA ShowsKeeps ==
  ASSUME NEW u, NEW p, Whole(p), NEW d, NEW s, s = Shows(u, p, d)
  PROVE Heard(p, d, s)
<1>. DEFINE q == [p EXCEPT !.shown = d]
            r == [q EXCEPT !.tried = TRUE, !.asks = @ \cup {Ask("join", Nobody)}]
<1>1. /\ DOMAIN q = PageFields /\ q.at = p.at /\ q.of = p.of /\ q.get = p.get
      /\ q.hello = p.hello /\ q.inside = p.inside /\ q.asks = p.asks
  BY DEF Whole, PageFields
<1>2. \/ s = q /\ (p.at # "room" \/ d.game # TRUE)
      \/ s = r /\ p.at = "room" /\ d.game # TRUE
      \/ s = To(q, "list") \/ s = To(q, "game")
  BY DEF Shows
<1>. HIDE DEF q
<1>3. Whole(q) BY <1>1 DEF Whole
<1>4. CASE s = q BY <1>1, <1>2, <1>3, <1>4, ToLeaves DEF Heard
<1>5. CASE s = r
  <2>1. /\ DOMAIN r = PageFields /\ r.at = q.at /\ r.of = q.of /\ r.get = q.get
        /\ r.hello = q.hello /\ r.inside = q.inside
        /\ r.asks = q.asks \cup {Ask("join", Nobody)}
    BY <1>1 DEF PageFields
  <2>. HIDE DEF r
  <2>2. Whole(r) BY <1>1, <1>2, <1>3, <1>5, <2>1, ToLeaves DEF Whole
  <2>. QED BY <1>1, <1>2, <1>3, <1>5, <2>1, <2>2, ToLeaves DEF Heard
<1>6. CASE s = To(q, "list") \/ s = To(q, "game")
  BY <1>1, <1>3, <1>6, ToLeaves DEF Heard
<1>. QED BY <1>2, <1>4, <1>5, <1>6 DEF Heard

LEMMA JoinsRoomFetches ==
  ASSUME NEW p, Whole(p)
  PROVE Whole(JoinsRoom(p)) /\ Fetches(JoinsRoom(p)) /\ JoinsRoom(p).of = p.of
        /\ JoinsRoom(p).at = p.at
<1>. DEFINE q == JoinsRoom(p)
<1>1. /\ DOMAIN q = PageFields /\ q.at = p.at /\ q.of = p.of /\ q.asks = p.asks
      /\ q.get = Asked
  BY DEF JoinsRoom, Whole, PageFields
<1>. HIDE DEF q
<1>2. Whole(q) /\ Fetches(q) BY <1>1 DEF Whole, Fetches
<1>. QED BY <1>1, <1>2 DEF q

LEMMA MountWhole ==
  ASSUME NEW u, NEW p, Whole(p), NEW l \in Lobbies
  PROVE Whole(Mount(u, p, l))
<1>. DEFINE fresh == [p EXCEPT !.at = "room", !.of = l, !.tried = FALSE, !.get = Asked]
            open == IF p.line = "up" THEN JoinsRoom(fresh) ELSE fresh
<1>1. DOMAIN fresh = PageFields /\ fresh.of = l /\ fresh.asks = p.asks
  BY DEF Whole, PageFields
<1>. HIDE DEF fresh
<1>2. Whole(fresh) BY <1>1 DEF Whole
<1>3. Whole(open) /\ open.of = l BY <1>1, <1>2, JoinsRoomFetches
<1>4. Mount(u, p, l) = Shows(u, open, p.shown) \/ Mount(u, p, l) = [open EXCEPT !.shown = Unknown]
  BY DEF Mount, fresh
<1>. HIDE DEF open
<1>5. Whole([open EXCEPT !.shown = Unknown])
  <2>1. \A q : q = [open EXCEPT !.shown = Unknown] =>
          /\ DOMAIN q = PageFields /\ q.at = open.at /\ q.of = open.of /\ q.asks = open.asks
    BY <1>3 DEF Whole, PageFields
  <2>. QED BY <1>3, <2>1 DEF Whole
<1>6. Whole(Shows(u, open, p.shown))
  <2>1. PICK s : s = Shows(u, open, p.shown) OBVIOUS
  <2>2. Whole(s) BY <1>3, <2>1, ShowsKeeps DEF Heard
  <2>. QED BY <2>1, <2>2
<1>. QED BY <1>4, <1>5, <1>6

\* A page with one of its other fields changed.
LEMMA OtherFields ==
  ASSUME NEW p, Whole(p), NEW x, NEW q,
         \/ q = [p EXCEPT !.get = x] \/ q = [p EXCEPT !.reply = x]
         \/ q = [p EXCEPT !.line = x]
  PROVE /\ Whole(q) /\ q.at = p.at /\ q.of = p.of /\ q.hello = p.hello /\ q.inside = p.inside
        /\ q = [p EXCEPT !.get = x] => q.get = x
        /\ q = [p EXCEPT !.reply = x] => q.get = p.get
<1>1. /\ DOMAIN q = PageFields /\ q.at = p.at /\ q.of = p.of /\ q.hello = p.hello
      /\ q.inside = p.inside /\ q.asks = p.asks
  BY DEF Whole, PageFields
<1>2. /\ q = [p EXCEPT !.get = x] => q.get = x
      /\ q = [p EXCEPT !.reply = x] => q.get = p.get
  BY DEF Whole, PageFields
<1>. QED BY <1>1, <1>2 DEF Whole

\* A page with other requests for its room.
LEMMA OtherAsks ==
  ASSUME NEW p, Whole(p), NEW asks, p.at = "room" \/ p.asks # {}
  PROVE /\ Whole([p EXCEPT !.asks = asks]) /\ KeepsSight(p, [p EXCEPT !.asks = asks])
        /\ [p EXCEPT !.asks = asks].of = p.of /\ [p EXCEPT !.asks = asks].at = p.at
<1>. DEFINE q == [p EXCEPT !.asks = asks]
<1>1. /\ DOMAIN q = PageFields /\ q.at = p.at /\ q.of = p.of /\ q.hello = p.hello
      /\ q.inside = p.inside /\ q.get = p.get /\ q.asks = asks
  BY DEF Whole, PageFields
<1>. HIDE DEF q
<1>2. Whole(q) BY <1>1 DEF Whole
<1>3. KeepsSight(p, q) BY <1>1 DEF KeepsSight
<1>. QED BY <1>1, <1>2, <1>3 DEF q

-----------------------------------------------------------------------------
(* One page turns.                                                         *)

\* What happens to the table of games under a request: it is not unmade.
GamesStay == \A l \in Lobbies : game[l].made = TRUE => game'[l].made = TRUE

\* Who is told after the step: whoever was and is still in the room, and whoever had it
\* open when its game was made.
LEMMA ToldBefore ==
  ASSUME NEW sent, NEW reset, Aftermath(sent, reset), game' = game, NEW u \in told'
  PROVE u \in Browsers /\ u \in told /\ page'[u].at = "room"
BY DEF Aftermath

LEMMA CastsStay ==
  ASSUME NEW sent, NEW reset, Aftermath(sent, reset)
  PROVE casts \ sent \subseteq casts'
BY DEF Aftermath

\* A step that makes no game and takes no page's sight of one.
LEMMA StepKeeps ==
  ASSUME PagesInv, DOMAIN page' = Browsers, \A v \in Browsers : Whole(page'[v]),
         game' = game, NEW sent, NEW reset, Aftermath(sent, reset),
         \A v \in told :
           /\ KeepsSight(page[v], page'[v])
           /\ page'[v].at = "room" /\ page'[v].inside /\ Coming(page[v].of) => Coming(page[v].of)'
  PROVE PagesInv'
<1>1. GamesInv' BY DEF PagesInv, GamesInv
<1>2. ASSUME NEW v \in told' PROVE v \in Browsers /\ Reached(v, page[v])'
  <2>1. v \in Browsers /\ v \in told /\ page'[v].at = "room" BY ToldBefore
  <2>2. /\ page[v].at = "room" /\ game[page[v].of].made = TRUE
        /\ (page[v].hello # "none" => Fetches(page[v]))
        /\ (page[v].inside => Fetches(page[v]) \/ Coming(page[v].of))
    BY <2>1 DEF PagesInv, Reached
  <2>3. KeepsSight(page[v], page'[v]) BY <2>1
  <2>4. page'[v].inside /\ Coming(page[v].of) => Coming(page[v].of)' BY <2>1
  <2>5. page'[v].of = page[v].of BY <2>1, <2>2, <2>3 DEF KeepsSight
  <2>6. page'[v].get = page[v].get => (Fetches(page[v]) => Fetches(page'[v])) BY DEF Fetches
  <2>7. page'[v].hello # "none" => Fetches(page'[v])
    BY <2>1, <2>2, <2>3, <2>6 DEF KeepsSight
  <2>8. page'[v].inside => Fetches(page'[v]) \/ Coming(page[v].of)'
    BY <2>1, <2>2, <2>3, <2>4, <2>6 DEF KeepsSight
  <2>9. Fetches(page[v])' <=> Fetches(page'[v]) BY DEF Fetches
  <2>. QED BY <2>1, <2>2, <2>5, <2>7, <2>8, <2>9 DEF Reached
<1>. QED BY <1>1, <1>2 DEF PagesInv

LEMMA TurnKeeps ==
  ASSUME PagesInv, NEW u \in Browsers, NEW q, Turn(u, q), Whole(q),
         u \in told => KeepsSight(page[u], q),
         game' = game, NEW reset, Aftermath({}, reset)
  PROVE PagesInv'
<1>1. /\ DOMAIN page' = Browsers /\ page'[u] = q
      /\ \A v \in Browsers : v # u => page'[v] = page[v]
  BY DEF PagesInv, Turn
<1>2. \A v \in Browsers : Whole(page'[v]) BY <1>1 DEF PagesInv
<1>3. casts \subseteq casts' BY CastsStay
<1>4. ASSUME NEW v \in told PROVE KeepsSight(page[v], page'[v])
  <2>1. v \in Browsers BY DEF PagesInv
  <2>2. CASE v = u BY <1>1, <2>2
  <2>3. CASE v # u
    <3>1. page'[v] = page[v] BY <1>1, <2>1, <2>3
    <3>. QED BY <3>1 DEF KeepsSight
  <2>. QED BY <2>2, <2>3
<1>5. ASSUME NEW v \in told, page'[v].at = "room", Coming(page[v].of)
      PROVE Coming(page[v].of)'
  <2>1. page'[v].of = page[v].of BY <1>4, <1>5 DEF KeepsSight, PagesInv, Reached
  <2>. QED BY <1>3, <1>5, <2>1 DEF Coming
<1>. QED BY <1>1, <1>2, <1>4, <1>5, StepKeeps

-----------------------------------------------------------------------------
(* The socket and the details.                                             *)

LEMMA OpensRoomKeeps ==
  ASSUME PagesInv, NEW u \in Browsers, NEW l \in Lobbies, OpensRoom(u, l)
  PROVE PagesInv'
<1>1. game' = game BY DEF OpensRoom, Still, vars
<1>2. Whole(Mount(u, page[u], l)) BY MountWhole DEF PagesInv
<1>3. KeepsSight(page[u], Mount(u, page[u], l)) BY DEF OpensRoom, KeepsSight
<1>. QED BY <1>1, <1>2, <1>3, TurnKeeps DEF OpensRoom

LEMMA WalksOutKeeps == ASSUME PagesInv, NEW u \in Browsers, WalksOut(u) PROVE PagesInv'
<1>1. game' = game BY DEF WalksOut, Still, vars
<1>2. Whole(page[u]) BY DEF PagesInv
<1>3. Whole(To(page[u], "list")) /\ To(page[u], "list").at = "list" BY <1>2, ToLeaves
<1>4. KeepsSight(page[u], To(page[u], "list")) BY <1>3 DEF KeepsSight
<1>. QED BY <1>1, <1>3, <1>4, TurnKeeps DEF WalksOut

LEMMA ConnectsKeeps == ASSUME PagesInv, NEW u \in Browsers, Connects(u) PROVE PagesInv'
<1>1. game' = game BY DEF Connects, Still, vars
<1>2. Whole(page[u]) BY DEF PagesInv
<1>3. PICK p : p = [page[u] EXCEPT !.line = "up"] OBVIOUS
<1>4. Whole(p) /\ p.of = page[u].of BY <1>2, <1>3, OtherFields
<1>5. Whole(JoinsRoom(p)) /\ Fetches(JoinsRoom(p)) /\ JoinsRoom(p).of = page[u].of
  BY <1>4, JoinsRoomFetches
<1>6. KeepsSight(page[u], JoinsRoom(p)) BY <1>5 DEF KeepsSight
<1>7. Turn(u, JoinsRoom(p)) /\ Aftermath({}, {}) BY <1>3 DEF Connects
<1>. QED BY <1>1, <1>5, <1>6, <1>7, TurnKeeps

LEMMA DropsKeeps == ASSUME PagesInv, NEW u \in Browsers, Drops(u) PROVE PagesInv'
<1>1. game' = game BY DEF Drops, Still, vars
<1>2. Whole(page[u]) BY DEF PagesInv
<1>3. PICK q : q = [page[u] EXCEPT !.line = "down", !.hello = "none", !.inside = FALSE] OBVIOUS
<1>4. /\ DOMAIN q = PageFields /\ q.at = page[u].at /\ q.of = page[u].of
      /\ q.asks = page[u].asks /\ q.get = page[u].get /\ q.hello = "none" /\ q.inside = FALSE
  BY <1>2, <1>3 DEF Whole, PageFields
<1>5. Whole(q) BY <1>2, <1>4 DEF Whole
<1>6. KeepsSight(page[u], q) BY <1>4 DEF KeepsSight
<1>7. Turn(u, q) /\ Aftermath({}, {}) BY <1>3 DEF Drops
<1>. QED BY <1>1, <1>5, <1>6, <1>7, TurnKeeps

\* Whoever is told reads that there is a game.
LEMMA DetailsReadKeeps == ASSUME PagesInv, NEW u \in Browsers, DetailsRead(u) PROVE PagesInv'
<1>1. game' = game BY DEF DetailsRead, Still, vars
<1>2. Whole(page[u]) BY DEF PagesInv
<1>3. PICK d : d = Details(page[u].of) OBVIOUS
<1>4. PICK q : q = [page[u] EXCEPT !.get = d] OBVIOUS
<1>5. Whole(q) /\ q.of = page[u].of /\ q.get = d BY <1>2, <1>4, OtherFields
<1>6. u \in told => KeepsSight(page[u], q)
  <2>1. SUFFICES ASSUME u \in told PROVE KeepsSight(page[u], q) OBVIOUS
  <2>2. game[page[u].of].made = TRUE BY <2>1 DEF PagesInv, Reached
  <2>3. d.game = TRUE BY <1>3, <2>2 DEF Details
  <2>4. Fetches(q) BY <1>5, <2>3 DEF Fetches
  <2>. QED BY <1>5, <2>4 DEF KeepsSight
<1>7. Turn(u, q) /\ Aftermath({}, {}) BY <1>3, <1>4 DEF DetailsRead
<1>. QED BY <1>1, <1>5, <1>6, <1>7, TurnKeeps

LEMMA DetailsArriveKeeps == ASSUME PagesInv, NEW u \in Browsers, DetailsArrive(u) PROVE PagesInv'
<1>1. game' = game BY DEF DetailsArrive, Still, vars
<1>2. Whole(page[u]) BY DEF PagesInv
<1>3. PICK p : p = [page[u] EXCEPT !.get = Unknown] OBVIOUS
<1>4. /\ Whole(p) /\ p.at = page[u].at /\ p.of = page[u].of /\ p.hello = page[u].hello
      /\ p.inside = page[u].inside
  BY <1>2, <1>3, OtherFields
<1>5. PICK d : d = page[u].get OBVIOUS
<1>6. PICK q : q = Shows(u, p, d) OBVIOUS
<1>7. Whole(p) BY <1>4
<1>8. Heard(p, d, q) BY <1>6, <1>7, ShowsKeeps
<1>9. Whole(q) BY <1>8 DEF Heard
<1>10. KeepsSight(page[u], q)
  <2>1. SUFFICES ASSUME q.at = "room" PROVE KeepsSight(page[u], q) BY DEF KeepsSight
  <2>2. d.game # TRUE BY <1>8, <2>1 DEF Heard
  <2>3. ~Fetches(page[u]) BY <1>5, <2>2 DEF Fetches, DetailsArrive
  <2>. QED BY <1>4, <1>8, <2>1, <2>3 DEF KeepsSight, Heard
<1>11. Turn(u, q) /\ Aftermath({}, {}) BY <1>3, <1>5, <1>6 DEF DetailsArrive
<1>. QED BY <1>1, <1>9, <1>10, <1>11, TurnKeeps

LEMMA ReplyArrivesKeeps == ASSUME PagesInv, NEW u \in Browsers, ReplyArrives(u) PROVE PagesInv'
<1>1. game' = game BY DEF ReplyArrives, Still, vars
<1>2. Whole(page[u]) BY DEF PagesInv
<1>3. PICK p : p = [page[u] EXCEPT !.reply = Unknown] OBVIOUS
<1>4. /\ Whole(p) /\ p.at = page[u].at /\ p.of = page[u].of /\ p.hello = page[u].hello
      /\ p.inside = page[u].inside /\ p.get = page[u].get
  BY <1>2, <1>3, OtherFields
<1>5. PICK q : q = Shows(u, p, page[u].reply) OBVIOUS
<1>6. Heard(p, page[u].reply, q) BY <1>4, <1>5, ShowsKeeps
<1>7. Whole(q) /\ KeepsSight(page[u], q) BY <1>4, <1>6 DEF KeepsSight, Heard
<1>8. Turn(u, q) /\ Aftermath({}, {}) BY <1>3, <1>5 DEF ReplyArrives
<1>. QED BY <1>1, <1>7, <1>8, TurnKeeps

\* A page whose word to the socket changes, and whether it is in the room.
LEMMA OtherHello ==
  ASSUME NEW p, Whole(p), NEW h, NEW i
  PROVE /\ Whole([p EXCEPT !.hello = h]) /\ Whole([p EXCEPT !.hello = h, !.inside = i])
        /\ p.hello # "none" /\ (h # "none" => i = p.inside) =>
             /\ KeepsSight(p, [p EXCEPT !.hello = h])
             /\ KeepsSight(p, [p EXCEPT !.hello = h, !.inside = i])
<1>1. \A q \in {[p EXCEPT !.hello = h], [p EXCEPT !.hello = h, !.inside = i]} :
        DOMAIN q = PageFields /\ q.at = p.at /\ q.of = p.of /\ q.get = p.get /\ q.asks = p.asks
  BY DEF Whole, PageFields
<1>2. \A q \in {[p EXCEPT !.hello = h], [p EXCEPT !.hello = h, !.inside = i]} : Whole(q)
  BY <1>1 DEF Whole
<1>. QED BY <1>1, <1>2 DEF KeepsSight

LEMMA JoinHandledKeeps == ASSUME PagesInv, NEW u \in Browsers, JoinHandled(u) PROVE PagesInv'
<1>1. game' = game BY DEF JoinHandled, Still, vars
<1>2. Whole(page[u]) BY DEF PagesInv
<1>3. PICK h : Turn(u, [page[u] EXCEPT !.hello = h]) BY DEF JoinHandled
<1>4. page[u].hello # "none" /\ Aftermath({}, {}) BY DEF JoinHandled
<1>5. /\ Whole([page[u] EXCEPT !.hello = h])
      /\ KeepsSight(page[u], [page[u] EXCEPT !.hello = h])
  BY <1>2, <1>4, OtherHello
<1>. QED BY <1>1, <1>3, <1>4, <1>5, TurnKeeps

LEMMA JoinDoneKeeps == ASSUME PagesInv, NEW u \in Browsers, JoinDone(u) PROVE PagesInv'
<1>1. game' = game BY DEF JoinDone, ResetReady, Still, vars
<1>2. Whole(page[u]) BY DEF PagesInv
<1>3. page[u].hello # "none" /\ Aftermath({}, {}) BY DEF JoinDone
<1>4. PICK q : q = [page[u] EXCEPT !.hello = "none", !.inside = TRUE] OBVIOUS
<1>5. Whole(q) /\ KeepsSight(page[u], q) BY <1>2, <1>3, <1>4, OtherHello
<1>6. Turn(u, q) BY <1>4 DEF JoinDone
<1>. QED BY <1>1, <1>3, <1>5, <1>6, TurnKeeps

LEMMA ReadyResetKeeps ==
  ASSUME PagesInv, NEW u, NEW l, ReadyReset(u, l)
  PROVE PagesInv'
<1>1. game' = game /\ page' = page BY DEF ReadyReset, ResetReady, Still, vars
<1>2. Aftermath({}, {<<u, l>>}) BY DEF ReadyReset
<1>3. casts \subseteq casts' BY <1>2, CastsStay
<1>4. \A v \in told : /\ KeepsSight(page[v], page'[v])
                      /\ Coming(page[v].of) => Coming(page[v].of)'
  BY <1>1, <1>3 DEF KeepsSight, Coming
<1>. QED BY <1>1, <1>2, <1>4, StepKeeps DEF PagesInv

\* A page in the room leaves it when it hears of the game; the others heard nothing.
LEMMA SendsKeeps == ASSUME PagesInv, NEW cast \in casts, Sends(cast) PROVE PagesInv'
<1>. DEFINE Hears(v) == page[v].inside /\ page[v].of = cast.of
<1>1. game' = game BY DEF Sends, Still, vars
<1>2. Aftermath({cast}, {}) BY DEF Sends
<1>3. DOMAIN page' = Browsers /\ \A v \in Browsers :
        page'[v] = IF Hears(v) THEN Shows(v, page[v], cast.d) ELSE page[v]
  BY DEF Sends
<1>4. \A v \in Browsers : Whole(page[v]) BY DEF PagesInv
<1>5. ASSUME NEW v \in Browsers
      PROVE /\ Whole(page'[v]) /\ KeepsSight(page[v], page'[v])
            /\ page'[v].at = "room" /\ Hears(v) => cast.d.game # TRUE
            /\ page'[v].at = "room" => page'[v].inside = page[v].inside
  <2>1. CASE Hears(v)
    <3>1. page'[v] = Shows(v, page[v], cast.d) BY <1>3, <2>1
    <3>2. Heard(page[v], cast.d, page'[v]) BY <1>4, <3>1, ShowsKeeps
    <3>. QED BY <3>2 DEF KeepsSight, Heard
  <2>2. CASE ~Hears(v)
    <3>1. page'[v] = page[v] BY <1>3, <2>2
    <3>. QED BY <1>4, <2>2, <3>1 DEF KeepsSight
  <2>. QED BY <2>1, <2>2
<1>6. casts \ {cast} \subseteq casts' BY <1>2, CastsStay
<1>7. ASSUME NEW v \in told, page'[v].at = "room", page'[v].inside, Coming(page[v].of)
      PROVE Coming(page[v].of)'
  <2>1. v \in Browsers /\ page[v].inside BY <1>5, <1>7 DEF PagesInv
  <2>2. PICK other \in casts : other.of = page[v].of /\ other.d.game = TRUE BY <1>7 DEF Coming
  <2>3. other # cast BY <1>5, <1>7, <2>1, <2>2
  <2>4. other \in casts' BY <1>6, <2>3
  <2>5. \E x \in casts' : x.of = page[v].of /\ x.d.game = TRUE BY <2>2, <2>4
  <2>6. page'[v].of = page[v].of
    BY <1>5, <1>7, <2>1 DEF KeepsSight, PagesInv, Reached
  <2>. QED BY <2>5, <2>6 DEF Coming
<1>8. \A v \in Browsers : Whole(page'[v]) BY <1>5
<1>9. \A v \in told : KeepsSight(page[v], page'[v]) BY <1>5 DEF PagesInv
<1>. QED BY <1>1, <1>2, <1>3, <1>7, <1>8, <1>9, StepKeeps

-----------------------------------------------------------------------------
(* The buttons.                                                            *)

\* The rows change under a request, its game does not.
LEMMA ReadsMakeNoGame ==
  ASSUME NEW c, NEW u, NEW l,
         \/ JoinReads(c, u, l) \/ LeaveLobby(c, u, l) \/ CloseReads(c, l) \/ StartReads(c, l)
         \/ FillReads(c, l)
         \/ \E ready : SetReady(u, l, ready)
         \/ \E target : KickMember(l, target)
  PROVE game' = game
BY DEF JoinReads, LeaveLobby, CloseReads, StartReads, FillReads, SetReady, KickMember

LEMMA ClicksJoinKeeps ==
  ASSUME PagesInv, NEW c, NEW u \in Browsers, NEW l \in Lobbies, ClicksJoin(c, u, l)
  PROVE PagesInv'
<1>1. game' = game BY ReadsMakeNoGame DEF ClicksJoin
<1>2. Whole(page[u]) BY DEF PagesInv
<1>3. PICK s, q : /\ Turn(u, q)
                  /\ q = [page[u] EXCEPT !.asks = {Ask("enter", c)}, !.of = l, !.shown = s]
  BY DEF ClicksJoin
<1>4. /\ DOMAIN q = PageFields /\ q.of = l /\ q.asks = {Ask("enter", c)}
  BY <1>2, <1>3 DEF Whole, PageFields
<1>5. Whole(q) BY <1>4 DEF Whole
<1>6. page[u].at # "room" /\ Aftermath({}, {}) BY DEF ClicksJoin
<1>7. KeepsSight(page[u], q) BY <1>6 DEF KeepsSight
<1>. QED BY <1>1, <1>3, <1>5, <1>6, <1>7, TurnKeeps

LEMMA JoinsByItselfKeeps ==
  ASSUME PagesInv, NEW c, NEW u \in Browsers, JoinsByItself(c, u)
  PROVE PagesInv'
<1>. DEFINE others == page[u].asks \ {Ask("join", Nobody)}
<1>1. game' = game BY ReadsMakeNoGame DEF JoinsByItself, Still, vars
<1>2. Whole(page[u]) BY DEF PagesInv
<1>3. \/ Turn(u, [page[u] EXCEPT !.asks = others \cup {Ask("join", c)}])
      \/ Turn(u, [page[u] EXCEPT !.asks = others])
  BY DEF JoinsByItself
<1>4. PICK asks : Turn(u, [page[u] EXCEPT !.asks = asks]) BY <1>3
<1>5. page[u].asks # {} BY DEF JoinsByItself
<1>6. Aftermath({}, {}) BY DEF JoinsByItself
<1>7. PICK q : q = [page[u] EXCEPT !.asks = asks] OBVIOUS
<1>8. Whole(q) /\ KeepsSight(page[u], q) BY <1>2, <1>5, <1>7, OtherAsks
<1>. QED BY <1>1, <1>4, <1>6, <1>7, <1>8, TurnKeeps

LEMMA ClicksReadyKeeps ==
  ASSUME PagesInv, NEW u \in Browsers, NEW l, ClicksReady(u, l)
  PROVE PagesInv'
<1>1. game' = game BY ReadsMakeNoGame DEF ClicksReady
<1>2. Whole(page[u]) BY DEF PagesInv
<1>3. PICK d : Turn(u, [page[u] EXCEPT !.reply = d]) BY DEF ClicksReady
<1>4. PICK q : q = [page[u] EXCEPT !.reply = d] OBVIOUS
<1>5. Whole(q) BY <1>2, <1>4, OtherFields
<1>6. KeepsSight(page[u], q) BY <1>2, <1>4, OtherFields DEF KeepsSight
<1>7. Aftermath({}, {}) BY DEF ClicksReady
<1>. QED BY <1>1, <1>3, <1>4, <1>5, <1>6, <1>7, TurnKeeps

\* A page that asks for the details again.
LEMMA AskingAgain ==
  ASSUME NEW p, Whole(p), NEW q, q = [p EXCEPT !.get = Asked]
  PROVE Whole(q) /\ KeepsSight(p, q)
<1>1. Whole(q) /\ q.of = p.of /\ q.get = Asked BY OtherFields
<1>. QED BY <1>1 DEF KeepsSight, Fetches

LEMMA ClicksKickKeeps ==
  ASSUME PagesInv, NEW u \in Browsers, NEW l, ClicksKick(u, l)
  PROVE PagesInv'
<1>1. game' = game BY ReadsMakeNoGame DEF ClicksKick
<1>2. Whole(page[u]) BY DEF PagesInv
<1>3. PICK q : q = [page[u] EXCEPT !.get = Asked] OBVIOUS
<1>4. Whole(q) /\ KeepsSight(page[u], q) BY <1>2, <1>3, AskingAgain
<1>5. Turn(u, q) /\ Aftermath({}, {}) BY <1>3 DEF ClicksKick
<1>. QED BY <1>1, <1>4, <1>5, TurnKeeps

LEMMA ClicksKeeps ==
  ASSUME PagesInv, NEW c, NEW u \in Browsers, NEW l, Clicks(c, u, l)
  PROVE PagesInv'
<1>1. game' = game BY ReadsMakeNoGame DEF Clicks
<1>2. Whole(page[u]) BY DEF PagesInv
<1>3. PICK op : Requests(u, op, c) BY DEF Clicks
<1>4. PICK asks : asks = page[u].asks \cup {Ask(op, c)} OBVIOUS
<1>5. page[u].at = "room" BY DEF Clicks, OnRoom
<1>6. Aftermath({}, {}) BY DEF Clicks
<1>7. PICK q : q = [page[u] EXCEPT !.asks = asks] OBVIOUS
<1>8. Whole(q) /\ KeepsSight(page[u], q) BY <1>2, <1>5, <1>7, OtherAsks
<1>9. "asks" \in DOMAIN page[u] BY <1>2 DEF Whole, PageFields
<1>10. Turn(u, q) BY <1>3, <1>4, <1>7, <1>9 DEF Requests
<1>. QED BY <1>1, <1>6, <1>8, <1>10, TurnKeeps

LEMMA AnswersKeeps ==
  ASSUME PagesInv, NEW u \in Browsers, NEW a \in page[u].asks, Answers(u, a)
  PROVE PagesInv'
<1>1. game' = game BY DEF Answers, Still, vars
<1>2. Whole(page[u]) BY DEF PagesInv
<1>3. PICK p : p = [page[u] EXCEPT !.asks = page[u].asks \ {a}] OBVIOUS
<1>4. /\ Whole(p) /\ KeepsSight(page[u], p) /\ p.of = page[u].of /\ p.at = page[u].at
      /\ p.of \in Lobbies
  BY <1>2, <1>3, OtherAsks DEF Whole
<1>5. PICK q : q = Answer(u, p, a) OBVIOUS
<1>6. Turn(u, q) /\ Aftermath({}, {})
  <2>1. "asks" \in DOMAIN page[u] BY <1>2 DEF Whole, PageFields
  <2>. QED BY <1>3, <1>5, <2>1 DEF Answers
<1>7. \/ a.op = "enter" /\ p.at = "list" /\ q = Mount(u, p, p.of)
      \/ q = To(p, "list") \/ q = To(p, "game")
      \/ q = [p EXCEPT !.get = Asked]
      \/ q = p
  BY <1>5 DEF Answer
<1>8. Whole(q) /\ KeepsSight(page[u], q)
  <2>1. CASE a.op = "enter" /\ p.at = "list" /\ q = Mount(u, p, p.of)
    <3>1. Whole(q) BY <1>4, <2>1, MountWhole
    <3>. QED BY <1>4, <2>1, <3>1 DEF KeepsSight
  <2>2. CASE q = To(p, "list") \/ q = To(p, "game")
    <3>1. Whole(q) /\ q.at # "room" BY <1>4, <2>2, ToLeaves
    <3>. QED BY <3>1 DEF KeepsSight
  <2>3. CASE q = [p EXCEPT !.get = Asked]
    <3>1. Whole(q) /\ q.of = p.of /\ q.at = p.at /\ q.get = Asked BY <1>4, <2>3, OtherFields
    <3>. QED BY <1>4, <3>1 DEF KeepsSight, Fetches
  <2>4. CASE q = p BY <1>4, <2>4
  <2>. QED BY <1>7, <2>1, <2>2, <2>3, <2>4
<1>. QED BY <1>1, <1>6, <1>8, TurnKeeps

-----------------------------------------------------------------------------
(* The service goes on; one of its steps makes a game.                     *)

LEMMA ContinueMakes ==
  ASSUME GamesInv, NEW c, Continue(c)
  PROVE GamesInv' /\ \A l \in Lobbies : game[l].made = TRUE => game'[l].made = TRUE
<1>. DEFINE Goal == GamesInv' /\ \A l \in Lobbies : game[l].made = TRUE => game'[l].made = TRUE
<1>1. ASSUME game' = game PROVE Goal BY <1>1 DEF GamesInv
<1>2. ASSUME NEW x, NEW y, NEW z, NEW l,
             \/ game' = [game EXCEPT ![l].gone = x, ![l].ended = y, ![l].over = z]
             \/ game' = [game EXCEPT ![l].ended = y, ![l].over = z]
      PROVE Goal
  <2>1. /\ DOMAIN game' = Lobbies
        /\ \A k \in Lobbies : "made" \in DOMAIN game'[k] /\ game'[k].made = game[k].made
    BY <1>2 DEF GamesInv
  <2>. QED BY <2>1 DEF GamesInv
<1>3. CASE StartCommits(c)
  <2>1. PICK l, g : /\ game' = game \/ game' = [game EXCEPT ![l] = g]
                    /\ DOMAIN g = DOMAIN NoGame /\ g.made = TRUE
    <3>1. PICK g : g = [NoGame EXCEPT !.made = TRUE, !.judge = calls[c].by,
                                      !.seated = calls[c].seen]
      OBVIOUS
    <3>2. DOMAIN g = DOMAIN NoGame /\ g.made = TRUE BY <3>1 DEF NoGame
    <3>3. game' = game \/ game' = [game EXCEPT ![calls[c].at] = g]
      BY <1>3, <3>1 DEF StartCommits
    <3>. QED BY <3>2, <3>3
  <2>2. "made" \in DOMAIN g BY <2>1 DEF NoGame
  <2>3. CASE game' = [game EXCEPT ![l] = g]
    <3>1. /\ DOMAIN game' = Lobbies
          /\ \A k \in Lobbies : game'[k] = g \/ game'[k] = game[k]
      BY <2>3 DEF GamesInv
    <3>. QED BY <2>1, <2>2, <3>1 DEF GamesInv
  <2>. QED BY <1>1, <2>1, <2>3
<1>4. CASE LeavesTheTable(c)
  <2>1. PICK l, u : RemoveFromActiveGame(l, u) BY <1>4 DEF LeavesTheTable
  <2>2. CASE game' = game BY <1>1, <2>2
  <2>3. CASE \E decided \in BOOLEAN :
               game' = [game EXCEPT ![l].gone = @ \cup {u}, ![l].ended = decided, ![l].over = decided]
    <3>1. PICK x, y, z : game' = [game EXCEPT ![l].gone = x, ![l].ended = y, ![l].over = z]
      BY <2>3
    <3>. QED BY <1>2, <3>1
  <2>. QED BY <2>1, <2>2, <2>3 DEF RemoveFromActiveGame
<1>5. CASE EndsTheGame(c)
  <2>1. CASE game' = game BY <1>1, <2>1
  <2>2. CASE Finished(calls[c].at)
    <3>1. PICK l, y, z : game' = [game EXCEPT ![l].ended = y, ![l].over = z]
      BY <2>2 DEF Finished
    <3>. QED BY <1>2, <3>1
  <2>. QED BY <1>5, <2>1, <2>2 DEF EndsTheGame, EndActiveGame
<1>6. CASE \/ JoinCommits(c) \/ CreateSeesTables(c) \/ CreateEvicts(c) \/ CreateInserts(c)
           \/ CloseCommits(c) \/ FillCreatesBot(c) \/ FillSeatsBot(c)
  BY <1>1, <1>6 DEF JoinCommits, CreateSeesTables, CreateEvicts, CreateInserts, CloseCommits,
     FillCreatesBot, FillSeatsBot
<1>. QED BY <1>3, <1>4, <1>5, <1>6 DEF Continue

\* Whoever had the room open when its game was made has asked for nothing yet; if the
\* socket's room holds him, it was not empty, and the broadcast is on its way.
LEMMA ServesKeeps == ASSUME PagesInv, NEW c, Serves(c) PROVE PagesInv'
<1>1. GamesInv' /\ \A l \in Lobbies : game[l].made = TRUE => game'[l].made = TRUE
  BY ContinueMakes DEF Serves, PagesInv
<1>2. Aftermath({}, {}) BY DEF Serves
<1>3. DOMAIN page' = Browsers BY DEF Serves
<1>4. ASSUME NEW v \in Browsers
      PROVE /\ Whole(page'[v]) /\ page'[v].at = page[v].at /\ page'[v].of = page[v].of
            /\ page'[v].get = page[v].get /\ page'[v].hello = page[v].hello
            /\ page'[v].inside = page[v].inside
  <2>. DEFINE new(a) == IF a.call = c /\ calls'[c] = Answered
                        THEN [a EXCEPT !.ok = Came(a.op, v, page[v].of)] ELSE a
  <2>1. "asks" \in DOMAIN page[v] /\ Whole(page[v]) BY DEF PagesInv, Whole, PageFields
  <2>2. page'[v] = [page[v] EXCEPT !.asks = {new(a) : a \in page[v].asks}]
    BY <2>1 DEF Serves
  <2>. HIDE DEF new
  <2>3. /\ DOMAIN page'[v] = PageFields /\ page'[v].at = page[v].at /\ page'[v].of = page[v].of
        /\ page'[v].get = page[v].get /\ page'[v].hello = page[v].hello
        /\ page'[v].inside = page[v].inside /\ page'[v].asks = {new(a) : a \in page[v].asks}
    BY <2>1, <2>2 DEF Whole, PageFields
  <2>4. Whole(page'[v]) BY <2>1, <2>3 DEF Whole
  <2>. QED BY <2>3, <2>4
<1>5. casts \subseteq casts' BY <1>2, CastsStay
<1>6. ASSUME NEW v \in told', v \in told PROVE v \in Browsers /\ Reached(v, page[v])'
  <2>1. v \in Browsers /\ Reached(v, page[v]) BY <1>6 DEF PagesInv
  <2>2. page[v].of \in Lobbies BY <2>1 DEF PagesInv, Whole, Reached
  <2>3. game'[page[v].of].made = TRUE BY <1>1, <2>1, <2>2 DEF Reached
  <2>4. Coming(page[v].of) => Coming(page[v].of)' BY <1>4, <1>5, <2>1 DEF Coming
  <2>5. Fetches(page[v]) => Fetches(page[v])' BY <1>4, <2>1 DEF Fetches
  <2>. QED BY <1>4, <2>1, <2>3, <2>4, <2>5 DEF Reached
<1>7. ASSUME NEW v \in told', v \notin told PROVE v \in Browsers /\ Reached(v, page[v])'
  <2>1. /\ v \in Browsers /\ page'[v].at = "room" /\ page[v].hello = "none"
        /\ ~game[page[v].of].made /\ game'[page[v].of].made
    BY <1>2, <1>7 DEF Aftermath
  <2>2. page[v].of \in Lobbies BY <1>4, <2>1 DEF PagesInv, Whole
  <2>3. game'[page[v].of].made = TRUE BY <1>1, <2>1, <2>2 DEF GamesInv
  <2>4. ASSUME page[v].inside PROVE Coming(page[v].of)'
    <3>1. PICK l : l = page[v].of OBVIOUS
    <3>2. ~RoomEmpty(l) BY <2>1, <2>4, <3>1 DEF RoomEmpty
    <3>3. Details(l).game = game[l].made /\ (Details(l)').game = game'[l].made BY DEF Details
    <3>4. PICK d : d = Details(l)' OBVIOUS
    <3>5. d # Details(l) BY <2>1, <3>1, <3>3, <3>4
    <3>6. [of |-> l, d |-> d] \in casts' BY <1>2, <2>2, <3>1, <3>2, <3>4, <3>5 DEF Aftermath
    <3>7. d.game = TRUE BY <2>3, <3>1, <3>3, <3>4
    <3>8. page'[v].of = l BY <1>4, <2>1, <3>1
    <3>. QED BY <3>6, <3>7, <3>8 DEF Coming
  <2>. QED BY <1>4, <2>1, <2>3, <2>4 DEF Reached
<1>8. \A v \in Browsers : Whole(page'[v]) BY <1>4
<1>. QED BY <1>1, <1>3, <1>6, <1>7, <1>8 DEF PagesInv

-----------------------------------------------------------------------------
LEMMA PagesInvStart == LobbyTypeOK /\ PagesInit => PagesInv
<1>. SUFFICES ASSUME LobbyTypeOK, PagesInit PROVE PagesInv OBVIOUS
<1>1. GamesInv BY DEF LobbyTypeOK, GameRow, GamesInv
<1>2. Whole(Blank) BY DEF Blank, Whole, PageFields
<1>. QED BY <1>1, <1>2 DEF PagesInit, PagesInv

LEMMA PagesStutter == PagesInv /\ UNCHANGED <<vars, pageVars>> => PagesInv'
<1>. SUFFICES ASSUME PagesInv, UNCHANGED <<vars, pageVars>> PROVE PagesInv' OBVIOUS
<1>1. game' = game /\ page' = page /\ told' = told /\ casts' = casts BY DEF vars, pageVars
<1>2. ASSUME NEW v \in told' PROVE v \in Browsers /\ Reached(v, page[v])'
  BY <1>1 DEF PagesInv, Reached, Fetches, Coming
<1>. QED BY <1>1, <1>2 DEF PagesInv, GamesInv

LEMMA PagesNextKeeps == PagesInv /\ PagesNext => PagesInv'
<1>. SUFFICES ASSUME PagesInv, PagesNext PROVE PagesInv' OBVIOUS
<1>1. CASE \E cast \in casts : Sends(cast) BY <1>1, SendsKeeps
<1>2. CASE \E c \in Calls : Serves(c) BY <1>2, ServesKeeps
<1>3. ASSUME NEW u \in Browsers,
             \/ WalksOut(u) \/ Connects(u) \/ Drops(u)
             \/ DetailsRead(u) \/ DetailsArrive(u) \/ ReplyArrives(u)
             \/ JoinHandled(u) \/ JoinDone(u)
             \/ \E a \in page[u].asks : Answers(u, a)
             \/ \E c \in Calls : JoinsByItself(c, u)
      PROVE PagesInv'
  BY <1>3, WalksOutKeeps, ConnectsKeeps, DropsKeeps, DetailsReadKeeps, DetailsArriveKeeps,
     ReplyArrivesKeeps, JoinHandledKeeps, JoinDoneKeeps, AnswersKeeps, JoinsByItselfKeeps
<1>4. ASSUME NEW u \in Browsers, NEW l \in Lobbies,
             \/ OpensRoom(u, l) \/ ReadyReset(u, l) \/ ClicksReady(u, l) \/ ClicksKick(u, l)
             \/ \E c \in Calls : ClicksJoin(c, u, l) \/ Clicks(c, u, l)
      PROVE PagesInv'
  BY <1>4, OpensRoomKeeps, ReadyResetKeeps, ClicksReadyKeeps, ClicksKickKeeps, ClicksJoinKeeps,
     ClicksKeeps
<1>. QED BY <1>1, <1>2, <1>3, <1>4 DEF PagesNext

LEMMA PagesInvAlways == PagesSpec => []PagesInv
<1>1. PagesInv /\ [PagesNext]_<<vars, pageVars>> => PagesInv'
  BY PagesNextKeeps, PagesStutter
<1>. QED BY <1>1, PagesInvStart, PTL DEF PagesSpec

\* A start sends everyone the socket's room holds to the game (LobbyRoomPage.tsx): a page
\* that had the room open when the game was made is gone once nothing is on its way,
\* whatever connections were lost and whichever broadcast or answer came first.
THEOREM StartLeavesNobodyInTheRoom == PagesSpec => []StartSendsTheRoom
<1>1. PagesInv => StartSendsTheRoom
  <2>. SUFFICES ASSUME PagesInv, Quiet, NEW u \in told, page[u].inside, Stuck(u) PROVE FALSE
    BY DEF StartSendsTheRoom
  <2>1. u \in Browsers /\ (Fetches(page[u]) \/ Coming(page[u].of)) BY DEF PagesInv, Reached
  <2>2. ~Coming(page[u].of) BY DEF Quiet, Coming
  <2>3. page[u].get = Unknown BY <2>1 DEF Quiet
  <2>4. Unknown # Asked /\ Unknown.game = FALSE
    <3>1. Asked.status = "asked" /\ Unknown.status = "unknown" /\ Unknown.game = FALSE
      BY DEF Asked, Unknown
    <3>. QED BY <3>1
  <2>. QED BY <2>1, <2>2, <2>3, <2>4 DEF Fetches
<1>. QED BY <1>1, PagesInvAlways, PTL

-----------------------------------------------------------------------------
(* The pages ask for nothing the lobby does not serve.                     *)

LEMMA PagesOnlyAsk == IInv /\ PagesInv /\ PagesNext => Next \/ UNCHANGED vars
<1>. SUFFICES ASSUME IInv, PagesInv, PagesNext PROVE Next \/ UNCHANGED vars OBVIOUS
<1>. USE PagesAssumption
<1>1. \A u \in Browsers : u \in Users /\ Whole(page[u]) BY DEF PagesInv
<1>2. members \subseteq MemberRow BY DEF IInv, LobbyTypeOK
<1>3. ASSUME NEW c \in Calls, NEW l \in Lobbies, NEW u \in Users,
             \/ JoinReads(c, u, l) \/ LeaveLobby(c, u, l) \/ CloseReads(c, l)
             \/ FillReads(c, l) \/ StartReads(c, l)
      PROVE Next
  <2>1. Request BY <1>3 DEF Request
  <2>. QED BY <2>1 DEF Next
<1>4. ASSUME NEW u \in Users, NEW l, ResetReady(u, l) PROVE Next
  <2>1. l \in Lobbies BY <1>2, <1>4 DEF ResetReady, Rows, MemberRow
  <2>2. Request BY <1>4, <2>1 DEF Request
  <2>. QED BY <2>2 DEF Next
<1>5. ASSUME NEW u \in Users, NEW l \in Lobbies, NEW m, SetReady(u, l, ~m.ready) PROVE Next
  <2>1. Request BY <1>5 DEF Request
  <2>. QED BY <2>1 DEF Next
<1>6. ASSUME NEW l \in Lobbies, NEW u, KickMember(l, u) PROVE Next
  <2>1. u \in Users \cup Bots BY <1>2, <1>6 DEF KickMember, Seated, Rows, MemberRow
  <2>2. Request BY <1>6, <2>1 DEF Request
  <2>. QED BY <2>2 DEF Next
<1>7. CASE \E c \in Calls : Serves(c) BY <1>7 DEF Serves, Next
<1>8. CASE \E cast \in casts : Sends(cast) BY <1>8 DEF Sends, Still
<1>9. ASSUME NEW u \in Browsers,
             \/ WalksOut(u) \/ Connects(u) \/ Drops(u)
             \/ DetailsRead(u) \/ DetailsArrive(u) \/ ReplyArrives(u)
             \/ JoinHandled(u) \/ \E a \in page[u].asks : Answers(u, a)
      PROVE UNCHANGED vars
  BY <1>9 DEF WalksOut, Connects, Drops, DetailsRead, DetailsArrive, ReplyArrives, JoinHandled,
     Answers, Still
<1>10. ASSUME NEW u \in Browsers, JoinDone(u) PROVE Next \/ UNCHANGED vars
  BY <1>1, <1>4, <1>10 DEF JoinDone, Still
<1>11. ASSUME NEW u \in Browsers, NEW c \in Calls, JoinsByItself(c, u)
       PROVE Next \/ UNCHANGED vars
  <2>1. page[u].of \in Lobbies BY <1>1, <1>11 DEF JoinsByItself, Whole
  <2>. QED BY <1>1, <1>3, <1>11, <2>1 DEF JoinsByItself, Still
<1>12. ASSUME NEW u \in Browsers, NEW l \in Lobbies,
              \/ OpensRoom(u, l) \/ ReadyReset(u, l) \/ ClicksReady(u, l) \/ ClicksKick(u, l)
       PROVE Next \/ UNCHANGED vars
  BY <1>1, <1>4, <1>5, <1>6, <1>12 DEF OpensRoom, ReadyReset, ClicksReady, ClicksKick, Still
<1>13. ASSUME NEW u \in Browsers, NEW l \in Lobbies, NEW c \in Calls,
              ClicksJoin(c, u, l) \/ Clicks(c, u, l)
       PROVE Next
  BY <1>1, <1>3, <1>13 DEF ClicksJoin, Clicks
<1>. QED BY <1>7, <1>8, <1>9, <1>10, <1>11, <1>12, <1>13 DEF PagesNext

\* Whatever people click, and whichever page their requests come from, the rows keep
\* their indexes, nobody waits as a guest at two tables, and every waiting lobby has its
\* host in it: from any evening the lobby service has led to.
THEOREM PagesKeepTheRows ==
  IInv /\ PagesInit /\ [][PagesNext]_<<vars, pageVars>>
    => [](LobbyTypeOK /\ GuestOfOneTable /\ HostSitsAtHisTable)
<1>1. IInv /\ PagesInit => PagesInv BY PagesInvStart DEF IInv
<1>2. IInv /\ PagesInv /\ [PagesNext]_<<vars, pageVars>> => IInv' /\ PagesInv'
  <2>1. IInv /\ (Next \/ UNCHANGED vars) => IInv'
    BY RequestKeeps, ContinueKeeps, SweepKeeps, WorldKeeps, StutterKeeps DEF Next
  <2>2. UNCHANGED <<vars, pageVars>> => UNCHANGED vars OBVIOUS
  <2>. QED BY <2>1, <2>2, PagesOnlyAsk, PagesNextKeeps, PagesStutter
<1>3. IInv => LobbyTypeOK /\ GuestOfOneTable /\ HostSitsAtHisTable BY DEF IInv, RowsInv
<1>. QED BY <1>1, <1>2, <1>3, PTL
=============================================================================
