------------------------------- MODULE Lobby -------------------------------
(***************************************************************************)
(* Lobbies: the rows Lobby, LobbyMember, Game and User (bots) that the     *)
(* lobby service, the start of a game and the sweeper read and write.      *)
(*                                                                         *)
(* A request that reads first and writes later is a call in flight, and    *)
(* everything else may happen between its steps.  A handler whose only     *)
(* write is decided by the very row it writes is one step.  joinLobby is   *)
(* a serializable transaction: it works on its snapshot, and of two that   *)
(* read what the other writes the second to commit is aborted.             *)
(* endActiveGameForLobby is one step here; GameLog has it write by write.  *)
(***************************************************************************)
EXTENDS FiniteSets, Integers

CONSTANTS Users,        \* people
          Bots,         \* ids for the User rows the host may fill seats with
          Lobbies,      \* ids for Lobby rows
          Calls,        \* bound: the requests of several steps made in all
          PlayerSlots,  \* seats of a table, the judge's aside
          MaxDeleted,   \* bound: accounts deleted
          MaxCrashes,   \* bound: restarts of the server
          Nobody

ASSUME LobbyAssumption ==
  /\ PlayerSlots \in Nat \ {0}
  /\ MaxDeleted \in Nat /\ MaxCrashes \in Nat
  /\ Users \cap Bots = {}
  /\ Nobody \notin Users \cup Bots

VARIABLES lobby,    \* Lobby rows
          members,  \* LobbyMember rows
          game,     \* Game of a lobby: its row and its table in the registry
          bot,      \* bots' User rows
          deleted,  \* people whose account was anonymised
          calls,    \* requests in flight
          sweep,    \* the sweeper
          crashes
vars == <<lobby, members, game, bot, deleted, calls, sweep, crashes>>
-----------------------------------------------------------------------------
Judge == 0     \* the seat of a row with isJudge = true
Seats == 1..PlayerSlots
Active == {"WAITING", "IN_GAME"}

\* old: created more than an hour ago, or no event for three hours.
LobbyRow == [status : {"NONE", "WAITING", "IN_GAME", "CLOSED"},
             host : Users \cup {Nobody}, old : BOOLEAN]
MemberRow == [lobby : Lobbies, user : Users \cup Bots,
              seat : {Judge} \cup Seats, ready : BOOLEAN]
\* seated: GameParticipant rows; gone: those removed; over: finished in memory.
GameRow == [made : BOOLEAN, ended : BOOLEAN, over : BOOLEAN, judge : Users \cup {Nobody},
            seated : SUBSET (Users \cup Bots), gone : SUBSET (Users \cup Bots)]

NoGame == [made |-> FALSE, ended |-> FALSE, over |-> FALSE, judge |-> Nobody,
           seated |-> {}, gone |-> {}]
Idle == [op |-> "idle", by |-> Nobody, at |-> Nobody, seat |-> Judge, seen |-> {}]
Answered == [Idle EXCEPT !.op = "answered"]
Asleep == [at |-> "stale", ids |-> {}]

Rows(l) == {m \in members : m.lobby = l}
Seated(l) == {m.user : m \in Rows(l)}
Taken(l) == {m.seat : m \in Rows(l)}
GuestRows_Hosts(u) == {m \in members : m.user = u /\ lobby[m.lobby].status = "WAITING"}
GuestRows(u) == {m \in members : /\ m.user = u
                                 /\ lobby[m.lobby].status = "WAITING"
                                 /\ lobby[m.lobby].host # u}
Hosting(u) == {l \in Lobbies : lobby[l].status \in Active /\ lobby[l].host = u}
Running(l) == game[l].made /\ ~game[l].ended
Players(l) == game[l].seated \ (game[l].gone \cup {game[l].judge})
People == Users \ deleted

Init ==
  /\ lobby = [l \in Lobbies |-> [status |-> "NONE", host |-> Nobody, old |-> FALSE]]
  /\ members = {}
  /\ game = [l \in Lobbies |-> NoGame]
  /\ bot = [b \in Bots |-> "unborn"]
  /\ deleted = {}
  /\ calls = [c \in Calls |-> Idle]
  /\ sweep = Asleep
  /\ crashes = 0
-----------------------------------------------------------------------------
(* What several handlers do. *)

Send(c, op, u, l, s, seen) ==
  /\ calls[c] = Idle
  /\ calls' = [calls EXCEPT ![c] = [op |-> op, by |-> u, at |-> l, seat |-> s, seen |-> seen]]

Goes(c, op) == calls' = [calls EXCEPT ![c].op = op]
Ends(c) == calls' = [calls EXCEPT ![c] = Answered]

Close(ls) == lobby' = [l \in Lobbies |-> IF l \in ls THEN [lobby[l] EXCEPT !.status = "CLOSED"]
                                                     ELSE lobby[l]]

\* cleanupBotsAfterGame: the bots of the game leave every table and are deleted.
DropBots(gone) ==
  /\ bot' = [b \in Bots |-> IF b \in gone THEN "deleted" ELSE bot[b]]
  /\ members' = {m \in members : m.user \notin gone}

\* The game is over, in the database and in memory.
Finished(l) ==
  /\ game' = [game EXCEPT ![l].ended = TRUE, ![l].over = TRUE]
  /\ DropBots(game[l].seated \cap Bots)

EndActiveGame(l) == IF Running(l) THEN Finished(l) ELSE UNCHANGED <<game, bot, members>>

\* A player, not the judge, is marked removed; that may decide the game.
RemoveFromActiveGame(l, u) ==
  IF Running(l) /\ ~game[l].over /\ u \in Players(l)
  THEN \E decided \in BOOLEAN :
         /\ game' = [game EXCEPT ![l].gone = @ \cup {u}, ![l].ended = decided, ![l].over = decided]
         /\ IF decided THEN DropBots(game[l].seated \cap Bots) ELSE UNCHANGED <<bot, members>>
  ELSE UNCHANGED <<game, bot, members>>
-----------------------------------------------------------------------------
(* Joining, creating, leaving. *)

Placement(l) ==
  ({Judge} \ Taken(l)) \cup {s \in Seats \ Taken(l) : \A t \in Seats \ Taken(l) : s <= t}

JoinReads(c, u, l) ==
  /\ u \in People /\ u \notin Seated(l)
  /\ lobby[l].status = "WAITING"
  /\ \E s \in Placement(l) : Send(c, "join", u, l, s, GuestRows(u))
  /\ UNCHANGED <<lobby, members, game, bot, deleted, sweep, crashes>>

\* Two joins conflict when each reads rows the other writes.
Conflicts_SameLobby(d, call) == calls[d].op = "join" /\ calls[d].at = call.at
Conflicts(d, call) == calls[d].op = "join" /\ (calls[d].at = call.at \/ calls[d].by = call.by)

JoinCommits(c) ==
  LET call == calls[c]
      row == [lobby |-> call.at, user |-> call.by, seat |-> call.seat, ready |-> FALSE]
      evicted == {m.lobby : m \in call.seen}
      serializes == call.seen \subseteq members /\ call.seat \notin Taken(call.at)
                                                /\ call.by \notin Seated(call.at)
  IN /\ call.op = "join"
     /\ IF serializes
        THEN /\ members' = (members \ call.seen) \cup {row}
             /\ calls' = [d \in Calls |->
                  IF d = c THEN IF evicted = {} THEN Answered
                                ELSE [call EXCEPT !.op = "evicted", !.seen = evicted]
                  ELSE IF Conflicts(d, call) THEN Answered ELSE calls[d]]
        ELSE Ends(c) /\ UNCHANGED members
     /\ UNCHANGED <<lobby, game, bot, deleted, sweep, crashes>>

\* removeUserFromActiveGameForLobby for one of the lobbies the user was taken from.
LeavesTheTable(c) ==
  LET call == calls[c] IN
  /\ call.op \in {"evicted", "moving"}
  /\ \E l \in call.seen :
       /\ RemoveFromActiveGame(l, call.by)
       /\ IF call.seen = {l} /\ call.op = "evicted" THEN Ends(c)
          ELSE calls' = [calls EXCEPT ![c].seen = @ \ {l}]
  /\ UNCHANGED <<lobby, deleted, sweep, crashes>>

\* The name is moderated between the two reads.
CreateReads(c, u, s) ==
  /\ u \in People /\ Hosting(u) = {}
  /\ Send(c, "create", u, Nobody, s, {})
  /\ UNCHANGED <<lobby, members, game, bot, deleted, sweep, crashes>>

CreateSeesTables(c) ==
  /\ calls[c].op = "create"
  /\ calls' = [calls EXCEPT ![c].op = "named", ![c].seen = {m.lobby : m \in GuestRows(calls[c].by)}]
  /\ UNCHANGED <<lobby, members, game, bot, deleted, sweep, crashes>>

CreateEvicts(c) ==
  /\ calls[c].op = "named"
  /\ members' = {m \in members : ~(m.user = calls[c].by /\ m.lobby \in calls[c].seen)}
  /\ Goes(c, "moving")
  /\ UNCHANGED <<lobby, game, bot, deleted, sweep, crashes>>

\* The partial unique index refuses a second active lobby of the host.
CreateInserts(c) ==
  LET call == calls[c] IN
  /\ call.op = "moving" /\ call.seen = {}
  /\ IF Hosting(call.by) # {} THEN UNCHANGED <<lobby, members>>
     ELSE \E l \in Lobbies :
            /\ lobby[l].status = "NONE"
            /\ lobby' = [lobby EXCEPT ![l] = [status |-> "WAITING", host |-> call.by, old |-> FALSE]]
            /\ members' = members \cup {[lobby |-> l, user |-> call.by, seat |-> call.seat,
                                         ready |-> FALSE]}
  /\ Ends(c)
  /\ UNCHANGED <<game, bot, deleted, sweep, crashes>>

LeaveLobby(c, u, l) ==
  /\ u \in People /\ u \in Seated(l)
  /\ IF lobby[l].host = u
     THEN Close({l}) /\ Send(c, "ending", u, l, Judge, {}) /\ UNCHANGED members
     ELSE /\ members' = {m \in members : ~(m.lobby = l /\ m.user = u)}
          /\ Send(c, "evicted", u, l, Judge, {l})
          /\ UNCHANGED lobby
  /\ UNCHANGED <<game, bot, deleted, sweep, crashes>>

\* closeLobby by the host, or forceCloseLobbyAsAdmin.
CloseReads(c, l) ==
  /\ lobby[l].status \in Active
  /\ Send(c, "close", Nobody, l, Judge, {})
  /\ UNCHANGED <<lobby, members, game, bot, deleted, sweep, crashes>>

EndsTheGame(c) ==
  /\ calls[c].op \in {"ending", "close"}
  /\ EndActiveGame(calls[c].at)
  /\ IF calls[c].op = "ending" THEN Ends(c) ELSE Goes(c, "shut")
  /\ UNCHANGED <<lobby, deleted, sweep, crashes>>

CloseCommits(c) ==
  /\ calls[c].op = "shut"
  /\ Close({calls[c].at})
  /\ Ends(c)
  /\ UNCHANGED <<members, game, bot, deleted, sweep, crashes>>
-----------------------------------------------------------------------------
(* In the room. *)

\* Nothing reads a judge's own flag, so it is left FALSE.
Update(m, n) == members' = (members \ {m}) \cup {n}

SetReady(u, l, ready) ==
  /\ u \in People /\ lobby[l].status = "WAITING"
  /\ \E m \in Rows(l) : /\ m.user = u /\ m.seat # Judge /\ m.ready # ready
                       /\ Update(m, [m EXCEPT !.ready = ready])
  /\ UNCHANGED <<lobby, game, bot, deleted, calls, sweep, crashes>>

\* The player's page is closed, or opened again, or its socket drops.
ResetReady(u, l) ==
  /\ \E m \in Rows(l) : m.user = u /\ m.ready /\ Update(m, [m EXCEPT !.ready = FALSE])
  /\ UNCHANGED <<lobby, game, bot, deleted, calls, sweep, crashes>>

ClaimJudgeSeat(u, l) ==
  /\ u \in People /\ lobby[l].status = "WAITING"
  /\ Judge \notin Taken(l)
  /\ \E m \in Rows(l) : m.user = u /\ Update(m, [m EXCEPT !.seat = Judge, !.ready = FALSE])
  /\ UNCHANGED <<lobby, game, bot, deleted, calls, sweep, crashes>>

\* The host takes a row out, whatever the lobby's status; nothing is said to the game.
KickMember(l, target) ==
  /\ lobby[l].host \in People
  /\ target \in Seated(l) /\ target # lobby[l].host
  /\ members' = {m \in members : ~(m.lobby = l /\ m.user = target)}
  /\ UNCHANGED <<lobby, game, bot, deleted, calls, sweep, crashes>>

FillReads(c, l) ==
  /\ lobby[l].status = "WAITING" /\ lobby[l].host \in People
  /\ Seats \ Taken(l) # {}
  /\ Send(c, "fill", Nobody, l, Judge, Seats \ Taken(l))
  /\ UNCHANGED <<lobby, members, game, bot, deleted, sweep, crashes>>

FillCreatesBot(c) ==
  /\ calls[c].op = "fill"
  /\ \E b \in Bots :
       /\ bot[b] = "unborn"
       /\ bot' = [bot EXCEPT ![b] = "row"]
       /\ calls' = [calls EXCEPT ![c].op = "seat", ![c].by = b]
  /\ UNCHANGED <<lobby, members, game, deleted, sweep, crashes>>

\* The seats read as free are filled from the lowest on; the first failure ends it.
FillSeatsBot_Blind(c) ==
  LET call == calls[c]
      s == CHOOSE x \in call.seen : \A y \in call.seen : x <= y
  IN /\ call.op = "seat"
     /\ members' = members \cup {[lobby |-> call.at, user |-> call.by, seat |-> s, ready |-> TRUE]}
     /\ Ends(c)
     /\ UNCHANGED <<lobby, game, bot, deleted, sweep, crashes>>
FillSeatsBot(c) ==
  LET call == calls[c]
      s == CHOOSE x \in call.seen : \A y \in call.seen : x <= y
  IN /\ call.op = "seat"
     /\ IF s \in Taken(call.at) \/ bot[call.by] # "row" THEN Ends(c) /\ UNCHANGED members
        ELSE /\ members' = members \cup {[lobby |-> call.at, user |-> call.by, seat |-> s,
                                          ready |-> TRUE]}
             /\ IF call.seen = {s} THEN Ends(c)
                ELSE calls' = [calls EXCEPT ![c].op = "fill", ![c].by = Nobody, ![c].seen = @ \ {s}]
     /\ UNCHANGED <<lobby, game, bot, deleted, sweep, crashes>>
-----------------------------------------------------------------------------
(* The game of a lobby. *)

ReadyToStart(l) ==
  /\ lobby[l].status = "WAITING" /\ ~game[l].made
  /\ Cardinality(Rows(l)) = PlayerSlots + 1
  /\ \E m \in Rows(l) : m.seat = Judge
  /\ \A m \in Rows(l) : m.seat = Judge \/ m.ready

\* Under the lobby's lock: two starts of one lobby never overlap.
StartReads(c, l) ==
  /\ lobby[l].host \in People /\ ReadyToStart(l)
  /\ \A d \in Calls : ~(calls[d].op = "start" /\ calls[d].at = l)
  /\ \E m \in Rows(l) : m.seat = Judge /\ Send(c, "start", m.user, l, Judge, Seated(l))
  /\ UNCHANGED <<lobby, members, game, bot, deleted, sweep, crashes>>

\* The status is set without looking at it again; the indexes and foreign keys may refuse.
StartCommits(c) ==
  LET call == calls[c] IN
  /\ call.op = "start"
  /\ IF \/ Hosting(lobby[call.at].host) \ {call.at} # {}
        \/ \E b \in call.seen \cap Bots : bot[b] # "row"
     THEN UNCHANGED <<lobby, game>>
     ELSE /\ lobby' = [lobby EXCEPT ![call.at].status = "IN_GAME", ![call.at].old = FALSE]
          /\ game' = [game EXCEPT ![call.at] = [NoGame EXCEPT !.made = TRUE, !.judge = call.by,
                                                             !.seated = call.seen]]
  /\ Ends(c)
  /\ UNCHANGED <<members, bot, deleted, sweep, crashes>>

\* The table reaches its end; the lobby stays as it is.
GameFinishes(l) ==
  /\ Running(l) /\ ~game[l].over
  /\ Finished(l)
  /\ UNCHANGED <<lobby, deleted, calls, sweep, crashes>>

\* The red button of a player, which also takes the member row, or of the judge,
\* which ends the game and closes the lobby.  Both still work on a finished table.
PlayerLeavesGame(u, l) ==
  /\ u \in People /\ u \in Players(l)
  /\ \E decided \in {game[l].over, TRUE} :
       /\ game' = [game EXCEPT ![l].gone = @ \cup {u}, ![l].ended = decided, ![l].over = decided]
       /\ LET dropped == IF decided THEN game[l].seated \cap Bots ELSE {} IN
          /\ bot' = [b \in Bots |-> IF b \in dropped THEN "deleted" ELSE bot[b]]
          /\ members' = {m \in members : m.user \notin dropped /\ ~(m.lobby = l /\ m.user = u)}
  /\ UNCHANGED <<lobby, deleted, calls, sweep, crashes>>

JudgeLeavesGame(l) ==
  /\ game[l].judge \in People
  /\ Finished(l)
  /\ Close({l})
  /\ UNCHANGED <<deleted, calls, sweep, crashes>>
-----------------------------------------------------------------------------
(* The sweeper, every five minutes: old lobbies, silent games, orphaned bots.  *)
(* A read that finds nothing is not a step of its own.                         *)

Stale == {l \in Lobbies : lobby[l].status = "WAITING" /\ lobby[l].old}
Zombies == {l \in Lobbies : lobby[l].status = "IN_GAME" /\ lobby[l].old /\ Running(l)}
Orphans == {b \in Bots : /\ bot[b] = "row"
                         /\ \A l \in Lobbies : b \in Seated(l) => lobby[l].status \notin Active
                         /\ \A l \in Lobbies : b \in game[l].seated => ~Running(l)}

Stage(at, ids) == sweep' = [at |-> at, ids |-> ids]

SweepReads ==
  /\ \/ /\ sweep.at = "stale" /\ Stale # {}
        /\ Stage("expire", Stale)
     \/ /\ \/ sweep.at = "silent"
           \/ sweep.at = "stale" /\ Stale = {}
        /\ Zombies # {}
        /\ Stage("zombies", Zombies)
     \/ /\ \/ sweep.at = "orphans"
           \/ sweep.at = "silent" /\ Zombies = {}
           \/ sweep.at = "stale" /\ Stale = {} /\ Zombies = {}
        /\ IF Orphans # {} THEN Stage("delete", Orphans)
           ELSE sweep.at # "stale" /\ Stage("stale", {})
  /\ UNCHANGED <<lobby, members, game, bot, deleted, calls, crashes>>

SweepExpires ==
  /\ sweep.at = "expire"
  /\ Close(sweep.ids)
  /\ Stage("silent", {})
  /\ UNCHANGED <<members, game, bot, deleted, calls, crashes>>

\* Each game is ended, then all the lobbies are closed.
SweepEndsZombies ==
  /\ sweep.at = "zombies"
  /\ LET ends == {l \in sweep.ids : Running(l)}
     IN /\ game' = [l \in Lobbies |-> IF l \in ends THEN [game[l] EXCEPT !.ended = TRUE, !.over = TRUE]
                                                    ELSE game[l]]
        /\ DropBots(UNION {game[l].seated \cap Bots : l \in ends})
  /\ Stage("shut", sweep.ids)
  /\ UNCHANGED <<lobby, deleted, calls, crashes>>

SweepClosesZombies ==
  /\ sweep.at = "shut"
  /\ Close(sweep.ids)
  /\ Stage("orphans", {})
  /\ UNCHANGED <<members, game, bot, deleted, calls, crashes>>

SweepDeletesOrphans ==
  /\ sweep.at = "delete"
  /\ DropBots(sweep.ids)
  /\ Stage("stale", {})
  /\ UNCHANGED <<lobby, game, deleted, calls, crashes>>
-----------------------------------------------------------------------------
(* The world around: time, deleted accounts, a restart. *)

GrowsOld(l) ==
  /\ lobby[l].status \in Active /\ ~lobby[l].old
  /\ lobby' = [lobby EXCEPT ![l].old = TRUE]
  /\ UNCHANGED <<members, game, bot, deleted, calls, sweep, crashes>>

\* deleteOwnAccount and deleteUserAsAdmin: hosted lobbies are closed, their games go on.
DeleteAccount(u) ==
  /\ u \in People /\ Cardinality(deleted) < MaxDeleted
  /\ deleted' = deleted \cup {u}
  /\ members' = {m \in members : m.user # u}
  /\ Close({l \in Lobbies : lobby[l].host = u})
  /\ UNCHANGED <<game, bot, calls, sweep, crashes>>

\* Calls under way are lost; running games are replayed from their events.
Crash ==
  /\ crashes < MaxCrashes
  /\ crashes' = crashes + 1
  /\ calls' = [c \in Calls |-> IF calls[c] = Idle THEN Idle ELSE Answered]
  /\ sweep' = Asleep
  /\ UNCHANGED <<lobby, members, game, bot, deleted>>
-----------------------------------------------------------------------------
Request ==
  \/ \E c \in Calls, l \in Lobbies :
       \/ CloseReads(c, l) \/ FillReads(c, l) \/ StartReads(c, l)
       \/ \E u \in Users : JoinReads(c, u, l) \/ LeaveLobby(c, u, l)
  \/ \E c \in Calls, u \in Users, s \in {Judge, 1} : CreateReads(c, u, s)
  \/ \E u \in Users, l \in Lobbies :
       \/ \E ready \in BOOLEAN : SetReady(u, l, ready)
       \/ ResetReady(u, l) \/ ClaimJudgeSeat(u, l) \/ PlayerLeavesGame(u, l)
  \/ \E l \in Lobbies : JudgeLeavesGame(l) \/ \E u \in Users \cup Bots : KickMember(l, u)

Continue(c) ==
  \/ JoinCommits(c) \/ LeavesTheTable(c)
  \/ CreateSeesTables(c) \/ CreateEvicts(c) \/ CreateInserts(c)
  \/ EndsTheGame(c) \/ CloseCommits(c) \/ FillCreatesBot(c) \/ FillSeatsBot(c)
  \/ StartCommits(c)

Sweep ==
  \/ SweepReads \/ SweepExpires
  \/ SweepEndsZombies \/ SweepClosesZombies \/ SweepDeletesOrphans

World ==
  \/ \E l \in Lobbies : GameFinishes(l) \/ GrowsOld(l)
  \/ \E u \in Users : DeleteAccount(u)
  \/ Crash

Next == Request \/ (\E c \in Calls : Continue(c)) \/ Sweep \/ World

Spec == Init /\ [][Next]_vars
-----------------------------------------------------------------------------
(* What the lobby promises. *)

\* Every variable has its type, and the rows keep the database's unique indexes: a
\* user has one row in a lobby and a seat one row (schema.prisma, LobbyMember).
LobbyTypeOK ==
  /\ lobby \in [Lobbies -> LobbyRow]
  /\ members \subseteq MemberRow
  /\ \A m, n \in members : m.lobby = n.lobby /\ (m.seat = n.seat \/ m.user = n.user) => m = n
  /\ game \in [Lobbies -> GameRow]
  /\ bot \in [Bots -> {"unborn", "row", "deleted"}]
  /\ deleted \subseteq Users

\* Nobody waits as a guest at two tables: joining takes the user out of every other
\* waiting lobby, and of two joins at once one is aborted (joinLobby).
GuestOfOneTable == \A u \in Users : \A m, n \in GuestRows(u) : m = n

\* The host of a waiting lobby sits in it, whatever he joins, creates or is kicked
\* from elsewhere: without him nobody could start or close it.
HostSitsAtHisTable ==
  \A l \in Lobbies : lobby[l].status = "WAITING" => lobby[l].host \in Seated(l)

\* closeLobby's comment: a closed lobby leaves no running game behind, into which its
\* players would be redirected.
NoOrphanedGame ==
  (\A c \in Calls : calls[c] \in {Idle, Answered}) =>
    \A l \in Lobbies : lobby[l].status = "CLOSED" => ~Running(l)
=============================================================================
