# Online Mafia: a verification project

The repository is a web platform for sport mafia: ten seats at a table, a judge
who moves the evening on with buttons, and players who speak, nominate, vote,
shoot and check. Around the table there are lobbies where it is gathered, clubs,
accounts, and the pages of a browser that show it all. This directory holds TLA+
models of that code, TLC runs over small instances, and theorems checked by
TLAPS. Every definition is translated from the source; `PROJECT.json` maps each
one to the lines it models, and lists components, hazards, runs, mutants and
findings.

Short names for files below: `phase.ts`, `speaker.ts`, `voting.ts`, `night.ts`,
`judge.ts`, `shared.ts`, `projection.ts` are `modules/game/game.engine.*.ts` of
the backend; `actions.ts` is `modules/game/game.actions.ts`, and so on;
`membership.ts` and the like under *Lobby* are `modules/lobby/lobby.*.ts`, under
*Clubs* `modules/clubs/club.*.ts`. Pages and hooks are those of
`src/packages/frontend/src/features`.

## 1. Inventory

### Rules engine (`game.engine.*.ts`, `game.state.ts`, shared constants)

- **State**: one immutable `GameState` per game: phase, day number, the ten
  participants (role, alive, removed, fouls, has spoken), the floor
  (`currentSpeakerSeat`, `lastNominatorSeat`), the day's lists
  (`nominationSeats`, `votes`, `voteRoundIdx`, `tiedSeats`,
  `shootoutSpeakerIdx`, `liftAllVotes`, `lastWordSeats`, `lastWordIdx`), the
  night (`mafiaVotes`, `pendingMafiaTargetSeat`, the two checks,
  `lastNightVictimSeat`), the best move, the card ceremony, the flags
  `disqualifiedThisDay` and `firstDayMultiVoteKill`, the winner.
- **Operations**: pure functions from a state to a state or a refusal:
  `applyAdvancePhase`, `applyNextSpeaker`, `applyNominate`, `applyCastVote`,
  `applyJudgeRemove` and a dozen more.
- **Hard behaviour**: a removal can hit any seat in any phase, and every list
  above may hold that seat; a ballot goes through a tie, tie speeches, a second
  ballot and a question about all of the tied; the verdict is deferred so that
  a victim may speak; several indices point into lists that shrink.
- **Correct when**: a removed seat leaves no trace; nominations, ballots and
  ties mean what the phase says they mean; a cancelled day kills nobody; the
  night kills only by consensus; everybody is heard; a decided game goes
  nowhere but to its end; the judge's button brings every ballot to an end.

### Game actions (`game.actions.ts`, `game.role-distribution.ts`, `game.cleanup.ts`, `game.service.internal.ts`)

One function per button. Each runs under `withLock(gameId)`: read the state from
the registry, check who is asking, call the engine, write one or two events,
`commit`. They interact with the engine by call, with the registry by shared
memory, with the database and the media server by asynchronous calls.
**Correct when** the sequence of them keeps what the engine promises.

### Card ceremony (`game.role-distribution.ts`)

Seats pick face-down cards in order, ten seconds each; a Node timer per game
then picks for the sleeper. The callback decides *before* it takes the lock.
**Correct when** the turn always belongs to somebody who can take it, a late
automatic pick takes nobody's turn, and the ceremony ends without any click.

### Per-game lock (`lib/mutex.ts`)

A map from a key to the tail of a chain of promises. **Correct when** tasks of
one key run one at a time, in the order they were asked for, also after a task
that threw, and the map entry goes away only when nobody waits.

### Registry, event log, revert, recovery (`game.registry.ts`, `game.recovery.ts`, `game.snapshot.ts`)

The registry keeps the state and a stack of ten snapshots per game, one from before
each judge step and each withdrawn nomination; every action appends events with consecutive `seq`; a restart replays them through the
engine. **Hard**: two events of one action of which only the first was written;
revert, which rewinds the state and not the log; a crash between the last event
and `commit`; a cleanup timer that fires ten minutes after the end. **Correct
when** `nextEventSeq` never collides, and what is replayed is what was played.

### Finishing a game (`game.stats.ts`, `game.achievements.ts`, `game.cleanup.ts`)

`commit` of a finished state writes the winner and applies the statistics once;
closing a lobby ends the game on another path. **Correct when** statistics are
applied exactly once and agree with the stored winner.

### Bots (`game.bots.ts`)

Every second and a half a tick reads a table and goes through its bots in seat
order, waiting for each one's move; the later ones therefore decide on a table
that has changed since. **Correct when** what they decide is legal and the
black bots come to one target.

### What the table shows (`projection.ts`, `media-visibility.ts`, `actionForSeat.ts`, the tiles, `game.media-permissions.ts`)

`projectFor` hides roles, shots, checks and the list of nominees from whoever is
not to see them; everything a browser draws, offers or lets be heard is a
function of that projection and of the seat that looks. **Correct when** what is
hidden never takes away a button or adds one the service refuses, one voice is
heard by day and none at night, and a red player learns nothing of the night.

### Game page, socket, broadcast (`useGameConnection.ts`, `game.socket.ts`, `game.store.ts`, `game.gateway.ts`, `game.broadcast.ts`)

A page joins a game's room when it is mounted and whenever its socket connects;
an action names no game and is about the game whose room the socket is in; after
an action the registry is read again and sent to the room. **State**: socket,
rooms, messages on their way, the page and the table it shows. **Hard**: lost
connections, what was emitted offline, a page change with answers on their way,
a restart after which recovery is not done. **Correct when** a click is about the
page it was made on, and screens never go back and catch up.

### Lobby (`modules/lobby`, `game.lifecycle.ts`)

- **State**: the rows `Lobby` (status, host), `LobbyMember` (seat, judge, ready),
  `Game` with its participants, and the `User` rows of bots.
- **Operations**: create, join (a serializable transaction), leave, kick, claim
  the judge's seat, ready, fill with bots, close, start, the game's own end and
  leaving it, a sweeper every five minutes.
- **Hard**: all but the smallest read first and write later, in another
  transaction; only start is under a lock.
- **Correct when** rows keep their unique indexes, nobody waits at two tables, a
  waiting table has its host, and a closed lobby leaves no running game.

### Lobby pages (`LobbyListPage.tsx`, `LobbyRoomPage.tsx`, `LobbyRoom.tsx`, `useLobbyConnection.ts`, `lobby.gateway.ts`, `lobby.broadcast.ts`, `lobby.routes.ts`)

A room page reads the lobby by GET, hears `LOBBY_UPDATED` on its socket, joins by
itself whoever came by a link, and goes to the game when the lobby has one.
**Hard**: the GET, the broadcasts and the answers overtake each other; the room
lets in members only. **Correct when** the start reaches everybody who is there.

### Clubs (`modules/clubs`)

`Club` with its head, members by time of joining, requests, and the primary club
of an account; submit, cancel, approve, reject, kick, leave, transfer, disband,
and the hand-over when an account is deleted. **Hard**: a check, then a
transaction. **Correct when** the head and those who have it as their primary
club are members, and nobody is a member of more clubs than allowed.

### Accounts and sessions (`modules/auth`, `modules/admin`, `plugins/socketio.ts`, `plugins/authenticate.ts`)

`User` rows with a token version, cookies, sockets that keep a copy of the
restrictions; registration, both sign-ins, deletion, restrictions, the roster of
administrators, the recheck of open sockets. **Hard**: a handshake that is under
way while the restriction is written; a row read and written later by id.
**Correct when** a ban reaches every socket and addresses stay unique.

### The rest

- **Role deal** (`game.engine.roles.ts`): a shuffle; any deal is possible.
- **Rate limiting, chat buffer, debug log**: small in-memory structures.
- **Mail, storage, name moderation, the media server**: calls to services.
- **Rest of the web client**: forms over REST calls.

## 2. What is modelled

| module | models | how |
|---|---|---|
| `GameRules` | the engine | one operator per function: `CanX(g, ...)` is when it answers ok, `ApplyX(g, ...)` its answer |
| `GameEngine` | the actions | `VARIABLE game`; one action per exported function of `actions.ts`, `pickRoleCard` and both branches of `leaveGameAsParticipant`; `Spec` |
| `GameProperties` | - | what the runs check of a table |
| `GameCycle` | the abstract evening | who is in play, the stage, the verdict; `GameEngine` implements it (`RefinesCycle`) |
| `CardCeremony` | the ceremony with its timer | `game`, the seat the pending timeout is for, the automatic picks that wait for the lock |
| `TableBots` | the bot ticker | `game`, which seats are bots, and for each bot still ahead in the tick the moves it may choose from |
| `TableView` | projection, controls of both layouts, media filters | pure operators of a table and a viewer |
| `ViewProperties` | - | what the screens of one table must agree on with its service |
| `Mutex` | `withLock` | per call its promise and the one it was chained to; per key the tail, which is all the code keeps |
| `Feed` | game page, socket, gateway, broadcast | extends `Mutex`: a table is the number of changes it has seen, each change a call of the lock |
| `GameLog` | registry, event log, revert, recovery, end of a game | an action is a job done write by write; the disk (`log`, `row`) and the memory (`game`, `up`, `seq`, `history`, `cleanup`) apart |
| `Lobby` | lobbies, starting a game, the sweeper | rows, and requests in flight that go from read to write |
| `LobbyPages` | list and room in a browser, its socket | extends `Lobby`: pages, broadcasts and answers on their way |
| `Accounts` | users, cookies, sockets, administrator | rows, tokens with their version, requests in flight |
| `Clubs` | clubs and the hand-over at deletion | extends `Accounts` |
| `GameEngineProofs` | - | types of every engine function, the cancelled day, speakers and card pickers |
| `CourtProofs` | - | the lists and ballots of the day |
| `CycleProofs` | - | the refinement of `GameCycle`, the night's victim, the best move, the bots, the ceremony's clock |
| `ViewProofs` | - | what the screens show and what they offer |
| `FeedProofs` | - | the lock; screens and clicks |
| `LogProofs` | - | event numbers, replay, the result, statistics |
| `LobbyProofs` | - | the rows of the lobby; its pages |
| `PlatformProofs` | - | accounts and clubs |
| `MCGameEngine`, `MCTableBots`, `MCCardCeremony`, `MCGameLog`, `MCFeed`, `MCLobby`, `MCPlatform` | - | small instances, and points of the evening to start from |

**State.** `GameState` has the code's fields under shorter names (each is named
in a comment). A null seat is `NoSeat` = 0. A `Map` from seats is a total
function with `NoSeat` or `"none"` for an absent key. Arrays keep zero-based
indices. Participants become four fields indexed by seat.

**What is left out of the table's data.** Deadlines and the five audible seconds
of `outOfTurnSpeaker` (in `TableView` whether they have run out is an argument);
what a check revealed and which seats a best move named (no engine function reads
them back: who made the check is kept, because the projection shows the result to
him alone; of a best move, that it was made); the judge's own participant entry, which the engine never
changes (a removal of the judge is refused).

**Atomicity of a table.** `withLock` makes each action one step of `GameEngine`;
`Mutex` shows that it does. What that step hides is modelled twice elsewhere:
what is decided *outside* the lock in `CardCeremony` (the timeout reads the
table, later the pick lands) and in `TableBots` (the tick reads the table, the
moves come later), and what is written *while* an action holds the lock in
`GameLog`: there the action is a `job`, each event, the Game row and the two
halves of `finalizeGameStats` are steps of their own, and the closing of the
lobby, the cleanup timer, a failed write or a crash come in between.

**Atomicity of requests.** In `Lobby`, `Clubs` and `Accounts` a request that
reads first and writes later is a call in flight, and everything else may happen
between its steps; `authenticate` and the first read of the handler are one
step. A handler whose only write is decided by the very row it writes is one
step. `joinLobby` is serializable: it works on the rows it read, and of two that
read what the other writes the second to commit is aborted. The two serializable
transactions of the clubs count and write in some serial order, so each is one
step.

**The log.** `GameLog` uses the engine's operators twice: `Act` applies one to
the table in memory and logs an event, `ApplyEvent` is replay's case for that
event. The log starts at the table `start` instead of at the creation of the
game: replay is a fold, so its first part would be the same on both sides. A
run starts there, or with one event already in the log, as after a restart.
`JUDGE_LEFT` and `GAME_ENDED` are one event type in the code with two payloads,
as are `LIFTED` and `NOT_LIFTED`. `LeavesSnapshot` names the actions a revert can go
back behind: both judge steps and the withdrawal of a nomination. After a crash `game` keeps the lost table's
value until replay; nothing reads it while `up` is false.

**Pages of a game.** In `Feed` messages between a browser and the server stay in
order and die with the connection. The handshake and the handling of `GAME_JOIN`
are one step each. What is emitted offline is kept by the socket client and sent
before the page's own `connect` handler runs (a library's behaviour, modelled
from how `useGameConnection.ts` uses it). Recovery puts the games back one by one
while the sockets already return.

**Buttons.** `DeskControls` and `PhoneControls` are what each layout offers, as
pairs of a request and its target. Two of the desktop's guards are read off the
browser's clock and not off the table: the five seconds of a cry
(`inActiveWindow`) and the deadline of a ballot (`expired`). Both are arguments of
`DeskControls`, and `ButtonsWork` and `LegalMoveHasButton` hold for either value of
each. They compare the desktop with what the service takes, apart from what is
named: `KnownRefusals` (buttons it shows and the service refuses), `NoButtonFor`
(moves the service takes and no button sends) and `WithheldByTheClock` (moves the
desktop withholds by a clock the service does not keep). The phone's are modelled and not
compared: they are offered without guards (see *Met while reading*).

**Pages of a lobby.** A broadcast reads the lobby when it changes and is sent
later, so two of them, and a GET, arrive in any order; one that finds the room
empty is not sent. `inside` is membership of the socket's room. A page takes what
it is shown and does what its effects say (to the game, back to the list, the
automatic join) in one step; a click and what it asks for first are one step.
A lost connection is seen at both ends at once, and the flag of whoever was ready
is reset later (`unready`). `LOBBY_LEAVE` comes after a `LOBBY_JOIN` still under
way. `told` is a history variable: who had the room open and connected, with no
`LOBBY_JOIN` under way, when the lobby got its game. The web client never asks
for the judge's seat. Left out: the password dialog, creating a lobby from the
list, the chat, and the refetch when a window gets the focus back, which would
mend a page that is stuck once its user looks away.

**Accounts and clubs.** The token is signed with the version of the row as it was
read. Passwords are right or not sent; names and mail are data. Anonymising
clears the address in the model; in the code it becomes a marker nobody has. What
deletion does with lobbies is in `Lobby` (`DeleteAccount`), what it does with
clubs in `Clubs` (`HandOffReads` and the steps after it).

**Left out of the lobby.** The hint for the deal (`preassignRole`; its cap is read
first and the hint written later, so two at once may name two sheriffs, and
`assignRoles` obeys: what is said of the table is therefore said of any deal, and
`table_runoff` and `table_nights` also start from a table with two sheriffs),
passwords (a refusal like any other), the chat. `old` stands for the two ages the sweeper
looks at. `endActiveGameForLobby` is one step here and seen write by write in
`GameLog`.

**Left out of the bots.** Two ticks that overlap (a move takes far less than the
interval) and a move whose write fails, which would end the tick
(`bots.ts:27`).

**Removed players** may still be named by others where the code allows it: the
guards are those of the engine, the service's own check (`loadGameForUser`
refuses a removed player) is in the player actions.

**After the end.** No action asks whether the game is over, so the model goes on
after `GAME_OVER` just as the code does.

**Mutants.** A definition named `X_Suffix` before `X` is a plausible bug in
`X`. None is used by the specification; each shows that one property would fail
if the code had that bug.

## 3. Runs

Thresholds are scaled down: one foul mutes (code: 3) and two remove (code: 4).
The thresholds only occur in comparisons with one seat's counter, and mute still
comes strictly before removal, so every path of the code is there. `MaxDay`,
`MaxNominees`, `MaxFouls`, `MaxRemoved` bound counters, each in the guard of the
one action that raises it; removal by fouls comes on top of `MaxRemoved`.
`FoulPhases` bounds where fouls are given: `table_day` gives them only in the card
ceremony and in the speeches, the phases in which who speaks or picks next depends
on them, and its action constraint `FoulsEarly` follows a fouled table only up to
the vote intro, with one nomination. The theorems of section 4 have no such bound.

| run | starts at | instance | what it asks |
|---|---|---|---|
| `table_day` | introductions | 4 seats, 2 nominees, 2 fouls, 1 removal | `TypeOK`, `NominationsStand`, `RemovedLeavesNoTrace`, `OneVoiceByDay`, `TheNightIsDark`, `EveryoneHeard`, and the refinement `RefinesCycle` |
| `table_runoff` | first ballot; first dusk of a table with two sheriffs | 5 seats, 2 or 3 nominees, 1 removal | `TieIsTheBallotPaper`, `BallotsCount`, `BestMoveIsForfeited`, `CancelledDayKillsNobody`, `ButtonsWork`, `LegalMoveHasButton`; `BallotConcludes` under fairness of one button |
| `table_nights` | first dusk | 6 seats, two shooters, 2 nights, 1 removal; a bot side, or one bot of it, and a bot sheriff; or two sheriffs and no bot | `NightVictimWasShotByAll`, `NightMovesLeakNothing`, `BotsDecideLegally`, `BotsAgree` |
| `ceremony` | introductions | 4 seats, 1 foul, 1 removal, 2 automatic picks in flight | `PickerCanPick`, `LateAutoPickIsVoid`, `FullCeremonyEnds` |
| `clicks` | no call made; games known, or being recovered | 2 games, 3 calls, any of which may throw, one browser, 2 visits, 1 drop | `InOrder`, `NoLeak`, `EveryCallReturns`, `ClickMeansThePage`, `ScreenNeverGoesBack`, `ScreensCatchUp` |
| `game_log` | first or last speech; or just entered: ceremony, ballot, question, night, morning | 4 seats, 3 events, 1 crash or failed write, 2 snapshots | `ReplayIsFaithful`, `NoCollision`, `StatsCountedOnce`, `ResultIsWritten` |
| `lobby` | a table filled with a bot; two waiting tables; a host in his room, browsers online | 3 people, 1 bot, 2 lobbies, one player's seat, 2 requests, 1 deletion, 1 restart; 2 browsers, 1 drop | `LobbyTypeOK`, `GuestOfOneTable`, `HostSitsAtHisTable`, `StartSendsTheRoom` |
| `platform` | two clubs of three people; or a signed-in person and an administrator | 3 accounts, 3 devices, 2 requests, 3 clubs, at most 2 memberships, 2 versions | `PlatformTypeOK`, `MembershipCap`, `ClubsInOrder`, `CopiedBansAreCurrent`, `BansTakeHold` |

**Why these instances are enough.** Four seats with a don and a sheriff let a day
have a tie, a victim, a night kill and both verdicts. Five seats allow a
three-way tie that shrinks, and a tie of two with an odd number of voters. Six
seats are the smallest table on which two shooters, one removal and two nights
fit before a verdict. A walk round the table needs a wrap, a dead seat, a muted
one and one that has spoken at once: four seats have them. Two requests are
enough for each race of the lobby, the clubs and the accounts that was found by
reading: each is between a check of one request and a write of another. One
player's seat makes two people, or a person and a bot, meet at it. Three clubs
and a cap of two let one person be accepted twice at the limit.

**Where they start.** The moments of `table_runoff`, `table_nights` and
`game_log` are states the engine's own operators compute from a new game, so
they are reachable ones; the evening before them is what `table_day` explores.
The moments of `MCLobby` and `MCPlatform` are rows that requests one after the
other leave behind; a second request in flight is what those runs add.
`MCPlatform` keeps its two evenings apart: in the clubs' evening nobody signs in
again, in the accounts' evening no club is left. In the lobby run's first two
moments no page is open; in the third the sweeper, deletion and restarts rest.

**Symmetry.** `Cards` are interchangeable and permuted in the safety runs of the
table, `Calls` in those of the lobby. Seats are not: their order is the game.
Runs with a liveness property use none, apart from `table_day`, whose action
properties and refinement are safety.

**Fairness.** `table_runoff` assumes that the judge keeps pressing "next
speaker" while a ballot is under way (`WF` of `BallotUnderWay /\ JudgeAdvanceSpeaker`,
with its ENABLED spelt out); no scheduler guarantees it, so the property says:
nothing but the judge's patience is needed. It is weak fairness:
the button is enabled all the time, and an action that leaves the state
unchanged does not count as a step, so a ballot in which the button had no
effect would be reported. `ceremony` assumes only that Node fires a pending
timer and that a task queued on the lock runs (`WF` of `TimerFires` and
`AutoPickLands`), `table_nights` that the bots' interval fires and their
promises settle (`Tick`, `BotMoves`); no human action is fair. `clicks` assumes
that the runtime runs what is ready, that every task ends (one that never ends
would hold its key for ever, and the code has no timeout against that), that
messages arrive while the connection lasts, and that a browser with a page open
reconnects, as the socket client does by itself. `platform` assumes the
five-minute interval that rechecks open sockets (`WF` of `Recheck`).

**Deadlock** is checked in the table's runs: "advance phase" is always possible.
It is off in `clicks`, `lobby`, `platform` and the two violations of the lobby,
where the bounded number of requests ends, and in `game_log`, where a game that
was dropped from the registry has nothing left to do.

**Bounds of `game_log`.** From the speeches three events are enough for an
action, a revert and an action after it (in the last speech, where two stand
nominated, the action may be a withdrawal); for a speaker step with both of its
events and a third that meets the number it left behind; for a removal that ends
the game with both of its events and something after the end; and for the stack
of two snapshots to overflow. From the five other points two more events fit
after the one that led there, so that replay meets every kind of event: a card,
a vote, an answer, a shot, a best move. One mishap (`MaxMishaps`) is one crash or
one failed write, at every point of all of this. The engine's own bounds
(`MaxDay` and so on) guard actions this specification does not use; the number
of events takes their place.

**Bounds of `clicks`.** Either three calls and no browser, or calls and pages
together at most `Together`. Three calls on two games give a chain of two and a
call on another key; `FeedProofs` removes the bound. Two visits take the browser
from one game to the other or back to the same; one drop may hit any moment. At
most two clicks wait at once (`Click`).

**Bounds of `lobby`.** Online, at most `UnderWay` broadcasts and GETs are on
their way, and the host keeps his connection and stays until he leaves, closes or
starts: what the properties ask of is the guest's page. **Of `platform`**: the
administrator's account and the devices `d2` and `d3` stay as they are, tokens
have versions up to `MaxVersion`. `overlapped` of `Clubs` is a history variable: about which
clubs two requests were in flight at once; `ClubsInOrder` is stated for the
others.

`MaxAutoPicks` 2 lets an automatic pick wait for the lock while the next timeout
fires.

### Findings

Each is a run that must end in a violation.

- `stuck_in_the_room`: whoever follows a share link sends `LOBBY_JOIN` as soon as
  his page is there, before the automatic join has made him a member; it is
  refused, and nothing sends it again. He sits at the table and can mark himself
  ready, but his socket is in no room and the start never reaches his page
  (`useLobbyConnection.ts:36`, `lobby.gateway.ts:48-69`). `StartSendsTheRoom` shows
  that nobody is lost whose socket *is* in the room.
- `orphaned_game`: `closeLobby` looks for a game before it sets `CLOSED`, and a
  start does not look at the status again, so a lobby can be closed with its game
  running, against the comment at `lobby.room.ts:78-80`.
- `restart_forgets`: replay does nothing for the `GAME_ENDED` of a judge who
  left, so a crash before the Game row is updated brings the game back; and it
  has no case for `PLAYER_UNNOMINATED` and `FOUL_REVOKED`, so any restart brings
  back the withdrawn nomination and the revoked foul. `ReplayIsFaithful` shows
  that these three are all: without them, and after a revert also with them,
  what is replayed is what was played (or, after a failed second write, one event
  more; see *Log, end and restart*).
- `last_word_unheard`: when two were voted out together and the first of them is
  removed after his word, `applyJudgeRemove` shortens `lastWordSeats` and leaves
  `lastWordIdx`, so the projection names no last-word seat and no browser lets
  the second one be heard (`judge.ts:164-165`, `media-visibility.ts:105-108`).

Met while reading, without a run.

*At the table*

- Removing the seat that is to pick a card gives the turn to the next one without
  arming its ten seconds (`actions.ts:393`); the ceremony then waits for a click.
  `FullCeremonyEnds` shows that removal is the only way this happens.
- When whoever has the floor of the speeches is removed, the request behind
  "next" (`ADVANCE_SPEAKER`) does nothing any more, although `judge.ts:184-185`
  says the judge will advance to the next speaker; only "next phase" or a revert
  goes on.
- With three condemned, the removal of an earlier one makes the queue of last
  words skip one altogether (`speaker.ts:25`).
- A nomination quota used up on a day that the judge left with "next phase" is
  still used up when the same seat opens a later day (`speaker.ts:145` promises
  a fresh one with every speech; `phase.ts:286` leaves `lastNominatorSeat`).
- A night victim removed during the morning still gets the farewell minute
  (`phase.ts:406`; `judge.ts:113-118` purges the rest), and the form of the best
  move is offered and refused. If the judge leaves the speeches with "next phase",
  the farewell stays set: the victim is heard and seen through the night, and as a
  second voice in the tie speeches (`media-visibility.ts:220-226` promises
  silence).
- The target of the shot last made stays shown after its shooter or the target
  was removed. During the ceremony "has picked" is judged by the number of cards
  gone (`projection.ts:166-173`), so after a removal a later seat sees its role
  late. A player removed by his own fourth foul loses his microphone at once,
  although `judge.ts:84-86` promises five seconds.
- Desktop: the form of a forfeited best move is shown; shots at one's own side are
  offered; the cry out of turn is offered during the ballots;
  `SeatVideoTile.tsx:301-303` says the dead can be checked and `actionForSeat`
  gives no button; at a table dealt two sheriffs the second keeps the button of the
  check, and is refused, after the first has checked (`projection.ts:42-51`). By the
  browser's clock it withholds another cry for five seconds
  (`SelfMediaButtons.tsx:24-29`) and the ballots past their deadline
  (`VoteBody.tsx:49`, `LiftVoteBody.tsx:41`); the service has no clock in either
  and takes them until the judge goes on. The don is told to wait while his shot is required. Phone: no
  form for the best move and no result of a check; nominating is offered without
  its guards, actions to dead players, and the ballot of the question again after
  it was given.

*Log, end and restart*

- When the second of two events cannot be written, the first has spent its
  number and the table in memory does not know: every later action of that game
  fails on the unique key until a revert (which asks the database, `NoCollision`)
  or a restart, which plays that first event. `PersistCollides` is the step;
  `ReplayIsFaithful` says that the log is then ahead by that one event and by no more.
- A crash between a game's last event and the update of its row leaves a game
  that is over in the log and has no `endedAt`: replay reaches the end and does
  not register it, and nobody writes the result.
- A revert of a finished game leaves `endedAt`, the winner and the counters as
  they were, and does not stop the cleanup timer: ten minutes later the running
  game is dropped from the registry. The comment at `service.internal.ts:205`
  takes it for granted that a finished game stays finished.
- A lobby closed while a winning action is writing lets the statistics be marked
  as skipped; the winner is stored afterwards and never counted.
- Recovery lists the running games before it replays them and is not awaited: a
  lobby closed in between comes back as a running game in memory; and a page
  whose `GAME_JOIN` comes before its game is back shows an error until its socket
  connects again (`index.ts:16-20` says clients can retry).
- `cleanup.ts:92-94` says that a closed lobby costs every player a loss;
  `stats.ts:46-63` counts nothing for a game without a winner.
- `removeUserFromActiveGameForLobby` (`cleanup.ts:33-66`) broadcasts nothing:
  screens are stale until the next action. An action that throws after `setGame`
  is answered with an error and not broadcast either. A table on its way when the
  page changes is shown on the next page until its own arrives.

*Lobbies*

- Several reads and writes of a member's place race: a start that has read the
  members seats one who leaves or is kicked meanwhile; a join can commit into a
  lobby whose start has just committed; a kick during a game leaves the
  participant at the table; the sweeper may delete a bot just created.
- The host may sit as a guest in another waiting lobby (`docs/lobby.md:73`
  says otherwise). After `GAME_OVER` nothing closes the lobby. Account deletion
  closes hosted lobbies and leaves their games running.
- A member who came from the list and leaves or is kicked may be shown as a
  non-member before his page goes home, and then the page joins him again once
  (`LobbyRoomPage.tsx:59-80`). The socket of a kicked member stays in the room.
  The socket of a guest who came by a link is in none, so his flag is not reset
  when his connection drops (`lobby.gateway.ts:193`).
- Broadcasts and GETs carry no number: one that is overtaken leaves a page stale
  until the next change; the same race on mount leaves a page in the room of a
  game that has started.

*Clubs and accounts*

- The head of a club may be a non-member after a kick or leave that overlaps a
  transfer or a hand-over (`schema.prisma:255-257`); a leaver's successor may be an
  account deleted meanwhile; the primary club may be one just left; a request sent
  twice can leave a member with a request. `ClubsInOrder` says that without
  overlap none of this happens.
- A Google sign-in that refreshes or links an account being deleted signs a
  session for it; an edit under way writes a name into the anonymised row.
- `shared/constants/admin.ts:11` promises that a ban takes the player out of the
  running game; the code disconnects sockets. After a restart the check that the
  target is no administrator may come before the roster is read. Deletion by
  oneself keeps `isAdmin` and the Google photo's address. The recheck's refresh of
  the copied restrictions never changes anything: what changes them makes the
  token stale as well (`CopiedBansAreCurrent`).

And between documents and code: `docs/game-engine.md:89-91` says the fourth
foul is not a removal and `judge.ts:24-30` removes; `docs/game-engine.md:71-72`
says the game is over the moment a team has won and `phase.ts:358-378` defers
it; `phases.ts:42-44` asks for a majority of the ballots cast and
`phase.ts:234-244` for half of those alive; `speaker.ts:67-69` calls a ballot
without nominees impossible, and a withdrawal during the vote intro makes one
(`BallotConcludes` shows that it ends all the same); `shared.ts:97-106` gives
the first speech of the day also to a muted seat.

## 4. Proofs

**The engine**: for every number of seats, all thresholds with
`FoulMute <= FoulRemove`, all bounds, and every set of deals (`RulesAssumption`,
`EngineAssumption`):

- `TypeCorrect`: `Spec => []TypeOK`. `TypeOK` is inductive by itself. It says
  more than it looks: every engine function is defined on every well-formed
  table, an index into a list that may have shrunk under it included, and its
  answer is a well-formed table. `GameEngineProofs` has one lemma per engine
  function (`AdvancePhaseTyped`, `NextSpeakerTyped`, `RemoveTyped`, ...), each from
  the lemmas of the helpers it calls; `NextTyped` puts them together, one step
  per action. "The first seat clockwise" and "in ascending order" are `CHOOSE`s
  whose witnesses need the well-ordering of the naturals (`LeastExists`,
  `AscendingExists`).
- `CancelledDay`: `Spec => CancelledDayKillsNobody`. The argument follows the
  three ways to lose a seat: `CancelledAdvanceSpares` (no way out of a court
  phase kills when the day is cancelled), `RemovalIsRecorded` and
  `FoulIsRecorded` (whom a removal or a foul takes is among the removed);
  `StepperKeeps` says that the speaker button keeps flag and phase before it
  leaves the phase. `CancelledStep` joins them over all actions, and the
  invariant it needs is `TypeOK`.

**The court**: `RemovedAreForgotten`, `NominationsStandInCourt`,
`CountedBallotsAreFair` and `TieStaysTheBallotPaper`: `Spec => []RemovedLeavesNoTrace`,
`[]NominationsStand`, `[]BallotsCount`, `[]TieIsTheBallotPaper`. None is inductive.
`applyJudgeRemove` filters each list once, so a seat that stood in a list twice
would survive its own removal; hence `Lists` (nominations and last words without
repetition, ties in ascending order, no mark by or for a removed seat in either
ballot box). And leaving one phase prepares the next: that a ballot is fair depends
on the boxes having been empty when it opened, so `Court(g, p)` says of a table what
phase `p` may find in it (`UnvotedPhases`, `TiePhases`, `NominationPhases`), and is
proved of the table that is left, with the phase it goes to (`ResolveCourt`), before
`Enter` puts the two together (`AdvanceCourt`). `CourtAlways` is the invariant.

**The evening**: `EngineKeepsTheRules`: `Spec => RefinesCycle`, the detailed engine
implements `GameCycle`. What a press of the button does is classified once
(`AdvanceOutcome`: it passes, gives the verdict, sits on or condemns, wakes, dawns),
as are removals (`Struck`) and what changes nothing the rules look at (`Still`);
each class is one action of `GameCycle` or a stutter (`IsSleep`, `IsCondemn`,
`IsStrike`, ..., `AdvanceRefines`), and `EveryStepIsOfAKind` says there is no other.
It needs `CourtInv` (whom the court condemns was in play) and `EveningInv`: outside
the speeches no court and no night is ever entered with the game decided, which is
what makes it safe that the code does not look for a winner on leaving them
(`PendingFarewell`); shots are only at red seats in play, also after a removal;
and between nights there are none. `NightTakesOnlyItsTarget`:
`Spec => NightVictimWasShotByAll`, from the same invariant.

`BestMoveIsTheFirstVictims`: `Spec => BestMoveIsForfeited`. That at most two seats
are dead when a guess is taken is a count over several phases: `FirstDays` says for
each of them how many the first day and night may have taken so far while the flag of
the double lift (`firstDayMultiVoteKill`) is down; the flag outlives the day, so it
still covers the morning.

**Turns**: `EveryoneIsHeard`: `Spec => EveryoneHeard`, because the walk round the
table finds a seat if there is one (`FirstFromFinds`). `PickersFindCards`:
`Spec => []PickerCanPick`, inductive with `TypeOK`: a pick adds one card and moves
the turn at least one seat on, a removal only moves the turn.

**The ceremony's clock**: `TheClockPlaysByTheRules`: `ClockSpec => Spec`, the table
with its timer and automatic picks implements the engine's specification, so every
theorem above holds of it too. `EveryTurnIsTimed`: `ClockSpec => []TurnIsTimed`, the
safety half of `FullCeremonyEnds`: while nobody is removed, the timer runs for whoever
has the turn, or an automatic pick of a card that is still free is waiting for the
lock, however many of them wait. It is inductive with `PickGoesOn`, which is why the
callback finds a card to choose, and because a card is only taken by the pick that
moves the turn, so a waiting pick is void exactly when its turn is over.
`LatePicksAreVoid`: `ClockSpec => LateAutoPickIsVoid`.

**The bots**: `BotsPlayByTheRules`: `BotsSpec => []BotsDecideLegally`. No removal clears
`pendingMafiaTargetSeat`, so a bot may follow a shot at a seat that has gone since;
`Followed` says that this is all that can be wrong with it: it is a red seat the judge
removed after the shot, never one the court or an earlier night took, because the
morning resets it and between nights it stays empty.

**What the table shows**: `OneVoiceIsHeard`, `NightIsDark`, `ButtonsAreTaken`,
`MovesHaveButtons`: `Spec => []OneVoiceByDay`, `[]TheNightIsDark`, `[]ButtonsWork`,
`[]LegalMoveHasButton`, and `NightMovesAreSecret`: `Spec => NightMovesLeakNothing`,
for any deal, two sheriffs or two dons included, and whatever the browser's clock
says. The buttons' two theorems are up to the three named sets (`KnownRefusals`,
`NoButtonFor`, `WithheldByTheClock`); the secret is kept from every red player but
whoever makes the move, a second sheriff included. They compare two functions of one table, the screen's and the service's, so most of
each is a case for each phase; what they need of the table is `CourtInv` and `Floor`:
a finished game is in `GAME_OVER`, nobody holds the floor while the table votes, and
whoever holds it in the speeches is in play or says farewell.

**The lock**: `LockIsInOrder` and `LockLeaksNothing`: `Spec => []InOrder` and
`Spec => []NoLeak` for any set of keys and any number of calls. Neither is
inductive. The code keeps no queue, only each key's tail, so `IInv` says what
the tail stands for: it is the latest call of its key, and *no* entry means that
nothing of that key is unfinished (`TailIsLatest`); hence the promise a call was
chained to skips nobody (`ChainSkipsNobody`). The delicate step is `Return`,
which may drop the entry: only the tail's own call does, and by then it and all
before it are over. One lemma per action (`WithLockKeeps`, ...).

**Screens and clicks**: `ScreensGoForward`: `FeedSpec => ScreenNeverGoesBack`, for any
browsers, games and calls. The invariant (`Feeds`) follows each connection: the tables
on their way to a browser are in the order in which they were read, none is ahead of
the game, and the screen is behind all of them. `ClicksMeanTheirPage`:
`FeedSpec /\ known = Keys => []ClickMeansThePage`. For every message on its way
`RoomInv` says which room the socket will be in when it is read: a click made online
is for the room its page has asked to be in (`Means`), one kept offline is read before
its socket is in any room (`RightRoom`). It starts from a server that knows its games
(`known = Keys`), and has to: while recovery is still putting games back, a browser that
goes from one game to another may have its second join refused; its socket stays in
the first game's room, and when a third page is opened a click can still be read
there. The run starts there too, with two visits, which are too few for it.

**The log**: `NumbersNeverCollide` and `StatsAreCountedOnce`: `LogSpec => []NoCollision`
and `LogSpec => []StatsCountedOnce`, for any stretches to start from
(`StartAssumption`: their logs are lists of events), any limits and any number of
mishaps. The number of the next event lives in the registry between actions and in
the job while it writes (`NumbersInv`); a revert asks the database, so its number is
right whatever has failed. The statistics need only that nothing is counted before
the flag is up (`RowInv`). Neither needs anything of the table, so both hold for
whatever engine is underneath.

`ACrashBringsBackTheTable`: `LogSpec => []ReplayIsFaithful`. Replay is a fold over a log of any length. The
model writes it as a recursive function, and the lemmas about it (`RunExists`,
`RunUnique`, `ReplayAppend`, `ReplayTyped`) do the induction by a least
counterexample, which needs only the well-ordering of the naturals. `FaithInv`: the
registry's number is never ahead of the log; while it is level with it, the table is
the replay of the log; and a job that is writing keeps a promise about what its
remaining events will replay to (`Promise`), so that both halves of an action with two
events are covered. `LagInv` is about the action whose second write fails: apart
from a job that has written everything, the log is ahead of the table by the first
event of such an action or not at all. A revert writes the table it goes back
to into its event, so replay does not ask how old the snapshot is, nor which action
left it. Closing the lobby keeps no promise, but marks the row before it
writes. The heart of the proof is one fact per kind of event: replay's case for it
does to the table what the action did.

`ResultsReachTheDisk`: `LogSpec => []ResultIsWritten`. `ResultInv`: without a mishap or a
revert, a finished table has its row written, except while the very job that finished
it is about to; a running one has no winner there; and no job takes a result back
(`FinishedStays`: whatever the engine is still asked after the end, the winner stays).
It needs that a run starts with a game that is not over (`RunningAssumption`, which TLC
checks on the instance's starts).

**The lobby**: `RowsKeepTheirIndexes`, `GuestsWaitOnce` and `HostsSit`:
`Spec => []LobbyTypeOK`, `[]GuestOfOneTable`, `[]HostSitsAtHisTable`, for any
people, bots, lobbies and seats and any number of requests in flight, from
`LobbyAssumption` (there is a player's seat, and no bot is a person). None is
inductive: what a request writes was decided by what it read, so `IInv` says what
that still means when the write comes (`CallMeans`). A join has read every row at
which its user waits as a guest (another join of his would have ended it, and a
row can only go in between), so when it serializes nothing of him is left
elsewhere; the rows it takes are never of a lobby he hosts, because a lobby never
changes its host; a lobby that is inserted has had no row yet (`RowsOfLobbies`);
and a request that fills seats seats a bot only it knows, which has no row
(`BotsApart`, `BotsPlay`). Most steps take rows away: `Spares` is for those that
touch no row of a person, `TakesOut` and `Shrinks` for the others. One lemma per
action (`JoinCommitsKeeps`, ...), joined in `IInvAlways`.

**The lobby's pages**: `StartLeavesNobodyInTheRoom`: `PagesSpec => []StartSendsTheRoom`,
for any rows of the right type, any browsers, requests and lost connections. Whether a
page in the room hears of the start depends on three messages that overtake each
other: the broadcast, the GET and the join of the socket's room. `PagesInv` says of
everyone who had the room open when its game was made (`Reached`): a socket that has
asked for the room again has asked for the details as well, and a page in the room has
details on their way that are still to be read or tell of the game (`Fetches`), or a
broadcast that tells of it is coming (`Coming`). The broadcast is not skipped, because
the room was not empty when the game was made. `KeepsSight` is what each step of a page
has to keep, one lemma per action. `PagesKeepTheRows` carries the theorems on the rows
over: what the pages ask for is always a request the lobby's `Next` has.

**Accounts**: `PlatformTypes` and `BansAreCurrentOrTheTokenIsStale`: `Spec => []PlatformTypeOK`
and `Spec => []CopiedBansAreCurrent`, where `Spec` starts from an empty database, for any
people, devices, clubs and requests in flight. (The run starts from two evenings that
requests lead to, because from nothing TLC would not get far.) `AccountsInv`: a socket
or a handshake that still carries the row's token version carries its restrictions too
(`SocketOK`), since whoever changes them raises the version in the same write.

**Clubs**: `MembershipsAreCapped`: `Spec => []MembershipCap`, with the types in
`PlatformInv`: rows that do not exist have no members, and nobody is twice in a list
(`RowOK`), so one approval adds at most one membership. `ClubsAreInOrder`:
`Spec => []ClubsInOrder`. What makes a club orderly is decided by a check and used in a
later transaction; `OrderInv` says that two requests about one club are noticed
(`overlapped`), and that of any other club what each request has read of it still holds
when it writes (`Holds`), the hand-over of a deleted account's clubs included.

**Only model-checked**: the liveness properties (`BallotConcludes`, `BotsAgree`,
`FullCeremonyEnds`, `EveryCallReturns`, `ScreensCatchUp`, `BansTakeHold`), since
fairness and ENABLED are beyond the prover, and the four violations. Every invariant
and every action property of a passing run is a theorem.

## 5. Plan

Done: engine, actions, ceremony clock, lock, event log with revert, recovery and
the end of a game, bots, what the table shows, the game page with its socket,
lobbies with their pages, accounts, clubs.

Left, in this order:

1. Theorems: the measure behind `BallotConcludes` (each press of the button brings
   the ballot nearer to its end), and that a lock with unfinished calls always has one
   that can go on.
2. The ceremony's timer in `GameLog`: a revert into the ceremony and the timers
   that recovery arms again.
3. `Lobby` and `GameLog` together: closing a lobby while the statistics are being
   written, with two games and their locks.
4. Two ticks of the bots that overlap, and a tick that a failed write ends.

## 6. Not modelled

- **Calls to the media server** (`game.media-permissions.ts`): they are not
  awaited and the program keeps no trace of them; what order they take effect in
  is that server's doing, which is not in this repository. What each call says is
  modelled (`ShouldHearParticipantAudio`, `ComputeCanPublish` in `TableView`).
- **Rate limits, chat buffer, debug log**: counters in fixed windows and two short
  lists. Nothing reads them but their own handlers, and their sweeps only free
  memory.
- **Name moderation, mail, storage, Google's side of the sign-in**: outside
  services; the model takes any answer of theirs (`Accounts` has the sign-in
  itself).
- **The shuffle of the roles**: randomness; `Deals` may be any set of deals.
- **Counters and achievements of a finished game**: arithmetic on rows. That they
  are applied once is `StatsCountedOnce`.
- **The rest of the web client**: profiles, players, statistics, administration
  and club pages are forms over REST calls, each answered by itself; there is no
  state of theirs that two calls could disagree about.
- **Layout, wording, sounds, devices, the video transport.**
