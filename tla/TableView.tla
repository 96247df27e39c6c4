------------------------------ MODULE TableView ------------------------------
(***************************************************************************)
(* What a running game shows and offers to those who sit at the table.     *)
(*                                                                         *)
(* projectFor (game.engine.projection.ts) is the only thing a browser ever *)
(* learns of the table; the controls of the desktop and of the phone       *)
(* layout and the media filter are functions of it.  A viewer is a seat,   *)
(* or the judge, whose seat is null.  A control is a pair: what it asks    *)
(* the service to do, and on whom (or on which card).                      *)
(***************************************************************************)
EXTENDS GameRules

Judge == NoSeat
Viewers == Seats \cup {Judge}

DayPhases == CourtPhases \cup {"DAY_LAST_WORD"}
NightPhases == {"NIGHT_ZERO", "NIGHT_MAFIA", "NIGHT_DON", "NIGHT_SHERIFF"}

-----------------------------------------------------------------------------
(* The projection.                                                         *)

IsMafiaTeam(g, v) == v \in Seats /\ g.role[v] \in BlackRoles

\* A card is "picked" when as many are gone as the seat's number says.
ShouldRevealRole(g, s, v) ==
  \/ v = Judge \/ g.finished
  \/ /\ g.phase = "ROLE_DISTRIBUTION"
     /\ s = v /\ Cardinality(g.cards) >= v
  \/ /\ g.phase \notin {"PLAYER_INTRODUCTION", "ROLE_DISTRIBUTION"}
     /\ s = v \/ (IsMafiaTeam(g, v) /\ IsMafiaTeam(g, s))

\* While a ballot is open the players see only the candidate now voted on.
HideNominationList(g, v) == v # Judge /\ g.phase \in BallotPhases

\* Mutant: the first name on the list is shown in every round.
CurrentCandidate_First(g) == SubSeq(g.nominations, 1, 1)

CurrentCandidate(g) ==
  IF g.round < Len(g.nominations) THEN <<g.nominations[g.round + 1]>> ELSE <<>>

\* Mutant: the last shot is shown to everybody.
ShowMafiaTarget_All(g, v) == TRUE

ShowMafiaTarget(g, v) ==
  \/ v = Judge \/ IsMafiaTeam(g, v) \/ g.finished
  \/ g.phase = "MORNING_ANNOUNCEMENT" /\ g.victim # NoSeat

\* Mutant: the round number of the whole list goes with the one-name list.
ShownRound_Raw(g, v) == g.round

ShownRound(g, v) == IF HideNominationList(g, v) THEN 0 ELSE g.round

\* myCheckResult: the night's check is the viewer's own.
MyCheck(g, v) ==
  v \in Seats /\ \/ g.role[v] = "don" /\ g.donCheck = v
                 \/ g.role[v] = "sheriff" /\ g.sheriffCheck = v

ProjectFor(g, v) ==
  [ phase |-> g.phase, finished |-> g.finished, winner |-> g.winner, day |-> g.day,
    role |-> [s \in Seats |-> IF ShouldRevealRole(g, s, v) THEN g.role[s] ELSE "hidden"],
    alive |-> g.alive, removed |-> g.removed, fouls |-> g.fouls, spoken |-> g.spoken,
    speaker |-> g.speaker,
    nominations |-> IF HideNominationList(g, v) THEN CurrentCandidate(g) ELSE g.nominations,
    votes |-> g.votes, round |-> ShownRound(g, v),
    locked |-> g.nominator = g.speaker,          \* nominationLockedForSpeaker
    pending |-> IF ShowMafiaTarget(g, v) THEN g.pending ELSE NoSeat,
    victim |-> g.victim, farewell |-> g.farewell,
    lastWord |-> IF g.lastWordIdx < Len(g.lastWord) THEN g.lastWord[g.lastWordIdx + 1] ELSE NoSeat,
    tied |-> g.tied,
    myShot |-> IF IsMafiaTeam(g, v) THEN g.mafiaVotes[v] ELSE NoSeat,
    bestMove |-> g.bestMove,
    tally |-> [b \in {"yes", "no"} |-> Cardinality({s \in Seats : g.lift[s] = b})],
    myBallot |-> IF v \in Seats THEN g.lift[v] ELSE "none",
    myCheck |-> MyCheck(g, v),
    picker |-> g.picker, cards |-> g.cards ]

-----------------------------------------------------------------------------
(* The controls a browser offers, from its projection p and its clock:     *)
(* inActiveWindow, the viewer's own five seconds out of turn are running;  *)
(* expired, the phase's deadline has passed.  A button greyed out while    *)
(* its own click is under way counts as offered.                           *)

Control(kind, on) == {kind} \X on

MyRole(p, v) == IF v \in Seats THEN p.role[v] ELSE "none"
MayAct(p, v) == v \in p.alive

\* actionForSeatInCurrentPhase: the button on another seat's tile.
SeatActions(p, v) ==
  LET others == p.alive \ {v}
  IN CASE v = Judge /\ p.phase = "DAY_SPEECH" /\ p.speaker # NoSeat
            /\ p.farewell = NoSeat /\ ~p.locked ->
            Control("nominate", others \ ToSet(p.nominations))
       [] MayAct(p, v) /\ p.phase = "NIGHT_MAFIA" /\ MyRole(p, v) \in BlackRoles
            /\ p.myShot = NoSeat ->
            Control("shoot", others)
       [] MayAct(p, v) /\ p.phase = "NIGHT_DON" /\ MyRole(p, v) = "don" /\ ~p.myCheck ->
            Control("checkAsDon", others)
       [] MayAct(p, v) /\ p.phase = "NIGHT_SHERIFF" /\ MyRole(p, v) = "sheriff" /\ ~p.myCheck ->
            Control("checkAsSheriff", others)
       [] OTHER -> {}

VoteBody(p, v, expired) ==
  LET voted == p.votes[v] # NoSeat
      closed == p.round >= Len(p.nominations)
      candidate == p.nominations[p.round + 1]
  IN IF /\ p.phase \in BallotPhases /\ MayAct(p, v)
        /\ ~voted /\ ~closed /\ ~expired /\ v # candidate
     THEN Control("vote", {candidate}) ELSE {}

LiftVoteBody(p, v, expired) ==
  IF p.phase = "DAY_LIFT_VOTE" /\ MayAct(p, v) /\ p.myBallot = "none" /\ ~expired
  THEN Control("ballot", {v}) ELSE {}

\* The form of the first night's victim; a control for each seat it can name.
BestMoveForm(p, v) ==
  IF /\ p.phase = "DAY_SPEECH" /\ p.day = 1
     /\ v = p.farewell /\ v = p.speaker /\ v \notin p.bestMove
  THEN Control("guess", p.alive \ {v}) ELSE {}

\* InfoTile: the body of the phase; a finished game shows the review instead.
InfoTile(p, v, expired) ==
  IF v = Judge \/ p.finished THEN {}
  ELSE VoteBody(p, v, expired) \cup LiftVoteBody(p, v, expired) \cup BestMoveForm(p, v)

\* RoleCardPickerDialog, on both layouts.
CardWall(p, v) ==
  IF p.phase = "ROLE_DISTRIBUTION" /\ v \in Seats /\ p.picker = v
  THEN Control("pick", Cards \ p.cards) ELSE {}

\* SelfMediaButtons: "say it for a foul".
SelfMediaButtons(p, v, inActiveWindow) ==
  IF /\ MayAct(p, v) /\ p.fouls[v] < FoulRemove /\ p.phase \in DayPhases
     /\ v # p.speaker /\ ~inActiveWindow
  THEN Control("say", {v}) ELSE {}

CanUnnominateOn(p) ==
  IF p.phase \in {"DAY_SPEECH", "DAY_VOTE_INTRO"} THEN ToSet(p.nominations) ELSE {}

JudgeSeatControls(p) ==
  Control("foul", {s \in Seats : p.fouls[s] < FoulRemove})
    \cup Control("unfoul", {s \in Seats : p.fouls[s] > 0})
    \cup Control("unnominate", CanUnnominateOn(p))
    \cup Control("remove", Seats)

\* judgeStep, also the space bar: which of the two requests "next" sends.
StepsWithinPhase == {"DAY_SPEECH", "DAY_VOTE", "DAY_REVOTE", "DAY_SHOOTOUT", "DAY_LAST_WORD"}

JudgeStepControls(p) ==
  CASE p.finished -> {}
    [] ~p.finished /\ p.phase \in StepsWithinPhase -> Control("nextSpeaker", {Judge})
    [] OTHER -> Control("nextPhase", {Judge})

\* isDeadButSpeaking: a dead seat with the floor is drawn like a living one.
TakenForAlive(p, s) == s \in p.alive \/ (s = p.speaker /\ s \in {p.farewell, p.lastWord})

\* The tiles of all seats; a skull keeps the action on its seat and loses every
\* other button.
SeatVideoTiles(p, v, inActiveWindow) ==
  SeatActions(p, v) \cup
    {control \in SelfMediaButtons(p, v, inActiveWindow)
                    \cup (IF v = Judge THEN JudgeSeatControls(p) ELSE {}) :
       TakenForAlive(p, control[2])}

\* GamePage with PlayerTable's ring of tiles.
DeskControls(p, v, inActiveWindow, expired) ==
  SeatVideoTiles(p, v, inActiveWindow)
    \cup InfoTile(p, v, expired) \cup CardWall(p, v)
    \cup (IF v = Judge THEN JudgeStepControls(p) ELSE {})

\* MiniTileActions: the dialog of a tapped tile, on any seat, dead or alive.
MiniTileActions(p, v) ==
  LET others == Seats \ {v}
      role == MyRole(p, v)
  IN IF v = Judge
     THEN (IF p.phase \in DayPhases
           THEN Control("foul", {s \in Seats : p.fouls[s] < FoulRemove})
                  \cup Control("unfoul", {s \in Seats : p.fouls[s] > 0}) ELSE {})
            \cup (IF p.phase = "DAY_SPEECH"
                  THEN Control("nominate", Seats \ ToSet(p.nominations)) ELSE {})
            \cup Control("unnominate", CanUnnominateOn(p))
            \cup Control("remove", Seats)
     ELSE CASE p.phase = "NIGHT_MAFIA" /\ role \in BlackRoles /\ p.myShot = NoSeat ->
                 Control("shoot", others)
            [] p.phase = "NIGHT_DON" /\ role = "don" /\ ~p.myCheck -> Control("checkAsDon", others)
            [] p.phase = "NIGHT_SHERIFF" /\ role = "sheriff" /\ ~p.myCheck ->
                 Control("checkAsSheriff", others)
            [] OTHER -> {}

\* MobileControlPanel: the ballot has no lock of its own, and nothing a clock.
MobileControlPanel(p, v) ==
  IF v = Judge THEN JudgeStepControls(p)
  ELSE VoteBody(p, v, FALSE)
         \cup (IF p.phase = "DAY_LIFT_VOTE" /\ MayAct(p, v) THEN Control("ballot", {v}) ELSE {})
         \cup (IF p.phase \in {"DAY_SPEECH", "DAY_SHOOTOUT", "DAY_LAST_WORD"}
               THEN SelfMediaButtons(p, v, FALSE) ELSE {})

PhoneControls(p, v) == MiniTileActions(p, v) \cup MobileControlPanel(p, v) \cup CardWall(p, v)

-----------------------------------------------------------------------------
(* Who is seen and who is heard.  late: the speaker's time and the grace   *)
(* after it are over; aside: the seat whose five seconds out of turn run,  *)
(* or NoSeat; overhear: the judge's "hear everything".                     *)

DeadButSpeaking(p, t) == t \in Seats \ p.alive /\ t \in {p.farewell, p.lastWord}
Present(p, v) == v = Judge \/ v \in p.alive

ShouldShowParticipantMedia(p, v, t, late) ==
  \/ t = Judge
  \/ DeadButSpeaking(p, t) /\ ~late
  \/ /\ t \in p.alive
     /\ \/ t = v \/ v = Judge \/ ~Present(p, v) \/ p.finished
        \/ p.phase \in {"PLAYER_INTRODUCTION", "MORNING_ANNOUNCEMENT", "GAME_OVER"} \cup DayPhases
        \/ p.phase = "NIGHT_ZERO" /\ {p.role[v], p.role[t]} \subseteq BlackRoles

\* Mutant: the five seconds out of turn run on into the night.
ShouldHearParticipantAudio_AnyPhase(p, v, t, late, aside, overhear) ==
  t # v /\ (t = Judge \/ aside = t)

ShouldHearParticipantAudio(p, v, t, late, aside, overhear) ==
  /\ t # v
  /\ \/ t = Judge
     \/ v = Judge /\ overhear
     \/ aside = t /\ p.phase \in DayPhases
     \/ t \in {p.farewell, p.lastWord} /\ ~late
     \/ /\ t \in p.alive /\ t \notin {p.farewell, p.lastWord}
        /\ \/ ~Present(p, v) \/ p.finished
           \/ p.phase \in {"GAME_OVER", "PLAYER_INTRODUCTION"}
           \/ p.phase \in DayPhases /\ t = p.speaker /\ ~late

\* computeCanPublish: the media server drops the tracks of removed players.
ComputeCanPublish(g, t) == t \notin g.removed

\* The voices the viewer hears: let through by the browser, and published.
Heard(g, v, late, aside, overhear) ==
  {t \in Seats : /\ ComputeCanPublish(g, t)
                 /\ ShouldHearParticipantAudio(ProjectFor(g, v), v, t, late, aside, overhear)}

Seen(g, v, late) ==
  {t \in Seats : ComputeCanPublish(g, t) /\ ShouldShowParticipantMedia(ProjectFor(g, v), v, t, late)}
=============================================================================
