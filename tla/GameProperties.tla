---------------------------- MODULE GameProperties ----------------------------
(***************************************************************************)
(* What a running game must keep to, whatever the judge and the players    *)
(* click and in whatever order.                                            *)
(***************************************************************************)
EXTENDS GameEngine

Gone == game.removed

-----------------------------------------------------------------------------
(* Invariants.                                                             *)

\* A player who was taken out of the game leaves no phantom behind: no ballot
\* by or for the seat, no place in any list of the day, no shot, not the card
\* ceremony's turn (applyJudgeRemove, judge.ts:113-118).
RemovedLeavesNoTrace ==
  /\ Gone \cap (game.alive \cup Nominees(game) \cup ToSet(game.tied)
                           \cup ToSet(game.lastWord)) = {}
  /\ \A s \in Seats : game.votes[s] \notin Gone /\ game.mafiaVotes[s] \notin Gone
  /\ \A s \in Gone : /\ game.votes[s] = NoSeat /\ game.mafiaVotes[s] = NoSeat
                     /\ game.lift[s] = "none"

\* Nominations stand only while the day's court is in session, name each seat
\* once, and only seats still in play: none leaks into the night
\* (phase.ts:291-297, 343-346).
NominationsStand ==
  /\ Nominees(game) \subseteq Live(game)
  /\ Cardinality(Nominees(game)) = Len(game.nominations)
  /\ game.nominations # <<>> =>
       game.phase \in (CourtPhases \ {"DAY_LIFT_VOTE"}) \cup {"GAME_OVER"}

\* While a ballot is open every counted vote is by a seat in play, for one of
\* the seats standing, never for oneself: none survives from an earlier ballot,
\* from the candidate's withdrawal or from the voter's death.
BallotsCount ==
  game.phase \in BallotPhases =>
    \A v \in Seats : game.votes[v] # NoSeat =>
      /\ v \in Live(game) /\ v # game.votes[v]
      /\ game.votes[v] \in Nominees(game)

\* A tie is pending only through the run-off, holds seats in play in seat order,
\* and while they speak and are voted on again it is exactly the ballot paper
\* ("pin it to the tied list", phase.ts:143-145).
TieIsTheBallotPaper ==
  /\ game.tied # <<>> =>
       game.phase \in {"DAY_SHOOTOUT", "DAY_REVOTE", "DAY_LIFT_VOTE", "GAME_OVER"}
  /\ ToSet(game.tied) \subseteq Live(game)
  /\ \A i, j \in DOMAIN game.tied : i < j => game.tied[i] < game.tied[j]
  /\ game.phase \in {"DAY_SHOOTOUT", "DAY_REVOTE"} => game.nominations = game.tied

\* Whoever is to pick a card is still in the game and has one left to pick, so
\* the ceremony that applyAdvancePhase refuses to leave can go on (judge.ts:135-140).
PickerCanPick ==
  PicksPending(game) => game.picker \notin Gone /\ Cardinality(game.cards) < game.picker

-----------------------------------------------------------------------------
(* Steps.                                                                  *)

\* A removal during the court cancels the day: until night nobody else dies,
\* whatever has been voted (phase.ts:111-114, 168-171, 225-227; judge.ts:188-191).
CancelledDayKillsNobody ==
  [][game.disqualified /\ game.phase \in CourtPhases =>
       game.alive \ game'.alive \subseteq game'.removed]_game

\* The night takes only a red seat that was in play at dusk and at which every
\* black seat in play shot (resolveMafiaConsensus), so never last night's victim.
NightVictimWasShotByAll ==
  [][game.phase = "NIGHT_SHERIFF" /\ game.alive # game'.alive /\ game.removed = game'.removed =>
       \E t \in Live(game) \ LiveBlack(game) :
         /\ game.alive \ game'.alive = {t}
         /\ \A s \in LiveBlack(game) : game.mafiaVotes[s] = t]_game

\* When the judge's "next speaker" closes the speeches, everybody in play who
\* is not muted has been heard, in whatever order seats left or fouls came.
EveryoneHeard ==
  [][JudgeAdvanceSpeaker /\ game.phase = "DAY_SPEECH" /\ game'.phase # "DAY_SPEECH" =>
       \A s \in Live(game) : s \in game.spoken \cup {game.speaker}
                             \/ game.fouls[s] >= FoulMute]_game

\* The best move is the first night's victim's alone, and forfeited once the
\* first day has lifted two seats together: when a guess is taken at most one
\* seat was voted out and one shot (voting.ts:204-211).
BestMoveIsForfeited ==
  [][game'.bestMove # game.bestMove =>
       /\ game.bestMove = {}
       /\ Cardinality(Seats \ (game.alive \cup game.removed)) <= 2]_game

-----------------------------------------------------------------------------
(* What always happens in the end.                                         *)

BallotUnderWay == game.phase \in {"DAY_VOTE", "DAY_SHOOTOUT", "DAY_REVOTE", "DAY_LAST_WORD"}

AfterNext ==
  LET advanced == ApplyNextSpeaker(game)
  IN IF SpeechesDone(game) THEN ApplyAdvancePhase(advanced) ELSE advanced

\* While it is, the judge keeps pressing "next": an assumption on the person, not
\* the code.  This is WF_game(BallotUnderWay /\ JudgeAdvanceSpeaker), its ENABLED
\* written as a predicate of the table, which TLC evaluates much faster.
Fairness ==
  \/ []<>~(BallotUnderWay /\ AfterNext # game)
  \/ []<><<BallotUnderWay /\ JudgeAdvanceSpeaker>>_game

\* Pressing only "next" brings a ballot through its rounds, the tie speeches
\* and the second ballot to a question, a victim or the night.
BallotConcludes ==
  BallotUnderWay ~> (game.phase \in {"DAY_LIFT_VOTE", "NIGHT_MAFIA", "GAME_OVER"})

-----------------------------------------------------------------------------
(* The rules of the evening (GameCycle), played by this engine.            *)

StageOf(phase) ==
  CASE phase \in CourtPhases -> "court"
    [] phase = "DAY_LAST_WORD" -> "lastWord"
    [] phase \in {"NIGHT_MAFIA", "NIGHT_DON", "NIGHT_SHERIFF"} -> "night"
    [] phase = "MORNING_ANNOUNCEMENT" -> "dawn"
    [] phase = "GAME_OVER" -> "over"
    [] OTHER -> "setup"

Cycle == INSTANCE GameCycle WITH
  Table <- Seats,
  black <- {s \in Seats : game.role[s] \in BlackRoles},
  inPlay <- Live(game),
  stage <- StageOf(game.phase),
  cancelled <- game.disqualified,
  verdict <- game.winner

\* Every step of the engine is a step of the evening's rules, or none.
RefinesCycle == Cycle!Spec

=============================================================================
