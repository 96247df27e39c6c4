------------------------------ MODULE GameEngine ------------------------------
(***************************************************************************)
(* One running game: the table in the registry and every operation the     *)
(* service lets a judge or a player perform on it (game.actions.ts,        *)
(* game.role-distribution.ts, game.cleanup.ts).  withLock serialises them  *)
(* per game, so each is one atomic step of the engine.                     *)
(***************************************************************************)
EXTENDS GameRules

CONSTANTS
  Deals,      (* the role distributions assignRoles may produce            *)
  MaxDay,     (* bound: the last dayNumber the model reaches               *)
  MaxNominees,(* bound: nominations standing at once                       *)
  MaxFouls,   (* bound: fouls standing at once, over all the seats         *)
  FoulPhases, (* bound: the phases fouls are given in                      *)
  MaxRemoved  (* bound: seats removed by decision, not by fouls            *)

ASSUME EngineAssumption ==
  /\ Deals \subseteq [Seats -> Roles]
  /\ MaxDay \in Nat /\ MaxNominees \in Nat /\ MaxFouls \in Nat /\ MaxRemoved \in Nat
  /\ FoulPhases \subseteq Phases

VARIABLE game

FoulsStanding == Cardinality({f \in Seats \X (1..FoulRemove) : f[2] <= game.fouls[f[1]]})
MayFoul == FoulsStanding < MaxFouls /\ game.phase \in FoulPhases
MayRemove(s) == s \in game.removed \/ Cardinality(game.removed) < MaxRemoved

Init == \E deal \in Deals : game = NewGame(deal)

-----------------------------------------------------------------------------
(* The judge.  No operation asks whether the game is already over.         *)

JudgeAdvancePhase ==
  /\ game.phase = "MORNING_ANNOUNCEMENT" => game.day < MaxDay
  /\ game' = ApplyAdvancePhase(game)

\* After the last speech or round, the same click leaves the phase.
JudgeAdvanceSpeaker ==
  \E advanced \in {ApplyNextSpeaker(game)} :
    game' = IF SpeechesDone(game) THEN ApplyAdvancePhase(advanced) ELSE advanced

JudgeNominate(t) ==
  /\ Len(game.nominations) < MaxNominees
  /\ CanNominate(game, t) /\ game' = ApplyNominate(game, t)

JudgeUnnominate(t) == CanUnnominate(game, t) /\ game' = ApplyJudgeUnnominate(game, t)
JudgeFoul(s) == MayFoul /\ CanFoul(game, s) /\ game' = ApplyJudgeFoul(game, s)
JudgeUnfoul(s) == CanUnfoul(game, s) /\ game' = ApplyJudgeUnfoul(game, s)
JudgeRemove(s) == MayRemove(s) /\ game' = ApplyJudgeRemove(game, s)

\* The judge presses "leave the game".
JudgeLeave == game' = ApplyJudgeEndGame(game)

-----------------------------------------------------------------------------
(* The players; whoever is removed is refused before the engine is asked.  *)

CastVote(v, c) == CanCastVote(game, v, c) /\ game' = ApplyCastVote(game, v, c)

CastLiftAllVote(v, ballot) ==
  CanLiftAllVote(game, v) /\ game' = ApplyLiftAllVote(game, v, ballot)

CastBestMoveGuess(v, guess) ==
  CanGuess(game, v, guess) /\ game' = ApplyBestMoveGuess(game, v)

ChooseMafiaTarget(v, t) == CanTarget(game, v, t) /\ game' = ApplyMafiaTarget(game, v, t)
CheckAsDon(v, t) == CanDonCheck(game, v, t) /\ game' = ApplyDonCheck(game, v)
CheckAsSheriff(v, t) == CanSheriffCheck(game, v, t) /\ game' = ApplySheriffCheck(game, v)

\* A click, or the timer's automatic pick for the same seat.
PickRoleCard(v, c) ==
  /\ v \notin game.removed
  /\ CanPickCard(game, v, c) /\ game' = ApplyRoleCardPick(game, v, c)

SayOutOfTurn(s) ==
  /\ MayFoul /\ s \notin game.removed
  /\ CanSayOutOfTurn(game, s) /\ game' = ApplyOutOfTurn(game, s)

\* leaveGameAsParticipant of a player.
PlayerLeave(s) == MayRemove(s) /\ s \notin game.removed /\ game' = ApplyJudgeRemove(game, s)

JudgeStep ==
  \/ JudgeAdvancePhase \/ JudgeAdvanceSpeaker \/ JudgeLeave
  \/ \E s \in Seats : \/ JudgeNominate(s) \/ JudgeUnnominate(s)
                      \/ JudgeFoul(s) \/ JudgeUnfoul(s) \/ JudgeRemove(s)

PlayerStep(s) ==
  \/ SayOutOfTurn(s) \/ PlayerLeave(s)
  \/ \E ballot \in {"yes", "no"} : CastLiftAllVote(s, ballot)
  \/ \E guess \in SUBSET Seats : CastBestMoveGuess(s, guess)
  \/ \E c \in Cards : PickRoleCard(s, c)
  \/ \E t \in Seats : \/ CastVote(s, t) \/ ChooseMafiaTarget(s, t)
                      \/ CheckAsDon(s, t) \/ CheckAsSheriff(s, t)

Next == JudgeStep \/ \E s \in Seats : PlayerStep(s)

Spec == Init /\ [][Next]_game

TypeOK == game \in GameState
=============================================================================
