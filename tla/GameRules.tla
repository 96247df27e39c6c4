------------------------------ MODULE GameRules ------------------------------
(***************************************************************************)
(* The pure rules engine of a sport-mafia table: game.engine.*.ts.         *)
(*                                                                         *)
(* The engine is a set of functions from a GameState to a GameState, or to *)
(* a refusal.  Every one of them is here as a pair: CanX(g, ...) is the    *)
(* condition under which the function answers ok, ApplyX(g, ...) the state *)
(* it answers with.  A null seat is NoSeat, a Map from seats is a total    *)
(* function with NoSeat (or "none") for an absent key, and arrays keep the *)
(* code's zero-based indices (round, lastWordIdx, shootoutIdx).            *)
(***************************************************************************)
EXTENDS Integers, Sequences, FiniteSets, SequencesExt

CONSTANTS
  SeatCount,    (* GAME.TOTAL_PLAYERS: 10 in the code                      *)
  FoulMute,     (* FOUL_MUTE_THRESHOLD: 3                                  *)
  FoulRemove,   (* FOUL_REMOVE_THRESHOLD: 4                                *)
  Cards         (* the face-down cards of ROLE_DISTRIBUTION: 0..9          *)

ASSUME RulesAssumption ==
  /\ SeatCount \in Nat \ {0}
  /\ FoulMute \in Nat /\ FoulRemove \in Nat \ {0}
  /\ FoulMute <= FoulRemove
  /\ IsFiniteSet(Cards) /\ Cardinality(Cards) = SeatCount

Seats == 1..SeatCount
NoSeat == 0
SeatOrNone == Seats \cup {NoSeat}

Roles == {"civilian", "sheriff", "mafia", "don"}
BlackRoles == {"mafia", "don"}
Winners == {"none", "red", "black"}
Ballots == {"none", "yes", "no"}

Phases == {"PLAYER_INTRODUCTION", "ROLE_DISTRIBUTION", "NIGHT_ZERO",
           "DAY_SPEECH", "DAY_VOTE_INTRO", "DAY_VOTE", "DAY_SHOOTOUT",
           "DAY_REVOTE", "DAY_LIFT_VOTE", "DAY_LAST_WORD",
           "NIGHT_MAFIA", "NIGHT_DON", "NIGHT_SHERIFF",
           "MORNING_ANNOUNCEMENT", "GAME_OVER"}

BallotPhases == {"DAY_VOTE", "DAY_REVOTE"}

\* Removal in one of these cancels what is left of the day.
CourtPhases == {"DAY_SPEECH", "DAY_VOTE_INTRO", "DAY_VOTE", "DAY_REVOTE",
                "DAY_SHOOTOUT", "DAY_LIFT_VOTE"}

\* Mutant: the victim's last word is taken for one more phase to wait after.
PendingFarewell_LastWordToo ==
  {"DAY_VOTE", "DAY_VOTE_INTRO", "DAY_REVOTE", "DAY_SHOOTOUT", "DAY_LIFT_VOTE",
   "DAY_LAST_WORD", "NIGHT_SHERIFF", "MORNING_ANNOUNCEMENT"}

\* Leaving one of these, the verdict waits for the victim's last minute.
PendingFarewell == {"DAY_VOTE", "DAY_VOTE_INTRO", "DAY_REVOTE", "DAY_SHOOTOUT",
                    "DAY_LIFT_VOTE", "NIGHT_SHERIFF", "MORNING_ANNOUNCEMENT"}

GameState ==
  [ phase       : Phases,
    finished    : BOOLEAN,             \* status = 'finished'
    winner      : Winners,
    day         : Nat,                 \* dayNumber
    role        : [Seats -> Roles],
    alive       : SUBSET Seats,        \* isAlive
    removed     : SUBSET Seats,        \* isRemoved
    fouls       : [Seats -> 0..FoulRemove],
    spoken      : SUBSET Seats,        \* hasSpokenThisDay
    speaker     : SeatOrNone,          \* currentSpeakerSeat
    nominator   : SeatOrNone,          \* lastNominatorSeat
    nominations : Seq(Seats),          \* nominationSeats
    votes       : [Seats -> SeatOrNone],
    round       : Nat,                 \* voteRoundIdx
    mafiaVotes  : [Seats -> SeatOrNone],
    pending     : SeatOrNone,          \* pendingMafiaTargetSeat
    donCheck    : SeatOrNone,          \* who made the night's check: byUserId, or null
    sheriffCheck: SeatOrNone,
    victim      : SeatOrNone,          \* lastNightVictimSeat
    farewell    : SeatOrNone,          \* farewellSeat
    lastWord    : Seq(Seats),          \* lastWordSeats
    lastWordIdx : Nat,
    tied        : Seq(Seats),          \* tiedSeats
    shootoutIdx : Nat,                 \* shootoutSpeakerIdx
    lift        : [Seats -> Ballots],  \* liftAllVotes
    bestMove    : SUBSET Seats,        \* who has an entry in bestMoveGuesses
    picker      : SeatOrNone,          \* roleCardPickerSeat
    cards       : SUBSET Cards,        \* roleCardsPicked
    disqualified : BOOLEAN,            \* disqualifiedThisDay
    multiKill   : BOOLEAN ]            \* firstDayMultiVoteKill

NoVotes == [s \in Seats |-> NoSeat]
NoBallots == [s \in Seats |-> "none"]

\* The table as createGameFromLobby hands it to the registry; role is the deal.
NewGame(deal) ==
  [ phase |-> "PLAYER_INTRODUCTION", finished |-> FALSE, winner |-> "none",
    day |-> 0, role |-> deal, alive |-> Seats, removed |-> {},
    fouls |-> [s \in Seats |-> 0], spoken |-> {}, speaker |-> NoSeat,
    nominator |-> NoSeat, nominations |-> <<>>, votes |-> NoVotes, round |-> 0,
    mafiaVotes |-> NoVotes, pending |-> NoSeat, donCheck |-> NoSeat,
    sheriffCheck |-> NoSeat, victim |-> NoSeat, farewell |-> NoSeat,
    lastWord |-> <<>>, lastWordIdx |-> 0, tied |-> <<>>, shootoutIdx |-> 0,
    lift |-> NoBallots, bestMove |-> {}, picker |-> NoSeat, cards |-> {},
    disqualified |-> FALSE, multiKill |-> FALSE ]

-----------------------------------------------------------------------------
(* Who is at the table, and who has won.                                   *)

Live(g) == g.alive \ g.removed
LiveBlack(g) == {s \in Live(g) : g.role[s] \in BlackRoles}
Nominees(g) == ToSet(g.nominations)

CheckWinner(g) ==
  LET black == Cardinality(LiveBlack(g))
      red == Cardinality(Live(g) \ LiveBlack(g))
  IN IF black = 0 THEN "red" ELSE IF black >= red THEN "black" ELSE "none"

\* Both a verdict on leaving a phase and a removal end the game this way.
Finish(g) ==
  [g EXCEPT !.phase = "GAME_OVER", !.finished = TRUE, !.winner = CheckWinner(g)]

KillSeats(g, S) == [g EXCEPT !.alive = @ \ S]

-----------------------------------------------------------------------------
(* Seat order.                                                             *)

\* How far seat s is from seat from, going clockwise round the table.
Clockwise(from, s) == (s - from + SeatCount) % SeatCount

FirstFrom(S, from) ==
  IF S = {} THEN NoSeat
  ELSE CHOOSE s \in S : \A t \in S : Clockwise(from, s) <= Clockwise(from, t)

\* Ascending list of a set of seats (tied.sort).
Ascending(S) ==
  CHOOSE q \in [1..Cardinality(S) -> S] :
    \A i, j \in 1..Cardinality(S) : i < j => q[i] < q[j]

\* Array filter(x => x !== s); the engine's seat lists never repeat a seat.
Without(q, s) ==
  IF s \in ToSet(q) THEN RemoveAt(q, CHOOSE i \in DOMAIN q : q[i] = s) ELSE q

DayStartSeat(g) == FirstFrom(Live(g), (g.day % SeatCount) + 1)

\* Mutant: the round is not walked past the last seat.
NextSpeakerSeat_NoWrap(g, from) ==
  FirstFrom({s \in Live(g) \ g.spoken : g.fouls[s] < FoulMute /\ s >= from}, from)

\* Mutant: who has spoken is not looked at.
NextSpeakerSeat_Repeats(g, from) ==
  FirstFrom({s \in Live(g) : g.fouls[s] < FoulMute}, from)

NextSpeakerSeat(g, from) ==
  FirstFrom({s \in Live(g) \ g.spoken : g.fouls[s] < FoulMute}, from)

FirstRoleCardPicker(g) == FirstFrom(Seats \ g.removed, 1)

\* Mutant: the turn walks on past the last seat.
NextRoleCardPicker_PastTheEnd(g, from) == from + 1

NextRoleCardPicker(g, from) ==
  FirstFrom({s \in Seats \ g.removed : s > from}, from + 1)

-----------------------------------------------------------------------------
(* Counting the day's ballots and the night's.                             *)

Tally(g, c) == Cardinality({v \in Seats : g.votes[v] = c})
Voted(g) == {g.votes[v] : v \in Seats} \ {NoSeat}
Leaders(g) == {c \in Voted(g) : \A d \in Voted(g) : Tally(g, d) <= Tally(g, c)}

ResolveVote(g) ==
  IF \E c \in Seats : Leaders(g) = {c}
  THEN CHOOSE c \in Seats : Leaders(g) = {c} ELSE NoSeat

FindTiedSeats(g) ==
  IF Cardinality(Leaders(g)) >= 2 THEN Ascending(Leaders(g)) ELSE <<>>

\* Mutant: whoever has not shot is taken to agree.
ResolveMafiaConsensus_Silent(g) ==
  IF \E t \in Seats : LiveBlack(g) # {} /\ \A s \in LiveBlack(g) : g.mafiaVotes[s] \in {t, NoSeat}
  THEN CHOOSE t \in Seats : \A s \in LiveBlack(g) : g.mafiaVotes[s] \in {t, NoSeat}
  ELSE NoSeat

\* Every live black seat has shot, and at the same seat.
ResolveMafiaConsensus(g) ==
  IF \E t \in Seats : LiveBlack(g) # {} /\ \A s \in LiveBlack(g) : g.mafiaVotes[s] = t
  THEN CHOOSE t \in Seats : \A s \in LiveBlack(g) : g.mafiaVotes[s] = t
  ELSE NoSeat

LiftPasses(g) ==
  LET yes == Cardinality({s \in Seats : g.lift[s] = "yes"})
  IN yes * 2 >= Cardinality(Live(g)) /\ yes > 0

-----------------------------------------------------------------------------
(* Leaving a phase: applyAdvancePhase resolves the phase it leaves, asks    *)
(* nextPhase where to go, checks for a winner, and prepares the new phase.  *)

\* The vote has condemned the seats of queue: they die, and queue for a last word.
Condemn(g, queue) ==
  [KillSeats(g, ToSet(queue)) EXCEPT !.lastWord = queue, !.lastWordIdx = 0,
                                     !.speaker = queue[1]]

\* Nobody is condemned today.
Acquit(g) == [g EXCEPT !.votes = NoVotes, !.nominations = <<>>, !.tied = <<>>]

\* Mutant: the ballot of the tied seats keeps the nominees it had.
OpenRunoff_KeepsNominees(g, tie) ==
  [g EXCEPT !.tied = tie, !.shootoutIdx = 0, !.speaker = tie[1], !.votes = NoVotes]

\* Mutant: the votes of the first ballot are not thrown away.
OpenRunoff_KeepsVotes(g, tie) ==
  [g EXCEPT !.tied = tie, !.shootoutIdx = 0, !.speaker = tie[1], !.nominations = tie]

\* The tied seats are now the only candidates, and speak in turn.
OpenRunoff(g, tie) ==
  [g EXCEPT !.tied = tie, !.shootoutIdx = 0, !.speaker = tie[1],
            !.nominations = tie, !.votes = NoVotes]

LeaveVote(g) ==
  LET chosen == ResolveVote(g)
      tie == FindTiedSeats(g)
  IN CASE g.disqualified -> Acquit(g)
       [] ~g.disqualified /\ chosen # NoSeat ->
            [Condemn(g, <<chosen>>) EXCEPT !.nominations = <<>>]
       [] ~g.disqualified /\ chosen = NoSeat /\ tie # <<>> ->
            OpenRunoff(g, tie)
       [] OTHER -> [g EXCEPT !.votes = NoVotes, !.nominations = <<>>]

LeaveRevote(g) ==
  LET chosen == ResolveVote(g)
      tie == FindTiedSeats(g)
      counted == [g EXCEPT !.shootoutIdx = 0]
  IN CASE ~g.disqualified /\ chosen # NoSeat ->
            [Condemn(counted, <<chosen>>) EXCEPT !.nominations = <<>>, !.tied = <<>>]
       [] ~g.disqualified /\ chosen = NoSeat /\ tie # <<>> ->
            [Acquit(counted) EXCEPT !.tied = tie, !.lift = NoBallots]
       [] OTHER -> Acquit(counted)

\* Mutant: the first day is taken for day one.
LiftForfeitsBestMove_DayOne(g) == g.day = 1 /\ Len(g.tied) >= 2

LiftForfeitsBestMove(g) == g.day = 0 /\ Len(g.tied) >= 2

\* Mutant: a cancelled day is not looked at.
LeaveLiftVote_Heedless(g) ==
  LET closed == [g EXCEPT !.lift = NoBallots, !.tied = <<>>]
  IN IF LiftPasses(g) /\ g.tied # <<>> THEN Condemn(closed, g.tied) ELSE closed

LeaveLiftVote(g) ==
  LET closed == [g EXCEPT !.lift = NoBallots, !.tied = <<>>]
  IN IF ~g.disqualified /\ LiftPasses(g) /\ g.tied # <<>>
     THEN [Condemn(closed, g.tied) EXCEPT !.multiKill = @ \/ LiftForfeitsBestMove(g)]
     ELSE closed

\* Mutant: a cancelled day's nominations are kept.
LeaveSpeech_KeepsNominees(g) == [g EXCEPT !.spoken = {}, !.speaker = NoSeat]

\* Mutant: whoever had the floor keeps it.
LeaveSpeech_KeepsFloor(g) ==
  IF g.disqualified THEN Acquit([g EXCEPT !.spoken = {}]) ELSE [g EXCEPT !.spoken = {}]

LeaveSpeech(g) ==
  LET quiet == [g EXCEPT !.spoken = {}, !.speaker = NoSeat]
  IN IF g.disqualified THEN Acquit(quiet) ELSE quiet

LeaveNight(g) ==
  LET shot == ResolveMafiaConsensus(g)
  IN [KillSeats(g, {shot}) EXCEPT !.victim = shot]

LeaveMorning(g) ==
  [g EXCEPT !.day = @ + 1, !.mafiaVotes = NoVotes, !.pending = NoSeat,
            !.victim = NoSeat, !.sheriffCheck = NoSeat, !.donCheck = NoSeat,
            !.nominations = <<>>, !.votes = NoVotes, !.spoken = {},
            !.disqualified = FALSE]

Leave(g) ==
  CASE g.phase = "DAY_VOTE" -> LeaveVote(g)
    [] g.phase = "DAY_SHOOTOUT" -> [g EXCEPT !.speaker = NoSeat, !.shootoutIdx = 0]
    [] g.phase = "DAY_REVOTE" -> LeaveRevote(g)
    [] g.phase = "DAY_LIFT_VOTE" -> LeaveLiftVote(g)
    [] g.phase = "DAY_LAST_WORD" ->
         [g EXCEPT !.lastWord = <<>>, !.lastWordIdx = 0, !.speaker = NoSeat]
    [] g.phase = "DAY_SPEECH" -> LeaveSpeech(g)
    [] g.phase = "NIGHT_SHERIFF" -> LeaveNight(g)
    [] g.phase = "MORNING_ANNOUNCEMENT" -> LeaveMorning(g)
    [] OTHER -> g

\* nextPhase: where the resolved table g goes from g.phase.
NextPhase(g) ==
  CASE g.phase = "PLAYER_INTRODUCTION" -> "ROLE_DISTRIBUTION"
    [] g.phase = "ROLE_DISTRIBUTION" -> "NIGHT_ZERO"
    [] g.phase = "NIGHT_ZERO" -> "DAY_SPEECH"
    [] g.phase = "DAY_SPEECH" ->
         IF ~g.disqualified /\ g.nominations # <<>> THEN "DAY_VOTE_INTRO" ELSE "NIGHT_MAFIA"
    [] g.phase = "DAY_VOTE_INTRO" ->
         CASE g.disqualified -> "NIGHT_MAFIA"
           [] ~g.disqualified /\ Len(g.nominations) = 1 ->
                IF g.day = 0 THEN "NIGHT_MAFIA" ELSE "DAY_LAST_WORD"
           [] OTHER -> "DAY_VOTE"
    [] g.phase \in {"DAY_VOTE", "DAY_REVOTE", "DAY_LIFT_VOTE"} /\ g.lastWord # <<>> ->
         "DAY_LAST_WORD"
    [] g.phase = "DAY_VOTE" /\ g.lastWord = <<>> ->
         IF Len(g.tied) >= 2 THEN "DAY_SHOOTOUT" ELSE "NIGHT_MAFIA"
    [] g.phase = "DAY_SHOOTOUT" -> "DAY_REVOTE"
    [] g.phase = "DAY_REVOTE" /\ g.lastWord = <<>> ->
         IF Len(g.tied) >= 2 THEN "DAY_LIFT_VOTE" ELSE "NIGHT_MAFIA"
    [] g.phase = "DAY_LIFT_VOTE" /\ g.lastWord = <<>> -> "NIGHT_MAFIA"
    [] g.phase = "DAY_LAST_WORD" -> "NIGHT_MAFIA"
    [] g.phase = "NIGHT_MAFIA" -> "NIGHT_DON"
    [] g.phase = "NIGHT_DON" -> "NIGHT_SHERIFF"
    [] g.phase = "NIGHT_SHERIFF" -> "MORNING_ANNOUNCEMENT"
    [] g.phase = "MORNING_ANNOUNCEMENT" -> "DAY_SPEECH"
    [] g.phase = "GAME_OVER" -> "GAME_OVER"

\* The single-nominee rule, applied once the destination is known.
SettleIntro(g, to) ==
  CASE to = "NIGHT_MAFIA" /\ g.nominations # <<>> -> Acquit(g)
    [] to = "DAY_LAST_WORD" -> [Condemn(g, g.nominations) EXCEPT !.votes = NoVotes, !.nominations = <<>>]
    [] OTHER -> g

Resolve(g) ==
  LET left == Leave(g)
  IN IF g.phase = "DAY_VOTE_INTRO" THEN SettleIntro(left, NextPhase(left)) ELSE left

\* before is the table as the judge saw it, g the resolved one.
Enter(before, g, to) ==
  [g EXCEPT
     !.phase = to,
     !.round = IF to \in BallotPhases THEN 0 ELSE @,
     !.picker = IF to = "ROLE_DISTRIBUTION" THEN FirstRoleCardPicker(g)
                ELSE IF before.phase = "ROLE_DISTRIBUTION" THEN NoSeat ELSE @,
     !.cards = IF to = "ROLE_DISTRIBUTION" THEN {} ELSE @,
     !.farewell = IF to = "DAY_SPEECH" THEN before.victim ELSE @,
     !.speaker = IF to # "DAY_SPEECH" THEN @
                 ELSE IF before.victim # NoSeat THEN before.victim ELSE DayStartSeat(g)]

PicksPending(g) == g.phase = "ROLE_DISTRIBUTION" /\ g.picker # NoSeat

ApplyAdvancePhase(g) ==
  LET next == Resolve(g)
      to == NextPhase(Leave(g))
  IN CASE PicksPending(g) -> g
       [] ~PicksPending(g) /\ CheckWinner(next) # "none" /\ g.phase \notin PendingFarewell ->
            Finish(next)
       [] OTHER -> Enter(g, next, to)

-----------------------------------------------------------------------------
(* The speaker stepper: applyNextSpeaker.                                  *)

\* Who takes the floor when the current day speaker yields it.
AfterSpeech(g) ==
  IF g.farewell = g.speaker THEN DayStartSeat(g)
  ELSE NextSpeakerSeat([g EXCEPT !.spoken = @ \cup {g.speaker}], g.speaker + 1)

\* Mutant: the last word is left to the other button.
SpeechesDone_NotLastWord(g) ==
  CASE g.phase = "DAY_SHOOTOUT" -> g.shootoutIdx + 1 >= Len(g.tied)
    [] g.phase \in BallotPhases -> g.round + 1 >= Len(g.nominations)
    [] g.phase = "DAY_SPEECH" -> g.speaker # NoSeat /\ AfterSpeech(g) = NoSeat
    [] OTHER -> FALSE

\* The stepper's speechesDone: the judge's click also leaves the phase.
SpeechesDone(g) ==
  CASE g.phase = "DAY_LAST_WORD" -> g.lastWordIdx + 1 >= Len(g.lastWord)
    [] g.phase = "DAY_SHOOTOUT" -> g.shootoutIdx + 1 >= Len(g.tied)
    [] g.phase \in BallotPhases -> g.round + 1 >= Len(g.nominations)
    [] g.phase = "DAY_SPEECH" -> g.speaker # NoSeat /\ AfterSpeech(g) = NoSeat
    [] OTHER -> FALSE

\* Closing the last round: whoever stayed silent votes for its candidate,
\* except the nominees themselves.
AutoCast(g) ==
  [v \in Seats |->
     IF v \in Live(g) /\ g.votes[v] = NoSeat /\ v \notin Nominees(g)
     THEN g.nominations[Len(g.nominations)] ELSE g.votes[v]]

ApplyNextSpeaker(g) ==
  CASE g.phase = "DAY_LAST_WORD" /\ g.lastWordIdx + 1 < Len(g.lastWord) ->
         [g EXCEPT !.lastWordIdx = @ + 1, !.speaker = g.lastWord[g.lastWordIdx + 2]]
    [] g.phase = "DAY_SHOOTOUT" /\ g.shootoutIdx + 1 < Len(g.tied) ->
         [g EXCEPT !.shootoutIdx = @ + 1, !.speaker = g.tied[g.shootoutIdx + 2]]
    [] g.phase \in BallotPhases /\ g.round < Len(g.nominations) ->
         [g EXCEPT !.votes = IF SpeechesDone(g) THEN AutoCast(g) ELSE @, !.round = @ + 1]
    [] g.phase = "DAY_SPEECH" /\ g.speaker # NoSeat ->
         [g EXCEPT !.spoken = IF g.farewell = g.speaker THEN @ ELSE @ \cup {g.speaker},
                   !.farewell = IF @ = g.speaker THEN NoSeat ELSE @,
                   !.speaker = AfterSpeech(g), !.nominator = NoSeat]
    [] OTHER -> g

-----------------------------------------------------------------------------
(* Nomination and the two ballots of the day.                              *)

CanNominate(g, t) ==
  /\ g.phase = "DAY_SPEECH" /\ g.farewell = NoSeat /\ g.speaker # NoSeat
  /\ g.nominator # g.speaker
  /\ t \in Live(g) \ Nominees(g)

ApplyNominate(g, t) ==
  [g EXCEPT !.nominations = Append(@, t), !.nominator = g.speaker]

CanUnnominate(g, t) ==
  g.phase \in {"DAY_SPEECH", "DAY_VOTE_INTRO"} /\ t \in Nominees(g)

ApplyJudgeUnnominate(g, t) ==
  [g EXCEPT !.nominations = Without(@, t), !.nominator = NoSeat]

\* Ballots are taken candidate by candidate; a removed player is turned away
\* by loadGameForUser before the engine sees the ballot.
CanCastVote(g, v, c) ==
  /\ g.phase \in BallotPhases
  /\ g.round < Len(g.nominations) /\ c = g.nominations[g.round + 1]
  /\ v \in Live(g) /\ v # c /\ g.votes[v] = NoSeat

ApplyCastVote(g, v, c) == [g EXCEPT !.votes[v] = c]

CanLiftAllVote(g, v) ==
  g.phase = "DAY_LIFT_VOTE" /\ v \in Live(g) /\ g.lift[v] = "none"

ApplyLiftAllVote(g, v, ballot) == [g EXCEPT !.lift[v] = ballot]

\* The first-night victim's guess, in the farewell minute of the next morning.
CanGuess(g, v, guess) ==
  /\ g.phase = "DAY_SPEECH" /\ g.farewell # NoSeat /\ g.farewell = g.speaker
  /\ g.day = 1 /\ ~g.multiKill
  /\ v = g.farewell /\ v \notin g.bestMove
  /\ Cardinality(guess) \in 1..3 /\ guess \subseteq Live(g) \ {v}

ApplyBestMoveGuess(g, v) == [g EXCEPT !.bestMove = @ \cup {v}]

-----------------------------------------------------------------------------
(* The night, and the card ceremony of ROLE_DISTRIBUTION.                  *)

CanTarget(g, v, t) ==
  /\ g.phase = "NIGHT_MAFIA" /\ v \in LiveBlack(g)
  /\ t \in Live(g) \ LiveBlack(g)

ApplyMafiaTarget(g, v, t) == [g EXCEPT !.mafiaVotes[v] = t, !.pending = t]

CanDonCheck(g, v, t) ==
  /\ g.phase = "NIGHT_DON" /\ v \in Live(g) /\ g.role[v] = "don"
  /\ g.donCheck = NoSeat /\ t # v

ApplyDonCheck(g, v) == [g EXCEPT !.donCheck = v]

CanSheriffCheck(g, v, t) ==
  /\ g.phase = "NIGHT_SHERIFF" /\ v \in Live(g) /\ g.role[v] = "sheriff"
  /\ g.sheriffCheck = NoSeat /\ t # v

ApplySheriffCheck(g, v) == [g EXCEPT !.sheriffCheck = v]

\* Mutant: any seat's pick is taken.
CanPickCard_AnyTurn(g, v, c) == g.phase = "ROLE_DISTRIBUTION" /\ c \notin g.cards

CanPickCard(g, v, c) ==
  g.phase = "ROLE_DISTRIBUTION" /\ g.picker = v /\ c \notin g.cards

ApplyRoleCardPick(g, v, c) ==
  [g EXCEPT !.cards = @ \cup {c}, !.picker = NextRoleCardPicker(g, v)]

-----------------------------------------------------------------------------
(* Discipline: removal and fouls.                                          *)

\* Mutant: the votes for the seat stay in the urn.
Purged_OwnOnly(ballots, s) == [ballots EXCEPT ![s] = NoSeat]

\* Drop the ballot cast by s and those cast for s.
Purged(ballots, s) ==
  [v \in Seats |-> IF v = s \/ ballots[v] = s THEN NoSeat ELSE ballots[v]]

\* Mutant: the turn stays with the seat that is gone.
PassTheTurn_Stuck(g, s) == g.picker

\* The card ceremony's turn does not stay with a seat that is gone.
PassTheTurn(g, s) ==
  IF g.phase = "ROLE_DISTRIBUTION" /\ g.picker = s THEN NextRoleCardPicker(g, s) ELSE g.picker

StrikeOut(g, s) ==
  [g EXCEPT
     !.alive = @ \ {s}, !.removed = @ \cup {s},
     !.nominations = Without(@, s), !.votes = Purged(@, s),
     !.mafiaVotes = Purged(@, s), !.tied = Without(@, s),
     !.lastWord = Without(@, s), !.lift[s] = "none",
     !.picker = PassTheTurn(g, s),
     !.speaker = IF @ = s THEN NoSeat ELSE @,
     !.farewell = IF @ = s THEN NoSeat ELSE @,
     !.disqualified = @ \/ g.phase \in CourtPhases]

ApplyJudgeRemove(g, s) ==
  LET next == StrikeOut(g, s)
  IN IF CheckWinner(next) # "none" THEN Finish(next) ELSE next

\* The fourth foul is a technical loss, whoever pressed the button.
AddFoul(g, s) ==
  LET fouled == [g EXCEPT !.fouls[s] = @ + 1]
  IN IF fouled.fouls[s] >= FoulRemove THEN ApplyJudgeRemove(fouled, s) ELSE fouled

CanFoul(g, s) == g.fouls[s] < FoulRemove
ApplyJudgeFoul(g, s) == AddFoul(g, s)

\* Mutant: no floor at zero.
CanUnfoul_NoFloor(g, s) == TRUE

CanUnfoul(g, s) == g.fouls[s] > 0
ApplyJudgeUnfoul(g, s) == [g EXCEPT !.fouls[s] = @ - 1]

\* "Say it for a foul": the player's own foul buys five audible seconds.
CanSayOutOfTurn(g, s) ==
  /\ g.phase \in {"DAY_SPEECH", "DAY_SHOOTOUT", "DAY_LAST_WORD"}
  /\ s \in Live(g) /\ g.fouls[s] < FoulRemove
ApplyOutOfTurn(g, s) == AddFoul(g, s)

ApplyJudgeEndGame(g) ==
  [g EXCEPT !.finished = TRUE, !.phase = "GAME_OVER", !.winner = "none"]
=============================================================================
