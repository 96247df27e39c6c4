----------------------------- MODULE CycleProofs -----------------------------
(***************************************************************************)
(* Every step of the engine is a step of the evening's rules (GameCycle):  *)
(* who may be taken from the table, when, and when the table is decided.   *)
(* From the same case split: what the bots of a table decide, and who may  *)
(* guess a best move.                                                      *)
(***************************************************************************)
EXTENDS CourtProofs, TableBots, CardCeremony

-----------------------------------------------------------------------------
(* The invariant.                                                          *)

BeforeCards == {"PLAYER_INTRODUCTION", "ROLE_DISTRIBUTION", "NIGHT_ZERO"}
ShotPhases == {"NIGHT_MAFIA", "NIGHT_DON", "NIGHT_SHERIFF"}

\* Phases that are entered, and stayed in, only while nothing is decided.
OpenPhases == (CourtPhases \ {"DAY_SPEECH"}) \cup ShotPhases

ShotsAtTheRed(g) ==
  \A v \in Seats : g.mafiaVotes[v] # NoSeat => g.mafiaVotes[v] \in Live(g) \ LiveBlack(g)

\* The table g is one that phase p of an evening may have.
Evening(g, p) ==
  /\ p \in ShotPhases => ShotsAtTheRed(g)
  /\ p \notin ShotPhases \cup {"MORNING_ANNOUNCEMENT", "GAME_OVER"} => g.mafiaVotes = NoVotes
  /\ p \in OpenPhases => CheckWinner(g) = "none"
  /\ p \in BeforeCards => ~g.disqualified
  /\ p # "GAME_OVER" => g.winner = "none"

EveningInv == Evening(game, game.phase)

\* Tables that the evening's rules do not tell apart, but for the phase.
SameEvening(g, h) ==
  /\ h.alive = g.alive /\ h.removed = g.removed /\ h.role = g.role
  /\ h.mafiaVotes = g.mafiaVotes /\ h.disqualified = g.disqualified /\ h.winner = g.winner

LEMMA WinnerOfSame ==
  ASSUME NEW g, NEW h, h.alive = g.alive, h.removed = g.removed, h.role = g.role
  PROVE Live(h) = Live(g) /\ LiveBlack(h) = LiveBlack(g) /\ CheckWinner(h) = CheckWinner(g)
<1>1. Live(h) = Live(g) BY DEF Live
<1>2. LiveBlack(h) = LiveBlack(g) BY <1>1 DEF LiveBlack
<1>. QED BY <1>1, <1>2 DEF CheckWinner

LEMMA EveningOfSame ==
  ASSUME NEW g, NEW h, NEW p, SameEvening(g, h), Evening(g, p)
  PROVE Evening(h, p)
<1>1. /\ Live(h) = Live(g) /\ LiveBlack(h) = LiveBlack(g) /\ CheckWinner(h) = CheckWinner(g)
  BY WinnerOfSame DEF SameEvening
<1>2. ShotsAtTheRed(g) => ShotsAtTheRed(h) BY <1>1 DEF SameEvening, ShotsAtTheRed
<1>. QED BY <1>1, <1>2 DEF SameEvening, Evening

-----------------------------------------------------------------------------
(* Leaving a phase.                                                        *)

\* The court closes, or goes on, without taking anybody.
Spared(g, h, to) ==
  /\ h.alive = g.alive
  /\ to \in (CourtPhases \ {"DAY_SPEECH"}) \cup {"NIGHT_MAFIA"}

\* Or it sends somebody out, which a removal would have forbidden.
Sentenced(g, h, to) ==
  /\ ~g.disqualified /\ to = "DAY_LAST_WORD"
  /\ \E S \in SUBSET Seats : S # {} /\ S \subseteq Live(g) /\ h.alive = g.alive \ S

\* What no way of leaving the court changes.
KeptByCourt(g, h) ==
  /\ h.removed = g.removed /\ h.role = g.role /\ h.mafiaVotes = g.mafiaVotes
  /\ h.disqualified = g.disqualified /\ h.winner = g.winner

LEMMA AcquitKeeps ==
  ASSUME NEW g \in GameState
  PROVE LET h == Acquit(g)
        IN KeptByCourt(g, h) /\ h.alive = g.alive /\ h.phase = g.phase /\ h.nominations = <<>>
           /\ h.tied = <<>> /\ h.lastWord = g.lastWord
BY DEF Acquit, GameState, KeptByCourt

LEMMA CondemnKeeps ==
  ASSUME NEW g \in GameState, NEW queue
  PROVE LET h == Condemn(g, queue)
        IN KeptByCourt(g, h) /\ h.alive = g.alive \ ToSet(queue) /\ h.phase = g.phase
           /\ h.lastWord = queue
BY DEF Condemn, KillSeats, GameState, KeptByCourt

LEMMA NonEmptyQueue ==
  ASSUME NEW q \in Seq(Seats), q # <<>>
  PROVE ToSet(q) # {}
<1>1. Len(q) # 0 BY EmptySeq
<1>2. 1 \in DOMAIN q BY <1>1
<1>. QED BY <1>2 DEF ToSet

LEMMA VoteOutcome ==
  ASSUME NEW g \in GameState, g.phase = "DAY_VOTE", Court(g, g.phase)
  PROVE LET h == LeaveVote(g)
            to == NextPhase(h)
        IN KeptByCourt(g, h) /\ (Spared(g, h, to) \/ Sentenced(g, h, to))
<1>. DEFINE chosen == ResolveVote(g)
            tie == FindTiedSeats(g)
            h == LeaveVote(g)
<1>1. g.tied = <<>> /\ g.lastWord = <<>> BY DEF Court, TiePhases
<1>2. Voted(g) \subseteq Live(g) BY VotedStand DEF BallotPhases
<1>3. CASE g.disqualified
  <2>1. h = Acquit(g) BY <1>3 DEF LeaveVote
  <2>. HIDE DEF h
  <2>2. /\ KeptByCourt(g, h) /\ h.alive = g.alive /\ h.phase = g.phase
        /\ h.tied = <<>> /\ h.lastWord = <<>>
    BY <1>1, <2>1, AcquitKeeps
  <2>3. NextPhase(h) = "NIGHT_MAFIA" BY <2>2 DEF NextPhase
  <2>. QED BY <2>2, <2>3 DEF h, Spared
<1>4. CASE ~g.disqualified /\ chosen # NoSeat
  <2>. DEFINE c == Condemn(g, <<chosen>>)
  <2>1. h = [c EXCEPT !.nominations = <<>>] BY <1>4 DEF LeaveVote
  <2>2. chosen \in Seats /\ chosen \in Live(g) BY <1>2, <1>4, CountedWereVoted
  <2>3. ToSet(<<chosen>>) = {chosen} /\ <<chosen>> \in Seq(Seats) /\ <<chosen>> # <<>>
    BY <2>2, OneSeatList
  <2>4. KeptByCourt(g, c) /\ c.alive = g.alive \ {chosen} /\ c.phase = g.phase
        /\ c.lastWord = <<chosen>>
    BY <2>3, CondemnKeeps
  <2>5. c \in GameState BY <2>3, CondemnTyped
  <2>. HIDE DEF h, c, chosen
  <2>6. /\ KeptByCourt(g, h) /\ h.alive = g.alive \ {chosen} /\ h.phase = g.phase
        /\ h.lastWord = <<chosen>>
    BY <2>1, <2>4, <2>5 DEF GameState, KeptByCourt
  <2>7. NextPhase(h) = "DAY_LAST_WORD" BY <2>3, <2>6 DEF NextPhase
  <2>8. Sentenced(g, h, "DAY_LAST_WORD") BY <1>4, <2>2, <2>6 DEF Sentenced
  <2>. QED BY <2>6, <2>7, <2>8 DEF h
<1>5. CASE ~g.disqualified /\ chosen = NoSeat /\ tie # <<>>
  <2>1. h = OpenRunoff(g, tie) BY <1>5 DEF LeaveVote
  <2>2. tie \in Seq(Seats) /\ Len(tie) >= 2 BY <1>5, CountedWereVoted
  <2>. HIDE DEF h, tie
  <2>3. /\ KeptByCourt(g, h) /\ h.alive = g.alive /\ h.phase = g.phase
        /\ h.tied = tie /\ h.lastWord = <<>>
    BY <1>1, <2>1 DEF OpenRunoff, GameState, KeptByCourt
  <2>4. NextPhase(h) = "DAY_SHOOTOUT" BY <2>2, <2>3 DEF NextPhase
  <2>. QED BY <2>3, <2>4 DEF h, Spared, CourtPhases
<1>6. CASE ~g.disqualified /\ chosen = NoSeat /\ tie = <<>>
  <2>1. h = [g EXCEPT !.votes = NoVotes, !.nominations = <<>>] BY <1>6 DEF LeaveVote
  <2>. HIDE DEF h
  <2>2. /\ KeptByCourt(g, h) /\ h.alive = g.alive /\ h.phase = g.phase
        /\ h.tied = <<>> /\ h.lastWord = <<>>
    BY <1>1, <2>1 DEF GameState, KeptByCourt
  <2>3. NextPhase(h) = "NIGHT_MAFIA" BY <2>2 DEF NextPhase
  <2>. QED BY <2>2, <2>3 DEF h, Spared
<1>. QED BY <1>3, <1>4, <1>5, <1>6 DEF GameState

LEMMA RevoteOutcome ==
  ASSUME NEW g \in GameState, g.phase = "DAY_REVOTE", Court(g, g.phase)
  PROVE LET h == LeaveRevote(g)
            to == NextPhase(h)
        IN KeptByCourt(g, h) /\ (Spared(g, h, to) \/ Sentenced(g, h, to))
<1>. DEFINE chosen == ResolveVote(g)
            tie == FindTiedSeats(g)
            counted == [g EXCEPT !.shootoutIdx = 0]
            h == LeaveRevote(g)
<1>1. g.lastWord = <<>> BY DEF Court
<1>2. Voted(g) \subseteq Live(g) BY VotedStand DEF BallotPhases
<1>3. counted \in GameState BY ClearedTyped
<1>4. /\ KeptByCourt(g, counted) /\ counted.alive = g.alive
      /\ counted.lastWord = <<>> /\ counted.phase = g.phase
  BY <1>1 DEF GameState, KeptByCourt
<1>5. CASE ~g.disqualified /\ chosen # NoSeat
  <2>. DEFINE c == Condemn(counted, <<chosen>>)
  <2>1. h = [c EXCEPT !.nominations = <<>>, !.tied = <<>>] BY <1>5 DEF LeaveRevote
  <2>2. chosen \in Seats /\ chosen \in Live(g) BY <1>2, <1>5, CountedWereVoted
  <2>3. ToSet(<<chosen>>) = {chosen} /\ <<chosen>> \in Seq(Seats) /\ <<chosen>> # <<>>
    BY <2>2, OneSeatList
  <2>. HIDE DEF counted, chosen
  <2>4. KeptByCourt(counted, c) /\ c.alive = counted.alive \ {chosen}
        /\ c.phase = counted.phase /\ c.lastWord = <<chosen>>
    BY <1>3, <2>3, CondemnKeeps
  <2>5. c \in GameState BY <1>3, <2>3, CondemnTyped
  <2>. HIDE DEF h, c
  <2>6. /\ KeptByCourt(g, h) /\ h.alive = g.alive \ {chosen} /\ h.phase = g.phase
        /\ h.lastWord = <<chosen>>
    BY <1>4, <2>1, <2>4, <2>5 DEF GameState, KeptByCourt
  <2>7. NextPhase(h) = "DAY_LAST_WORD" BY <2>3, <2>6 DEF NextPhase
  <2>8. Sentenced(g, h, "DAY_LAST_WORD") BY <1>5, <2>2, <2>6 DEF Sentenced, chosen
  <2>. QED BY <2>6, <2>7, <2>8 DEF h
<1>6. CASE ~g.disqualified /\ chosen = NoSeat /\ tie # <<>>
  <2>. DEFINE a == Acquit(counted)
  <2>1. h = [a EXCEPT !.tied = tie, !.lift = NoBallots] BY <1>6 DEF LeaveRevote
  <2>2. tie \in Seq(Seats) /\ Len(tie) >= 2 BY <1>6, CountedWereVoted
  <2>3. a \in GameState BY <1>3, AcquitTyped
  <2>. HIDE DEF h, tie, counted
  <2>4. KeptByCourt(counted, a) /\ a.alive = counted.alive /\ a.phase = counted.phase
        /\ a.lastWord = counted.lastWord
    BY <1>3, AcquitKeeps
  <2>. HIDE DEF a
  <2>5. /\ KeptByCourt(g, h) /\ h.alive = g.alive /\ h.phase = g.phase
        /\ h.tied = tie /\ h.lastWord = <<>>
    BY <1>4, <2>1, <2>3, <2>4 DEF GameState, KeptByCourt
  <2>6. NextPhase(h) = "DAY_LIFT_VOTE" BY <2>2, <2>5 DEF NextPhase
  <2>. QED BY <2>5, <2>6 DEF h, Spared, CourtPhases
<1>7. CASE ~(~g.disqualified /\ chosen # NoSeat) /\ ~(~g.disqualified /\ chosen = NoSeat /\ tie # <<>>)
  <2>1. h = Acquit(counted) BY <1>7 DEF LeaveRevote
  <2>. HIDE DEF h, counted
  <2>2. KeptByCourt(counted, h) /\ h.alive = counted.alive /\ h.phase = counted.phase
        /\ h.tied = <<>> /\ h.lastWord = counted.lastWord
    BY <1>3, <2>1, AcquitKeeps
  <2>3. NextPhase(h) = "NIGHT_MAFIA" BY <1>4, <2>2 DEF NextPhase
  <2>. QED BY <1>4, <2>2, <2>3 DEF h, Spared, KeptByCourt
<1>. QED BY <1>5, <1>6, <1>7

LEMMA LiftVoteOutcome ==
  ASSUME NEW g \in GameState, g.phase = "DAY_LIFT_VOTE", Court(g, g.phase)
  PROVE LET h == LeaveLiftVote(g)
            to == NextPhase(h)
        IN KeptByCourt(g, h) /\ (Spared(g, h, to) \/ Sentenced(g, h, to))
<1>. DEFINE closed == [g EXCEPT !.lift = NoBallots, !.tied = <<>>]
            h == LeaveLiftVote(g)
<1>1. g.lastWord = <<>> /\ Among(g.tied, Live(g)) BY DEF Court, Lists
<1>2. closed \in GameState BY ClearedTyped
<1>3. /\ KeptByCourt(g, closed) /\ closed.alive = g.alive
      /\ closed.lastWord = <<>> /\ closed.phase = g.phase
  BY <1>1 DEF GameState, KeptByCourt
<1>4. CASE ~g.disqualified /\ LiftPasses(g) /\ g.tied # <<>>
  <2>. DEFINE c == Condemn(closed, g.tied)
  <2>1. h = [c EXCEPT !.multiKill = @ \/ LiftForfeitsBestMove(g)] BY <1>4 DEF LeaveLiftVote
  <2>2. g.tied \in Seq(Seats) BY DEF GameState
  <2>. HIDE DEF closed
  <2>3. c \in GameState BY <1>2, <1>4, <2>2, CondemnTyped
  <2>4. KeptByCourt(closed, c) /\ c.alive = closed.alive \ ToSet(g.tied)
        /\ c.phase = closed.phase /\ c.lastWord = g.tied
    BY <1>2, CondemnKeeps
  <2>. HIDE DEF h, c
  <2>5. /\ KeptByCourt(g, h) /\ h.alive = g.alive \ ToSet(g.tied) /\ h.phase = g.phase
        /\ h.lastWord = g.tied
    BY <1>3, <2>1, <2>3, <2>4 DEF GameState, KeptByCourt
  <2>6. NextPhase(h) = "DAY_LAST_WORD" BY <1>4, <2>5 DEF NextPhase
  <2>7. ToSet(g.tied) \subseteq Live(g) /\ ToSet(g.tied) # {} /\ Live(g) \subseteq Seats
    BY <1>1, <1>4, <2>2, AmongIsToSet, NonEmptyQueue DEF Live, GameState
  <2>8. Sentenced(g, h, "DAY_LAST_WORD") BY <1>4, <2>5, <2>7 DEF Sentenced
  <2>. QED BY <2>5, <2>6, <2>8 DEF h
<1>5. CASE ~(~g.disqualified /\ LiftPasses(g) /\ g.tied # <<>>)
  <2>1. h = closed BY <1>5 DEF LeaveLiftVote
  <2>. HIDE DEF h, closed
  <2>2. NextPhase(h) = "NIGHT_MAFIA" BY <1>3, <2>1 DEF NextPhase
  <2>. QED BY <1>3, <2>1, <2>2 DEF h, Spared
<1>. QED BY <1>4, <1>5

LEMMA IntroOutcome ==
  ASSUME NEW g \in GameState, g.phase = "DAY_VOTE_INTRO", Court(g, g.phase)
  PROVE LET to == NextPhase(g)
            h == SettleIntro(g, to)
        IN KeptByCourt(g, h) /\ (Spared(g, h, to) \/ Sentenced(g, h, to))
<1>. DEFINE to == NextPhase(g)
            h == SettleIntro(g, to)
<1>1. /\ to \in {"NIGHT_MAFIA", "DAY_LAST_WORD", "DAY_VOTE"}
      /\ to = "DAY_LAST_WORD" => g.nominations # <<>> /\ ~g.disqualified
  BY NextPhaseTyped DEF NextPhase
<1>. HIDE DEF to
<1>2. CASE to = "NIGHT_MAFIA" /\ g.nominations # <<>>
  <2>1. h = Acquit(g) BY <1>2 DEF SettleIntro
  <2>. HIDE DEF h
  <2>2. KeptByCourt(g, h) /\ h.alive = g.alive BY <2>1, AcquitKeeps
  <2>. QED BY <1>2, <2>2 DEF h, to, Spared
<1>3. CASE to = "DAY_LAST_WORD"
  <2>. DEFINE c == Condemn(g, g.nominations)
  <2>1. h = [c EXCEPT !.votes = NoVotes, !.nominations = <<>>] BY <1>3 DEF SettleIntro
  <2>2. g.nominations \in Seq(Seats) BY DEF GameState
  <2>3. c \in GameState BY <1>1, <1>3, <2>2, CondemnTyped
  <2>4. KeptByCourt(g, c) /\ c.alive = g.alive \ ToSet(g.nominations) BY CondemnKeeps
  <2>. HIDE DEF h, c
  <2>5. KeptByCourt(g, h) /\ h.alive = g.alive \ ToSet(g.nominations)
    BY <2>1, <2>3, <2>4 DEF GameState, KeptByCourt
  <2>6. ToSet(g.nominations) \subseteq Live(g) /\ ToSet(g.nominations) # {}
        /\ Live(g) \subseteq Seats
    BY <1>1, <1>3, <2>2, AmongIsToSet, NonEmptyQueue DEF Live, GameState, Court, Lists
  <2>7. Sentenced(g, h, "DAY_LAST_WORD") BY <1>1, <1>3, <2>5, <2>6 DEF Sentenced
  <2>. QED BY <1>3, <2>5, <2>7 DEF h, to
<1>4. CASE to = "DAY_VOTE" \/ (to = "NIGHT_MAFIA" /\ g.nominations = <<>>)
  <2>1. h = g BY <1>4 DEF SettleIntro
  <2>. QED BY <1>4, <2>1 DEF h, to, Spared, KeptByCourt, CourtPhases
<1>. QED BY <1>1, <1>2, <1>3, <1>4

LEMMA SpeechOutcome ==
  ASSUME NEW g \in GameState, g.phase = "DAY_SPEECH"
  PROVE LET h == LeaveSpeech(g)
            to == NextPhase(h)
        IN KeptByCourt(g, h) /\ Spared(g, h, to)
<1>. DEFINE quiet == [g EXCEPT !.spoken = {}, !.speaker = NoSeat]
            h == LeaveSpeech(g)
<1>1. quiet \in GameState BY ClearedTyped
<1>2. KeptByCourt(g, quiet) /\ quiet.alive = g.alive /\ quiet.phase = g.phase
  BY DEF GameState, KeptByCourt
<1>3. h = Acquit(quiet) \/ h = quiet BY DEF LeaveSpeech
<1>. HIDE DEF h, quiet
<1>4. KeptByCourt(g, h) /\ h.alive = g.alive /\ h.phase = g.phase
  BY <1>1, <1>2, <1>3, AcquitKeeps DEF KeptByCourt
<1>5. NextPhase(h) \in {"DAY_VOTE_INTRO", "NIGHT_MAFIA"} BY <1>4 DEF NextPhase
<1>. QED BY <1>4, <1>5 DEF h, Spared, CourtPhases

\* Leaving any phase of the court.
LEMMA CourtOutcome ==
  ASSUME NEW g \in GameState, g.phase \in CourtPhases, Court(g, g.phase)
  PROVE LET h == Resolve(g)
            to == NextPhase(Leave(g))
        IN KeptByCourt(g, h) /\ (Spared(g, h, to) \/ Sentenced(g, h, to))
<1>1. CASE g.phase = "DAY_VOTE_INTRO" BY <1>1, IntroOutcome DEF Resolve, Leave
<1>2. CASE g.phase = "DAY_VOTE" BY <1>2, VoteOutcome DEF Resolve, Leave
<1>3. CASE g.phase = "DAY_REVOTE" BY <1>3, RevoteOutcome DEF Resolve, Leave
<1>4. CASE g.phase = "DAY_LIFT_VOTE" BY <1>4, LiftVoteOutcome DEF Resolve, Leave
<1>5. CASE g.phase = "DAY_SPEECH" BY <1>5, SpeechOutcome DEF Resolve, Leave
<1>6. CASE g.phase = "DAY_SHOOTOUT"
  <2>. DEFINE h == [g EXCEPT !.speaker = NoSeat, !.shootoutIdx = 0]
  <2>1. Leave(g) = h /\ Resolve(g) = h BY <1>6 DEF Resolve, Leave
  <2>2. KeptByCourt(g, h) /\ h.alive = g.alive /\ h.phase = "DAY_SHOOTOUT"
    BY <1>6 DEF KeptByCourt, GameState
  <2>. HIDE DEF h
  <2>3. NextPhase(h) = "DAY_REVOTE" BY <2>2 DEF NextPhase
  <2>. QED BY <2>1, <2>2, <2>3 DEF Spared, CourtPhases
<1>. QED BY <1>1, <1>2, <1>3, <1>4, <1>5, <1>6 DEF CourtPhases

\* The night takes the seat at which every black seat in play shot, or nobody.
LEMMA NightOutcome ==
  ASSUME NEW g \in GameState, g.phase = "NIGHT_SHERIFF", ShotsAtTheRed(g)
  PROVE LET h == LeaveNight(g)
            shot == ResolveMafiaConsensus(g)
        IN /\ KeptByCourt(g, h) /\ h.phase = g.phase /\ h.alive = g.alive \ {shot}
           /\ shot # NoSeat => /\ shot \in Live(g) \ LiveBlack(g)
                               /\ \A s \in LiveBlack(g) : g.mafiaVotes[s] = shot
<1>. DEFINE h == LeaveNight(g)
            shot == ResolveMafiaConsensus(g)
<1>1. KeptByCourt(g, h) /\ h.phase = g.phase /\ h.alive = g.alive \ {shot}
  BY DEF LeaveNight, KillSeats, GameState, KeptByCourt
<1>2. ASSUME shot # NoSeat
      PROVE /\ shot \in Live(g) \ LiveBlack(g)
            /\ \A s \in LiveBlack(g) : g.mafiaVotes[s] = shot
  <2>1. LiveBlack(g) # {} /\ \E t \in Seats : \A s \in LiveBlack(g) : g.mafiaVotes[s] = t
    BY <1>2 DEF ResolveMafiaConsensus
  <2>2. shot = CHOOSE t \in Seats : \A s \in LiveBlack(g) : g.mafiaVotes[s] = t
    BY <1>2 DEF ResolveMafiaConsensus
  <2>3. shot \in Seats /\ \A s \in LiveBlack(g) : g.mafiaVotes[s] = shot BY <2>1, <2>2
  <2>. HIDE DEF shot
  <2>4. PICK s \in LiveBlack(g) : g.mafiaVotes[s] = shot BY <2>1, <2>3
  <2>5. s \in Seats BY <2>4 DEF LiveBlack, Live, GameState
  <2>. QED BY <1>2, <2>3, <2>4, <2>5 DEF ShotsAtTheRed
<1>. QED BY <1>1, <1>2

LEMMA MorningOutcome ==
  ASSUME NEW g \in GameState
  PROVE LET h == LeaveMorning(g)
        IN /\ h.alive = g.alive /\ h.removed = g.removed /\ h.role = g.role
           /\ h.mafiaVotes = NoVotes /\ ~h.disqualified /\ h.winner = g.winner
           /\ h.phase = g.phase
BY DEF LeaveMorning, GameState

LEMMA QuietOutcome ==
  ASSUME NEW g \in GameState,
         g.phase \in BeforeCards \cup {"DAY_LAST_WORD", "NIGHT_MAFIA", "NIGHT_DON", "GAME_OVER"}
  PROVE LET to == NextPhase(Leave(g))
        IN /\ SameEvening(g, Resolve(g))
           /\ to = CASE g.phase = "PLAYER_INTRODUCTION" -> "ROLE_DISTRIBUTION"
                     [] g.phase = "ROLE_DISTRIBUTION" -> "NIGHT_ZERO"
                     [] g.phase = "NIGHT_ZERO" -> "DAY_SPEECH"
                     [] g.phase = "DAY_LAST_WORD" -> "NIGHT_MAFIA"
                     [] g.phase = "NIGHT_MAFIA" -> "NIGHT_DON"
                     [] g.phase = "NIGHT_DON" -> "NIGHT_SHERIFF"
                     [] g.phase = "GAME_OVER" -> "GAME_OVER"
<1>1. CASE g.phase = "DAY_LAST_WORD"
  <2>. DEFINE h == [g EXCEPT !.lastWord = <<>>, !.lastWordIdx = 0, !.speaker = NoSeat]
  <2>1. Leave(g) = h /\ Resolve(g) = h BY <1>1 DEF Resolve, Leave
  <2>2. SameEvening(g, h) /\ h.phase = "DAY_LAST_WORD" BY <1>1 DEF SameEvening, GameState
  <2>. HIDE DEF h
  <2>3. NextPhase(h) = "NIGHT_MAFIA" BY <2>2 DEF NextPhase
  <2>. QED BY <1>1, <2>1, <2>2, <2>3
<1>2. CASE g.phase # "DAY_LAST_WORD"
  <2>1. Leave(g) = g /\ Resolve(g) = g BY <1>2 DEF Resolve, Leave, BeforeCards
  <2>2. SameEvening(g, g) BY DEF SameEvening
  <2>. QED BY <1>2, <2>1, <2>2 DEF NextPhase, BeforeCards
<1>. QED BY <1>1, <1>2

-----------------------------------------------------------------------------
(* Steps of the engine as steps of the evening.                            *)

LEMMA DecisionIsWinner ==
  ASSUME NEW g \in GameState, g.role = game.role
  PROVE Cycle!Decision(Live(g)) = CheckWinner(g)
<1>1. Live(g) \subseteq Seats BY DEF Live, GameState
<1>2. Live(g) \cap {s \in Seats : game.role[s] \in BlackRoles} = LiveBlack(g)
  BY <1>1 DEF LiveBlack
<1>3. Live(g) \ {s \in Seats : game.role[s] \in BlackRoles} = Live(g) \ LiveBlack(g)
  BY <1>1 DEF LiveBlack
<1>4. \A S : Cycle!Cardinality(S) = Cardinality(S) BY DEF Cycle!Cardinality, Cardinality
<1>. QED BY <1>2, <1>3, <1>4 DEF Cycle!Decision, CheckWinner

LEMMA IsStutter ==
  ASSUME game'.role = game.role, Live(game') = Live(game),
         game'.disqualified = game.disqualified, game'.winner = game.winner,
         StageOf(game'.phase) = StageOf(game.phase)
  PROVE UNCHANGED Cycle!vars
<1>1. Live(game)' = Live(game) BY DEF Live
<1>2. StageOf(game.phase)' = StageOf(game.phase) BY DEF StageOf, CourtPhases
<1>. QED BY <1>1, <1>2 DEF Cycle!vars

LEMMA IsConclude ==
  ASSUME TypeOK, game'.role = game.role, Live(game') = Live(game),
         game'.disqualified = game.disqualified,
         StageOf(game.phase) \in {"setup", "court", "lastWord", "over"},
         CheckWinner(game) # "none",
         game'.phase = "GAME_OVER", game'.winner = CheckWinner(game)
  PROVE Cycle!Conclude
<1>1. Live(game)' = Live(game) BY DEF Live
<1>2. Cycle!Decision(Live(game)) = CheckWinner(game) BY DecisionIsWinner DEF TypeOK
<1>3. StageOf(game.phase)' = "over" BY DEF StageOf, CourtPhases
<1>. QED BY <1>1, <1>2, <1>3 DEF Cycle!Conclude

LEMMA IsSleep ==
  ASSUME TypeOK, game'.role = game.role, Live(game') = Live(game),
         game'.disqualified = game.disqualified, game'.winner = game.winner,
         StageOf(game.phase) \in {"court", "lastWord"},
         CheckWinner(game) = "none", game'.phase = "NIGHT_MAFIA"
  PROVE Cycle!Sleep
<1>1. Live(game)' = Live(game) BY DEF Live
<1>2. Cycle!Decision(Live(game)) = CheckWinner(game) BY DecisionIsWinner DEF TypeOK
<1>3. StageOf(game.phase)' = "night" BY DEF StageOf, CourtPhases
<1>. QED BY <1>1, <1>2, <1>3 DEF Cycle!Sleep

LEMMA IsConvene ==
  ASSUME TypeOK, game'.role = game.role, Live(game') = Live(game),
         game'.disqualified = FALSE, game'.winner = game.winner,
         \/ StageOf(game.phase) = "dawn"
         \/ StageOf(game.phase) = "setup" /\ CheckWinner(game) = "none",
         game'.phase = "DAY_SPEECH"
  PROVE Cycle!Convene
<1>1. Live(game)' = Live(game) BY DEF Live
<1>2. Cycle!Decision(Live(game)) = CheckWinner(game) BY DecisionIsWinner DEF TypeOK
<1>3. StageOf(game.phase)' = "court" BY DEF StageOf, CourtPhases
<1>. QED BY <1>1, <1>2, <1>3 DEF Cycle!Convene

LEMMA IsCondemn ==
  ASSUME game'.role = game.role, game'.disqualified = game.disqualified,
         game'.winner = game.winner, ~game.disqualified,
         StageOf(game.phase) = "court", game'.phase = "DAY_LAST_WORD",
         NEW S \in SUBSET Seats, S # {}, S \subseteq Live(game), Live(game') = Live(game) \ S
  PROVE Cycle!Condemn(S)
<1>1. Live(game)' = Live(game) \ S BY DEF Live
<1>2. StageOf(game.phase)' = "lastWord" BY DEF StageOf, CourtPhases
<1>. QED BY <1>1, <1>2 DEF Cycle!Condemn

AtMostOne(S) == \A s, t \in S : s = t

LEMMA IsWake ==
  ASSUME game'.role = game.role, game'.disqualified = game.disqualified,
         game'.winner = game.winner,
         StageOf(game.phase) = "night", game'.phase = "MORNING_ANNOUNCEMENT",
         NEW S \in SUBSET Seats,
         S \subseteq Live(game) \ LiveBlack(game), AtMostOne(S),
         Live(game') = Live(game) \ S
  PROVE Cycle!Wake(S)
<1>1. Live(game)' = Live(game) \ S BY DEF Live
<1>2. StageOf(game.phase)' = "dawn" BY DEF StageOf, CourtPhases
<1>3. S \subseteq Live(game) \ {s \in Seats : game.role[s] \in BlackRoles} BY DEF LiveBlack
<1>. QED BY <1>1, <1>2, <1>3 DEF Cycle!Wake, AtMostOne

LEMMA StageTable ==
  ASSUME NEW p \in Phases
  PROVE /\ (StageOf(p) = "court") <=> (p \in CourtPhases)
        /\ (StageOf(p) = "setup") <=> (p \in BeforeCards)
        /\ (StageOf(p) = "lastWord") <=> (p = "DAY_LAST_WORD")
        /\ (StageOf(p) = "night") <=> (p \in ShotPhases)
        /\ (StageOf(p) = "dawn") <=> (p = "MORNING_ANNOUNCEMENT")
        /\ (StageOf(p) = "over") <=> (p = "GAME_OVER")
BY DEF StageOf, Phases, CourtPhases, BeforeCards, ShotPhases

LEMMA IsStrike ==
  ASSUME TypeOK, TypeOK', game'.role = game.role, NEW s \in Seats, Live(game') = Live(game) \ {s},
         game'.disqualified = (game.disqualified \/ game.phase \in CourtPhases),
         IF CheckWinner(game') = "none"
         THEN game'.phase = game.phase /\ game'.winner = game.winner
         ELSE game'.phase = "GAME_OVER" /\ game'.winner = CheckWinner(game')
  PROVE Cycle!Strike(s)
<1>1. Live(game)' = Live(game') /\ Live(game)' = Live(game) \ {s} BY DEF Live
<1>2. game' \in GameState BY DEF TypeOK
<1>3. Cycle!Decision(Live(game')) = CheckWinner(game') BY <1>2, DecisionIsWinner
<1>4. game.phase \in CourtPhases <=> StageOf(game.phase) = "court"
  BY StageTable DEF TypeOK, GameState
<1>5. CASE CheckWinner(game') = "none"
  <2>1. StageOf(game.phase)' = StageOf(game.phase) BY <1>5 DEF StageOf, CourtPhases
  <2>. QED BY <1>1, <1>3, <1>4, <1>5, <2>1 DEF Cycle!Strike
<1>6. CASE CheckWinner(game') # "none"
  <2>1. StageOf(game.phase)' = "over" BY <1>6 DEF StageOf, CourtPhases
  <2>. QED BY <1>1, <1>3, <1>4, <1>6, <2>1 DEF Cycle!Strike
<1>. QED BY <1>5, <1>6

LEMMA IsAbandon ==
  ASSUME game'.role = game.role, Live(game') = Live(game),
         game'.disqualified = game.disqualified,
         game'.phase = "GAME_OVER", game'.winner = "none"
  PROVE Cycle!Abandon
<1>1. Live(game)' = Live(game) BY DEF Live
<1>2. StageOf(game.phase)' = "over" BY DEF StageOf, CourtPhases
<1>. QED BY <1>1, <1>2 DEF Cycle!Abandon

-----------------------------------------------------------------------------
(* What the button that leaves a phase can do.                             *)

Verdict(g, r) ==
  /\ r.alive = g.alive /\ r.mafiaVotes = g.mafiaVotes /\ r.disqualified = g.disqualified
  /\ g.phase \in BeforeCards \cup {"DAY_SPEECH", "DAY_LAST_WORD", "GAME_OVER"}
  /\ CheckWinner(g) # "none" /\ r.phase = "GAME_OVER" /\ r.winner = CheckWinner(g)

Wakes(g, r) ==
  /\ g.phase = "NIGHT_SHERIFF" /\ r.phase = "MORNING_ANNOUNCEMENT" /\ KeptByCourt(g, r)
  /\ \/ r.alive = g.alive
     \/ \E t \in Live(g) \ LiveBlack(g) :
          r.alive = g.alive \ {t} /\ \A s \in LiveBlack(g) : g.mafiaVotes[s] = t

Dawns(g, r) ==
  /\ g.phase = "MORNING_ANNOUNCEMENT" /\ r.phase = "DAY_SPEECH"
  /\ r.alive = g.alive /\ r.mafiaVotes = NoVotes /\ r.disqualified = FALSE
  /\ r.winner = g.winner

Passes(g, r) ==
  /\ SameEvening(g, r)
  /\ \/ r.phase = g.phase
     \/ /\ CheckWinner(g) = "none"
        /\ \/ g.phase \in BeforeCards /\ r.phase \in BeforeCards \cup {"DAY_SPEECH"}
           \/ g.phase = "DAY_LAST_WORD" /\ r.phase = "NIGHT_MAFIA"
     \/ g.phase \in ShotPhases /\ r.phase \in ShotPhases

Sits(g, r) ==
  /\ g.phase \in CourtPhases /\ KeptByCourt(g, r)
  /\ \/ Spared(g, r, r.phase) /\ CheckWinner(g) = "none"
     \/ Sentenced(g, r, r.phase)

Outcome(g, r) ==
  /\ r.role = g.role /\ r.removed = g.removed
  /\ Passes(g, r) \/ Verdict(g, r) \/ Sits(g, r) \/ Wakes(g, r) \/ Dawns(g, r)

LEMMA FinishKeeps ==
  ASSUME NEW g \in GameState
  PROVE LET r == Finish(g)
        IN /\ r.alive = g.alive /\ r.removed = g.removed /\ r.role = g.role
           /\ r.mafiaVotes = g.mafiaVotes /\ r.disqualified = g.disqualified
           /\ r.phase = "GAME_OVER" /\ r.winner = CheckWinner(g)
BY DEF Finish, GameState

LEMMA EnterKeeps ==
  ASSUME NEW g \in GameState, NEW before, NEW to
  PROVE SameEvening(g, Enter(before, g, to)) /\ Enter(before, g, to).phase = to
BY DEF Enter, GameState, SameEvening

LEMMA AdvanceOutcome ==
  ASSUME NEW g \in GameState, Court(g, g.phase), Evening(g, g.phase)
  PROVE Outcome(g, ApplyAdvancePhase(g))
<1>. DEFINE h == Resolve(g)
            to == NextPhase(Leave(g))
            r == ApplyAdvancePhase(g)
<1>1. CASE PicksPending(g)
  <2>1. r = g BY <1>1 DEF ApplyAdvancePhase
  <2>. QED BY <2>1 DEF Outcome, Passes, SameEvening
<1>2. CASE ~PicksPending(g)
  <2>1. h \in GameState BY ResolveTyped
  <2>2. \/ CheckWinner(h) # "none" /\ g.phase \notin PendingFarewell /\ r = Finish(h)
        \/ (CheckWinner(h) = "none" \/ g.phase \in PendingFarewell) /\ r = Enter(g, h, to)
    BY <1>2 DEF ApplyAdvancePhase
  <2>3. /\ Finish(h).alive = h.alive /\ Finish(h).removed = h.removed
        /\ Finish(h).role = h.role /\ Finish(h).mafiaVotes = h.mafiaVotes
        /\ Finish(h).disqualified = h.disqualified
        /\ Finish(h).phase = "GAME_OVER" /\ Finish(h).winner = CheckWinner(h)
    BY <2>1, FinishKeeps
  <2>4. SameEvening(h, Enter(g, h, to)) /\ Enter(g, h, to).phase = to BY <2>1, EnterKeeps
  <2>5. g.phase \in Phases BY DEF GameState
  <2>6. CASE g.phase \in BeforeCards \cup {"DAY_LAST_WORD", "NIGHT_MAFIA", "NIGHT_DON", "GAME_OVER"}
    <3>1. SameEvening(g, h) BY <2>6, QuietOutcome
    <3>2. /\ g.phase \in BeforeCards => to \in BeforeCards \cup {"DAY_SPEECH"}
          /\ g.phase = "DAY_LAST_WORD" => to = "NIGHT_MAFIA"
          /\ g.phase \in {"NIGHT_MAFIA", "NIGHT_DON"} => to \in ShotPhases
          /\ g.phase = "GAME_OVER" => to = "GAME_OVER"
      BY <2>6, QuietOutcome DEF BeforeCards, ShotPhases
    <3>3. CheckWinner(h) = CheckWinner(g) BY <3>1, WinnerOfSame DEF SameEvening
    <3>4. g.phase \notin PendingFarewell BY <2>6 DEF PendingFarewell, BeforeCards
    <3>5. g.phase \in {"NIGHT_MAFIA", "NIGHT_DON"} => CheckWinner(g) = "none"
      BY DEF Evening, OpenPhases, ShotPhases
    <3>. HIDE DEF h, to, r
    <3>6. CASE CheckWinner(h) # "none" /\ r = Finish(h)
      <4>1. Verdict(g, r)
        BY <2>3, <2>6, <3>1, <3>3, <3>5, <3>6 DEF Verdict, SameEvening
      <4>. QED BY <2>3, <3>1, <3>6, <4>1 DEF Outcome, SameEvening, r
    <3>7. CASE CheckWinner(h) = "none" /\ r = Enter(g, h, to)
      <4>1. SameEvening(g, r) /\ r.phase = to BY <2>4, <3>1, <3>7 DEF SameEvening
      <4>2. Passes(g, r) BY <2>6, <3>2, <3>3, <3>7, <4>1 DEF Passes, ShotPhases
      <4>. QED BY <4>1, <4>2 DEF Outcome, SameEvening, r
    <3>. QED BY <2>2, <3>4, <3>6, <3>7
  <2>7. CASE g.phase = "DAY_SPEECH"
    <3>1. KeptByCourt(g, h) /\ Spared(g, h, to) BY <2>7, SpeechOutcome DEF Resolve, Leave
    <3>2. CheckWinner(h) = CheckWinner(g) BY <3>1, WinnerOfSame DEF KeptByCourt, Spared
    <3>3. g.phase \notin PendingFarewell BY <2>7 DEF PendingFarewell
    <3>. HIDE DEF h, to, r
    <3>4. CASE CheckWinner(h) # "none" /\ r = Finish(h)
      <4>1. Verdict(g, r) BY <2>3, <2>7, <3>1, <3>2, <3>4 DEF Verdict, KeptByCourt, Spared
      <4>. QED BY <2>3, <3>1, <3>4, <4>1 DEF Outcome, KeptByCourt, r
    <3>5. CASE CheckWinner(h) = "none" /\ r = Enter(g, h, to)
      <4>1. KeptByCourt(g, r) /\ Spared(g, r, r.phase)
        BY <2>4, <3>1, <3>5 DEF SameEvening, KeptByCourt, Spared
      <4>2. Sits(g, r) BY <2>7, <3>2, <3>5, <4>1 DEF Sits, CourtPhases
      <4>. QED BY <4>1, <4>2 DEF Outcome, KeptByCourt, r
    <3>. QED BY <2>2, <3>3, <3>4, <3>5
  <2>8. CASE g.phase \in CourtPhases \ {"DAY_SPEECH"}
    <3>1. KeptByCourt(g, h) /\ (Spared(g, h, to) \/ Sentenced(g, h, to))
      BY <2>8, CourtOutcome
    <3>2. g.phase \in PendingFarewell BY <2>8 DEF PendingFarewell, CourtPhases
    <3>3. CheckWinner(g) = "none" BY <2>8 DEF Evening, OpenPhases
    <3>. HIDE DEF h, to, r
    <3>4. r = Enter(g, h, to) BY <2>2, <3>2
    <3>5. KeptByCourt(g, r) /\ (Spared(g, r, r.phase) \/ Sentenced(g, r, r.phase))
      BY <2>4, <3>1, <3>4 DEF SameEvening, KeptByCourt, Spared, Sentenced
    <3>6. Sits(g, r) BY <2>8, <3>3, <3>5 DEF Sits
    <3>. QED BY <3>5, <3>6 DEF Outcome, KeptByCourt, r
  <2>9. CASE g.phase = "NIGHT_SHERIFF"
    <3>. DEFINE shot == ResolveMafiaConsensus(g)
    <3>1. h = LeaveNight(g) /\ Leave(g) = LeaveNight(g) BY <2>9 DEF Resolve, Leave
    <3>2. ShotsAtTheRed(g) BY <2>9 DEF Evening, ShotPhases
    <3>3. /\ KeptByCourt(g, h) /\ h.phase = g.phase /\ h.alive = g.alive \ {shot}
          /\ shot # NoSeat => /\ shot \in Live(g) \ LiveBlack(g)
                              /\ \A s \in LiveBlack(g) : g.mafiaVotes[s] = shot
      BY <2>9, <3>1, <3>2, NightOutcome
    <3>4. to = "MORNING_ANNOUNCEMENT" BY <2>9, <3>1, <3>3 DEF NextPhase
    <3>5. g.phase \in PendingFarewell BY <2>9 DEF PendingFarewell
    <3>6. NoSeat \notin g.alive BY DEF NoSeat, Seats, GameState
    <3>. HIDE DEF h, to, r, shot
    <3>7. r = Enter(g, h, to) BY <2>2, <3>5
    <3>8. KeptByCourt(g, r) /\ r.phase = "MORNING_ANNOUNCEMENT" /\ r.alive = g.alive \ {shot}
      BY <2>4, <3>3, <3>4, <3>7 DEF SameEvening, KeptByCourt
    <3>9. shot = NoSeat => r.alive = g.alive BY <3>6, <3>8
    <3>10. Wakes(g, r) BY <2>9, <3>3, <3>8, <3>9 DEF Wakes
    <3>. QED BY <3>8, <3>10 DEF Outcome, KeptByCourt, r
  <2>10. CASE g.phase = "MORNING_ANNOUNCEMENT"
    <3>1. h = LeaveMorning(g) /\ Leave(g) = LeaveMorning(g) BY <2>10 DEF Resolve, Leave
    <3>2. /\ h.alive = g.alive /\ h.removed = g.removed /\ h.role = g.role
          /\ h.mafiaVotes = NoVotes /\ ~h.disqualified /\ h.winner = g.winner
          /\ h.phase = g.phase
      BY <3>1, MorningOutcome
    <3>3. to = "DAY_SPEECH" BY <2>10, <3>1, <3>2 DEF NextPhase
    <3>4. g.phase \in PendingFarewell BY <2>10 DEF PendingFarewell
    <3>5. h.disqualified = FALSE BY <2>1, <3>2 DEF GameState
    <3>. HIDE DEF h, to, r
    <3>6. r = Enter(g, h, to) BY <2>2, <3>4
    <3>7. Dawns(g, r) BY <2>4, <2>10, <3>2, <3>3, <3>5, <3>6 DEF Dawns, SameEvening
    <3>. QED BY <2>4, <3>2, <3>6, <3>7 DEF Outcome, SameEvening, r
  <2>. QED
    BY <2>5, <2>6, <2>7, <2>8, <2>9, <2>10 DEF Phases, BeforeCards, CourtPhases
<1>. QED BY <1>1, <1>2

-----------------------------------------------------------------------------
(* The button's outcomes as steps of the evening, and the tables they leave. *)

LEMMA AdvanceRefines ==
  ASSUME TypeOK, TypeOK', EveningInv, Outcome(game, game')
  PROVE [Cycle!Next]_(Cycle!vars)
<1>1. game \in GameState /\ game' \in GameState BY DEF TypeOK
<1>2. game'.role = game.role /\ game'.removed = game.removed BY DEF Outcome
<1>3. game.phase \in Phases /\ game'.phase \in Phases BY <1>1 DEF GameState
<1>4. /\ game.phase \in BeforeCards => ~game.disqualified
      /\ game.disqualified \in BOOLEAN
  BY <1>1 DEF EveningInv, Evening, GameState
<1>5. game'.alive = game.alive => Live(game') = Live(game) BY <1>2 DEF Live
<1>6. \A S : game'.alive = game.alive \ S => Live(game') = Live(game) \ S BY <1>2 DEF Live
<1>7. Live(game) \subseteq Seats BY <1>1 DEF Live, GameState
<1>8. CASE Passes(game, game')
  <2>1. /\ Live(game') = Live(game) /\ game'.disqualified = game.disqualified
        /\ game'.winner = game.winner
    BY <1>5, <1>8 DEF Passes, SameEvening
  <2>2. CASE StageOf(game'.phase) = StageOf(game.phase)
    BY <1>2, <2>1, <2>2, IsStutter
  <2>3. CASE /\ CheckWinner(game) = "none" /\ game.phase \in BeforeCards
             /\ game'.phase = "DAY_SPEECH"
    <3>1. StageOf(game.phase) = "setup" BY <1>3, <2>3, StageTable
    <3>2. game'.disqualified = FALSE BY <1>4, <2>1, <2>3
    <3>. QED BY <1>2, <2>1, <2>3, <3>1, <3>2, IsConvene DEF Cycle!Next
  <2>4. CASE /\ CheckWinner(game) = "none" /\ game.phase = "DAY_LAST_WORD"
             /\ game'.phase = "NIGHT_MAFIA"
    <3>1. StageOf(game.phase) = "lastWord" BY <1>3, <2>4, StageTable
    <3>. QED BY <1>2, <2>1, <2>4, <3>1, IsSleep DEF Cycle!Next
  <2>. QED BY <1>3, <1>8, <2>2, <2>3, <2>4, StageTable DEF Passes
<1>9. CASE Verdict(game, game')
  <2>1. /\ Live(game') = Live(game) /\ game'.disqualified = game.disqualified
        /\ CheckWinner(game) # "none" /\ game'.phase = "GAME_OVER"
        /\ game'.winner = CheckWinner(game)
    BY <1>5, <1>9 DEF Verdict
  <2>2. StageOf(game.phase) \in {"setup", "court", "lastWord", "over"}
    BY <1>3, <1>9, StageTable DEF Verdict, CourtPhases
  <2>. QED BY <1>2, <2>1, <2>2, IsConclude DEF Cycle!Next
<1>10. CASE Sits(game, game')
  <2>1. /\ game'.disqualified = game.disqualified /\ game'.winner = game.winner
        /\ StageOf(game.phase) = "court"
    BY <1>3, <1>10, StageTable DEF Sits, KeptByCourt
  <2>2. CASE Spared(game, game', game'.phase) /\ CheckWinner(game) = "none"
    <3>1. Live(game') = Live(game) BY <1>5, <2>2 DEF Spared
    <3>2. CASE game'.phase = "NIGHT_MAFIA"
      BY <1>2, <2>1, <2>2, <3>1, <3>2, IsSleep DEF Cycle!Next
    <3>3. CASE game'.phase \in CourtPhases
      BY <1>2, <1>3, <2>1, <3>1, <3>3, StageTable, IsStutter
    <3>. QED BY <2>2, <3>2, <3>3 DEF Spared
  <2>3. CASE Sentenced(game, game', game'.phase)
    <3>1. PICK S \in SUBSET Seats :
            S # {} /\ S \subseteq Live(game) /\ game'.alive = game.alive \ S
      BY <2>3 DEF Sentenced
    <3>2. Live(game') = Live(game) \ S BY <1>6, <3>1
    <3>3. ~game.disqualified /\ game'.phase = "DAY_LAST_WORD" BY <2>3 DEF Sentenced
    <3>4. Cycle!Condemn(S) BY <1>2, <2>1, <3>1, <3>2, <3>3, IsCondemn
    <3>. QED BY <3>4 DEF Cycle!Next
  <2>. QED BY <1>10, <2>2, <2>3 DEF Sits
<1>11. CASE Wakes(game, game')
  <2>1. /\ game'.disqualified = game.disqualified /\ game'.winner = game.winner
        /\ game'.phase = "MORNING_ANNOUNCEMENT"
        /\ StageOf(game.phase) = "night"
    BY <1>3, <1>11, StageTable DEF Wakes, KeptByCourt, ShotPhases
  <2>2. \E S \in SUBSET Seats : /\ S \subseteq Live(game) \ LiveBlack(game)
                                /\ AtMostOne(S)
                                /\ Live(game') = Live(game) \ S
    <3>1. CASE game'.alive = game.alive
      <4>1. Live(game') = Live(game) \ {} BY <1>5, <3>1
      <4>2. {} \subseteq Live(game) \ LiveBlack(game) /\ AtMostOne({}) BY DEF AtMostOne
      <4>. QED BY <4>1, <4>2
    <3>2. ASSUME NEW t \in Live(game) \ LiveBlack(game), game'.alive = game.alive \ {t}
          PROVE {t} \in SUBSET Seats /\ Live(game') = Live(game) \ {t}
      BY <1>6, <1>7, <3>2
    <3>3. ASSUME NEW t \in Live(game) \ LiveBlack(game), game'.alive = game.alive \ {t}
          PROVE \E S \in SUBSET Seats : /\ S \subseteq Live(game) \ LiveBlack(game)
                                        /\ AtMostOne(S)
                                        /\ Live(game') = Live(game) \ S
      <4>1. /\ {t} \subseteq Live(game) \ LiveBlack(game)
            /\ AtMostOne({t})
        BY DEF AtMostOne
      <4>. QED BY <3>2, <3>3, <4>1
    <3>. QED BY <1>11, <3>1, <3>3 DEF Wakes
  <2>3. PICK S \in SUBSET Seats : /\ S \subseteq Live(game) \ LiveBlack(game)
                                 /\ AtMostOne(S)
                                 /\ Live(game') = Live(game) \ S
    BY <2>2
  <2>4. Cycle!Wake(S) BY <1>2, <2>1, <2>3, IsWake
  <2>. QED BY <2>4 DEF Cycle!Next
<1>12. CASE Dawns(game, game')
  <2>1. /\ game'.disqualified = FALSE /\ game'.winner = game.winner
        /\ game'.phase = "DAY_SPEECH" /\ Live(game') = Live(game)
        /\ StageOf(game.phase) = "dawn"
    BY <1>3, <1>5, <1>12, StageTable DEF Dawns
  <2>. QED BY <1>2, <2>1, IsConvene DEF Cycle!Next
<1>. QED BY <1>8, <1>9, <1>10, <1>11, <1>12 DEF Outcome

\* Every outcome is a table its new phase may have.
LEMMA OutcomeEvening ==
  ASSUME NEW g \in GameState, NEW r \in GameState, Evening(g, g.phase), Outcome(g, r)
  PROVE Evening(r, r.phase)
<1>1. g.phase \in Phases /\ r.phase \in Phases BY DEF GameState
<1>2. r.role = g.role /\ r.removed = g.removed BY DEF Outcome
<1>3. CASE Passes(g, r)
  <2>1. Evening(g, r.phase)
    BY <1>1, <1>3 DEF Passes, Evening, BeforeCards, ShotPhases, OpenPhases, CourtPhases, ShotsAtTheRed, NoVotes
  <2>. QED BY <1>3, <2>1, EveningOfSame DEF Passes
<1>4. CASE Verdict(g, r)
  BY <1>4 DEF Verdict, Evening, BeforeCards, ShotPhases, OpenPhases, CourtPhases
<1>5. CASE Sits(g, r)
  <2>1. g.mafiaVotes = NoVotes /\ g.winner = "none"
    BY <1>5 DEF Sits, Evening, CourtPhases, ShotPhases
  <2>2. r.mafiaVotes = NoVotes /\ r.winner = "none"
    BY <1>5, <2>1 DEF Sits, KeptByCourt
  <2>3. r.phase \notin BeforeCards /\ (r.phase \in OpenPhases => CheckWinner(r) = "none")
    <3>1. CASE Spared(g, r, r.phase) /\ CheckWinner(g) = "none"
      BY <1>2, <3>1, WinnerOfSame DEF Spared, BeforeCards, CourtPhases
    <3>2. CASE Sentenced(g, r, r.phase)
      BY <3>2 DEF Sentenced, BeforeCards, OpenPhases, CourtPhases, ShotPhases
    <3>. QED BY <1>5, <3>1, <3>2 DEF Sits
  <2>4. ShotsAtTheRed(r) BY <2>2 DEF ShotsAtTheRed, NoVotes
  <2>. QED BY <2>2, <2>3, <2>4 DEF Evening
<1>6. CASE Wakes(g, r)
  BY <1>6 DEF Wakes, KeptByCourt, Evening, BeforeCards, ShotPhases, OpenPhases, CourtPhases
<1>7. CASE Dawns(g, r)
  BY <1>7 DEF Dawns, Evening, BeforeCards, ShotPhases, OpenPhases, CourtPhases
<1>. QED BY <1>3, <1>4, <1>5, <1>6, <1>7 DEF Outcome

-----------------------------------------------------------------------------
(* Removals, fouls, shots and everything else.                             *)

\* What a removal of seat s makes of the table, decided or not.
Struck(g, r, s) ==
  /\ r.role = g.role /\ r.removed = g.removed \cup {s} /\ r.alive = g.alive \ {s}
  /\ r.mafiaVotes = Purged(g.mafiaVotes, s)
  /\ r.disqualified = (g.disqualified \/ g.phase \in CourtPhases)
  /\ IF CheckWinner(r) = "none" THEN r.phase = g.phase /\ r.winner = g.winner
     ELSE r.phase = "GAME_OVER" /\ r.winner = CheckWinner(r)

LEMMA RemoveStrikes ==
  ASSUME NEW g \in GameState, NEW s \in Seats
  PROVE Struck(g, ApplyJudgeRemove(g, s), s)
<1>. DEFINE h == StrikeOut(g, s)
<1>1. /\ h.role = g.role /\ h.removed = g.removed \cup {s} /\ h.alive = g.alive \ {s}
      /\ h.mafiaVotes = Purged(g.mafiaVotes, s)
      /\ h.disqualified = (g.disqualified \/ g.phase \in CourtPhases)
      /\ h.phase = g.phase /\ h.winner = g.winner
  BY DEF StrikeOut, GameState
<1>2. h \in GameState BY StrikeOutTyped
<1>. HIDE DEF h
<1>. DEFINE f == Finish(h)
<1>3. /\ f.alive = h.alive /\ f.removed = h.removed /\ f.role = h.role
      /\ f.mafiaVotes = h.mafiaVotes /\ f.disqualified = h.disqualified
      /\ f.phase = "GAME_OVER" /\ f.winner = CheckWinner(h)
  BY <1>2, FinishKeeps
<1>. HIDE DEF f
<1>4. CheckWinner(f) = CheckWinner(h) BY <1>3, WinnerOfSame
<1>5. ApplyJudgeRemove(g, s) = IF CheckWinner(h) # "none" THEN f ELSE h
  BY DEF ApplyJudgeRemove, h, f
<1>6. CASE CheckWinner(h) = "none"
  <2>1. Struck(g, h, s) BY <1>1, <1>6 DEF Struck
  <2>. QED BY <1>5, <1>6, <2>1
<1>7. CASE CheckWinner(h) # "none"
  <2>1. Struck(g, f, s) BY <1>1, <1>3, <1>4, <1>7 DEF Struck
  <2>. QED BY <1>5, <1>7, <2>1
<1>. QED BY <1>6, <1>7

LEMMA StruckEvening ==
  ASSUME NEW g \in GameState, NEW r, NEW s \in Seats, Struck(g, r, s), Evening(g, g.phase)
  PROVE Evening(r, r.phase)
<1>1. CASE CheckWinner(r) # "none"
  <2>1. r.phase = "GAME_OVER" BY <1>1 DEF Struck
  <2>. QED BY <2>1 DEF Evening, ShotPhases, OpenPhases, CourtPhases, BeforeCards
<1>2. CASE CheckWinner(r) = "none"
  <2>1. /\ r.phase = g.phase /\ r.winner = g.winner /\ r.role = g.role
        /\ r.mafiaVotes = Purged(g.mafiaVotes, s)
        /\ r.disqualified = (g.disqualified \/ g.phase \in CourtPhases)
    BY <1>2 DEF Struck
  <2>2. Live(r) = Live(g) \ {s} BY DEF Struck, Live
  <2>3. LiveBlack(r) = LiveBlack(g) \ {s} BY <2>1, <2>2 DEF LiveBlack
  <2>4. g.mafiaVotes = NoVotes => r.mafiaVotes = NoVotes BY <2>1 DEF Purged, NoVotes
  <2>5. ShotsAtTheRed(g) => ShotsAtTheRed(r)
    <3>1. SUFFICES ASSUME ShotsAtTheRed(g), NEW v \in Seats, r.mafiaVotes[v] # NoSeat
                   PROVE r.mafiaVotes[v] \in Live(r) \ LiveBlack(r)
      BY DEF ShotsAtTheRed
    <3>2. r.mafiaVotes[v] = g.mafiaVotes[v] /\ g.mafiaVotes[v] # s
      BY <2>1, <3>1 DEF Purged
    <3>. QED BY <2>2, <2>3, <3>1, <3>2 DEF ShotsAtTheRed
  <2>6. g.phase \in BeforeCards => g.phase \notin CourtPhases BY DEF BeforeCards, CourtPhases
  <2>. QED BY <1>2, <2>1, <2>4, <2>5, <2>6 DEF Evening
<1>. QED BY <1>1, <1>2

LEMMA StruckRefines ==
  ASSUME TypeOK, TypeOK', NEW s \in Seats, Struck(game, game', s)
  PROVE [Cycle!Next]_(Cycle!vars)
<1>1. Live(game') = Live(game) \ {s} BY DEF Struck, Live
<1>2. Cycle!Strike(s) BY <1>1, IsStrike DEF Struck
<1>. QED BY <1>2 DEF Cycle!Next

\* A table that differs in nothing the evening's rules look at.
Still(g, r) == SameEvening(g, r) /\ r.phase = g.phase

LEMMA StillEvening ==
  ASSUME NEW g, NEW r, Still(g, r), Evening(g, g.phase)
  PROVE Evening(r, r.phase)
BY EveningOfSame DEF Still

LEMMA StillRefines ==
  ASSUME Still(game, game')
  PROVE [Cycle!Next]_(Cycle!vars)
<1>1. Live(game') = Live(game) BY DEF Still, SameEvening, Live
<1>. QED BY <1>1, IsStutter DEF Still, SameEvening

LEMMA FoulOutcome ==
  ASSUME NEW g \in GameState, NEW s \in Seats, g.fouls[s] < FoulRemove
  PROVE Still(g, AddFoul(g, s)) \/ Struck(g, AddFoul(g, s), s)
<1>. DEFINE fouled == [g EXCEPT !.fouls[s] = @ + 1]
<1>1. fouled \in GameState
  <2>1. g.fouls[s] + 1 \in 0..FoulRemove BY RulesAssumption DEF GameState
  <2>. QED BY <2>1 DEF GameState
<1>2. Still(g, fouled) BY DEF Still, SameEvening, GameState
<1>. HIDE DEF fouled
<1>3. Struck(fouled, ApplyJudgeRemove(fouled, s), s) BY <1>1, RemoveStrikes
<1>4. Struck(g, ApplyJudgeRemove(fouled, s), s)
  BY <1>2, <1>3 DEF Still, SameEvening, Struck
<1>. QED BY <1>2, <1>4 DEF AddFoul, fouled

LEMMA TargetEvening ==
  ASSUME NEW g \in GameState, NEW v \in Seats, NEW t \in Seats, CanTarget(g, v, t),
         Evening(g, g.phase)
  PROVE LET h == ApplyMafiaTarget(g, v, t)
        IN /\ Evening(h, h.phase) /\ h.phase = g.phase /\ h.role = g.role
           /\ h.alive = g.alive /\ h.removed = g.removed
           /\ h.disqualified = g.disqualified /\ h.winner = g.winner
<1>. DEFINE h == ApplyMafiaTarget(g, v, t)
<1>1. /\ h.phase = g.phase /\ h.role = g.role /\ h.alive = g.alive
      /\ h.removed = g.removed /\ h.disqualified = g.disqualified /\ h.winner = g.winner
      /\ h.mafiaVotes = [g.mafiaVotes EXCEPT ![v] = t]
  BY DEF ApplyMafiaTarget, GameState
<1>. HIDE DEF h
<1>2. /\ Live(h) = Live(g) /\ LiveBlack(h) = LiveBlack(g)
      /\ CheckWinner(h) = CheckWinner(g)
  BY <1>1, WinnerOfSame
<1>3. g.phase = "NIGHT_MAFIA" /\ t \in Live(g) \ LiveBlack(g) BY DEF CanTarget
<1>4. g.mafiaVotes \in [Seats -> SeatOrNone] BY DEF GameState
<1>5. ShotsAtTheRed(h)
  BY <1>1, <1>2, <1>3, <1>4 DEF Evening, ShotPhases, ShotsAtTheRed
<1>6. Evening(h, h.phase)
  BY <1>1, <1>2, <1>3, <1>5 DEF Evening, ShotPhases, BeforeCards
<1>. QED BY <1>1, <1>6 DEF h

\* No other operation touches what the rules look at, but "leave" ends the game.
LEMMA OthersStill ==
  ASSUME NEW g \in GameState, NEW v \in Seats, NEW c, NEW t, NEW ballot
  PROVE /\ Still(g, ApplyNominate(g, t)) /\ Still(g, ApplyJudgeUnnominate(g, t))
        /\ Still(g, ApplyJudgeUnfoul(g, v)) /\ Still(g, ApplyCastVote(g, v, t))
        /\ Still(g, ApplyLiftAllVote(g, v, ballot)) /\ Still(g, ApplyBestMoveGuess(g, v))
        /\ Still(g, ApplyDonCheck(g, v)) /\ Still(g, ApplySheriffCheck(g, v))
        /\ Still(g, ApplyRoleCardPick(g, v, c))
<1>1. Still(g, ApplyNominate(g, t)) BY DEF Still, SameEvening, ApplyNominate, GameState
<1>2. Still(g, ApplyJudgeUnnominate(g, t))
  BY DEF Still, SameEvening, ApplyJudgeUnnominate, GameState
<1>3. Still(g, ApplyJudgeUnfoul(g, v)) BY DEF Still, SameEvening, ApplyJudgeUnfoul, GameState
<1>4. Still(g, ApplyCastVote(g, v, t)) BY DEF Still, SameEvening, ApplyCastVote, GameState
<1>5. Still(g, ApplyLiftAllVote(g, v, ballot))
  BY DEF Still, SameEvening, ApplyLiftAllVote, GameState
<1>6. Still(g, ApplyBestMoveGuess(g, v))
  BY DEF Still, SameEvening, ApplyBestMoveGuess, GameState
<1>7. Still(g, ApplyDonCheck(g, v)) BY DEF Still, SameEvening, ApplyDonCheck, GameState
<1>8. Still(g, ApplySheriffCheck(g, v)) BY DEF Still, SameEvening, ApplySheriffCheck, GameState
<1>9. Still(g, ApplyRoleCardPick(g, v, c))
  BY DEF Still, SameEvening, ApplyRoleCardPick, GameState
<1>. QED BY <1>1, <1>2, <1>3, <1>4, <1>5, <1>6, <1>7, <1>8, <1>9

LEMMA StepperStill ==
  ASSUME NEW g \in GameState
  PROVE Still(g, ApplyNextSpeaker(g))
<1>1. CASE g.phase = "DAY_LAST_WORD"
  BY <1>1 DEF ApplyNextSpeaker, GameState, BallotPhases, Still, SameEvening
<1>2. CASE g.phase = "DAY_SHOOTOUT"
  BY <1>2 DEF ApplyNextSpeaker, GameState, BallotPhases, Still, SameEvening
<1>3. CASE g.phase \in BallotPhases
  BY <1>3 DEF ApplyNextSpeaker, GameState, BallotPhases, Still, SameEvening
<1>4. CASE g.phase = "DAY_SPEECH"
  BY <1>4 DEF ApplyNextSpeaker, GameState, BallotPhases, Still, SameEvening
<1>5. CASE g.phase \notin {"DAY_LAST_WORD", "DAY_SHOOTOUT", "DAY_SPEECH"} \cup BallotPhases
  BY <1>5 DEF ApplyNextSpeaker, Still, SameEvening
<1>. QED BY <1>1, <1>2, <1>3, <1>4, <1>5

LEMMA OutcomeOfSame ==
  ASSUME NEW g, NEW h, NEW r, Still(g, h), Outcome(h, r)
  PROVE Outcome(g, r)
<1>1. /\ Live(h) = Live(g) /\ LiveBlack(h) = LiveBlack(g) /\ CheckWinner(h) = CheckWinner(g)
  BY WinnerOfSame DEF Still, SameEvening
<1>. QED BY <1>1 DEF Still, SameEvening, Outcome, Passes, Verdict, Sits, Spared, Sentenced,
                     KeptByCourt, Wakes, Dawns

-----------------------------------------------------------------------------
(* Every step.                                                             *)

Targets == \E v, t \in Seats : CanTarget(game, v, t) /\ game' = ApplyMafiaTarget(game, v, t)

\* What a step of the engine may be, to the evening's rules.
StepKinds ==
  \/ Outcome(game, game') \/ Still(game, game')
  \/ \E s \in Seats : Struck(game, game', s)
  \/ Targets \/ JudgeLeave

LEMMA EveryStepIsOfAKind ==
  ASSUME TypeOK, CourtInv, EveningInv, [Next]_game
  PROVE StepKinds
<1>1. game \in GameState /\ Court(game, game.phase) /\ Evening(game, game.phase)
  BY DEF TypeOK, CourtInv, EveningInv
<1>2. CASE UNCHANGED game BY <1>2 DEF StepKinds, Still, SameEvening
<1>3. CASE JudgeAdvancePhase
  BY <1>1, <1>3, AdvanceOutcome DEF JudgeAdvancePhase, StepKinds
<1>4. CASE JudgeAdvanceSpeaker
  <2>. DEFINE h == ApplyNextSpeaker(game)
  <2>1. h \in GameState /\ Still(game, h) /\ Court(h, game.phase)
    BY <1>1, NextSpeakerTyped, StepperStill, StepperCourt
  <2>2. game' = h \/ game' = ApplyAdvancePhase(h) BY <1>4 DEF JudgeAdvanceSpeaker
  <2>. HIDE DEF h
  <2>3. h.phase = game.phase /\ Evening(h, h.phase) BY <1>1, <2>1, StillEvening DEF Still
  <2>4. Outcome(h, ApplyAdvancePhase(h)) BY <2>1, <2>3, AdvanceOutcome
  <2>5. Outcome(game, ApplyAdvancePhase(h)) BY <2>1, <2>4, OutcomeOfSame
  <2>. QED BY <2>1, <2>2, <2>5 DEF StepKinds
<1>5. CASE JudgeLeave BY <1>5 DEF StepKinds
<1>6. ASSUME NEW s \in Seats, JudgeFoul(s) \/ SayOutOfTurn(s) PROVE StepKinds
  <2>1. game.fouls[s] < FoulRemove /\ game' = AddFoul(game, s)
    BY <1>6 DEF JudgeFoul, CanFoul, ApplyJudgeFoul, SayOutOfTurn, CanSayOutOfTurn, ApplyOutOfTurn
  <2>. QED BY <1>1, <2>1, FoulOutcome DEF StepKinds
<1>7. ASSUME NEW s \in Seats, JudgeRemove(s) \/ PlayerLeave(s) PROVE StepKinds
  BY <1>1, <1>7, RemoveStrikes DEF JudgeRemove, PlayerLeave, StepKinds
<1>8. ASSUME NEW s \in Seats, JudgeNominate(s) \/ JudgeUnnominate(s) \/ JudgeUnfoul(s)
      PROVE StepKinds
  BY <1>1, <1>8, OthersStill DEF JudgeNominate, JudgeUnnominate, JudgeUnfoul, StepKinds
<1>9. ASSUME NEW s \in Seats, NEW t \in Seats,
             CastVote(s, t) \/ CheckAsDon(s, t) \/ CheckAsSheriff(s, t)
      PROVE StepKinds
  BY <1>1, <1>9, OthersStill DEF CastVote, CheckAsDon, CheckAsSheriff, StepKinds
<1>10. ASSUME NEW s \in Seats, NEW t \in Seats, ChooseMafiaTarget(s, t) PROVE StepKinds
  BY <1>10 DEF ChooseMafiaTarget, Targets, StepKinds
<1>11. ASSUME NEW s \in Seats,
              \/ \E ballot \in {"yes", "no"} : CastLiftAllVote(s, ballot)
              \/ \E guess \in SUBSET Seats : CastBestMoveGuess(s, guess)
              \/ \E c \in Cards : PickRoleCard(s, c)
       PROVE StepKinds
  BY <1>1, <1>11, OthersStill DEF CastLiftAllVote, CastBestMoveGuess, PickRoleCard, StepKinds
<1>. QED
  BY <1>2, <1>3, <1>4, <1>5, <1>6, <1>7, <1>8, <1>9, <1>10, <1>11
  DEF Next, JudgeStep, PlayerStep

LEMMA LeaveFields ==
  ASSUME TypeOK, JudgeLeave
  PROVE /\ game'.role = game.role /\ Live(game') = Live(game)
        /\ game'.disqualified = game.disqualified /\ game'.alive = game.alive
        /\ game'.phase = "GAME_OVER" /\ game'.winner = "none"
<1>1. game' = ApplyJudgeEndGame(game) /\ game \in GameState BY DEF JudgeLeave, TypeOK
<1>2. /\ game'.role = game.role /\ game'.removed = game.removed
      /\ game'.disqualified = game.disqualified /\ game'.alive = game.alive
      /\ game'.phase = "GAME_OVER" /\ game'.winner = "none"
  BY <1>1 DEF ApplyJudgeEndGame, GameState
<1>. QED BY <1>2 DEF Live

LEMMA InitEvening == Init => EveningInv
<1>1. SUFFICES ASSUME NEW deal \in Deals, game = NewGame(deal) PROVE EveningInv
  BY DEF Init
<1>2. /\ game.mafiaVotes = NoVotes /\ game.winner = "none" /\ game.disqualified = FALSE
      /\ game.phase = "PLAYER_INTRODUCTION"
  BY <1>1 DEF NewGame
<1>. QED BY <1>2 DEF EveningInv, Evening, OpenPhases, CourtPhases, ShotPhases

LEMMA EveningStep ==
  ASSUME TypeOK, TypeOK', CourtInv, EveningInv, [Next]_game
  PROVE EveningInv'
<1>. SUFFICES Evening(game', game'.phase)
  BY DEF EveningInv
<1>1. /\ game \in GameState /\ game' \in GameState /\ Evening(game, game.phase)
  BY DEF TypeOK, EveningInv
<1>2. CASE Outcome(game, game') BY <1>1, <1>2, OutcomeEvening
<1>3. CASE Still(game, game') BY <1>1, <1>3, StillEvening
<1>4. ASSUME NEW s \in Seats, Struck(game, game', s) PROVE Evening(game', game'.phase)
  BY <1>1, <1>4, StruckEvening
<1>5. CASE Targets BY <1>1, <1>5, TargetEvening DEF Targets
<1>6. CASE JudgeLeave
  <2>1. game'.phase = "GAME_OVER" BY <1>6, LeaveFields
  <2>. QED BY <2>1 DEF Evening, BeforeCards, ShotPhases, OpenPhases, CourtPhases
<1>. QED BY <1>2, <1>3, <1>4, <1>5, <1>6, EveryStepIsOfAKind DEF StepKinds

LEMMA EveningAlways == Spec => [](TypeOK /\ CourtInv /\ EveningInv)
<1>1. Init => EveningInv BY InitEvening
<1>2. TypeOK /\ TypeOK' /\ CourtInv /\ EveningInv /\ [Next]_game => EveningInv'
  BY EveningStep
<1>. QED BY <1>1, <1>2, CourtAlways, PTL DEF Spec

LEMMA CycleStep ==
  ASSUME TypeOK, TypeOK', CourtInv, EveningInv, [Next]_game
  PROVE [Cycle!Next]_(Cycle!vars)
<1>1. CASE Outcome(game, game') BY <1>1, AdvanceRefines
<1>2. CASE Still(game, game') BY <1>2, StillRefines
<1>3. ASSUME NEW s \in Seats, Struck(game, game', s) PROVE [Cycle!Next]_(Cycle!vars)
  BY <1>3, StruckRefines
<1>4. CASE Targets
  <2>1. game \in GameState /\ Evening(game, game.phase) BY DEF TypeOK, EveningInv
  <2>2. /\ game'.phase = game.phase /\ game'.role = game.role
        /\ game'.alive = game.alive /\ game'.removed = game.removed
        /\ game'.disqualified = game.disqualified /\ game'.winner = game.winner
    BY <1>4, <2>1, TargetEvening DEF Targets
  <2>3. Live(game') = Live(game) BY <2>2 DEF Live
  <2>. QED BY <2>2, <2>3, IsStutter
<1>5. CASE JudgeLeave BY <1>5, LeaveFields, IsAbandon DEF Cycle!Next
<1>. QED BY <1>1, <1>2, <1>3, <1>4, <1>5, EveryStepIsOfAKind DEF StepKinds

LEMMA CycleInit == Init => Cycle!Init
<1>1. SUFFICES ASSUME NEW deal \in Deals, game = NewGame(deal) PROVE Cycle!Init
  BY DEF Init
<1>2. /\ game.alive = Seats /\ game.removed = {} /\ game.phase = "PLAYER_INTRODUCTION"
      /\ game.disqualified = FALSE /\ game.winner = "none"
  BY <1>1 DEF NewGame
<1>3. Live(game) = Seats BY <1>2 DEF Live
<1>4. StageOf(game.phase) = "setup" BY <1>2 DEF StageOf, CourtPhases
<1>. QED BY <1>2, <1>3, <1>4 DEF Cycle!Init

-----------------------------------------------------------------------------
(* The two promises.                                                       *)

\* The engine implements the evening's rules: the court condemns at most once a
\* day and never after a removal, the night takes at most one red seat, nothing
\* is decided behind a victim's back, and no button skips a stage
\* (applyAdvancePhase, phase.ts; applyJudgeRemove, judge.ts).
THEOREM EngineKeepsTheRules == Spec => RefinesCycle
<1>1. TypeOK /\ TypeOK' /\ CourtInv /\ EveningInv /\ [Next]_game => [Cycle!Next]_(Cycle!vars)
  BY CycleStep
<1>. QED BY <1>1, CycleInit, EveningAlways, PTL DEF Spec, RefinesCycle, Cycle!Spec

NightTakesItsTarget ==
  game.phase = "NIGHT_SHERIFF" /\ game.alive # game'.alive /\ game.removed = game'.removed =>
    \E t \in Live(game) \ LiveBlack(game) :
      /\ game.alive \ game'.alive = {t}
      /\ \A s \in LiveBlack(game) : game.mafiaVotes[s] = t

LEMMA NightStep ==
  ASSUME TypeOK, CourtInv, EveningInv, [Next]_game
  PROVE NightTakesItsTarget
<1>. SUFFICES ASSUME game.phase = "NIGHT_SHERIFF", game.alive # game'.alive,
                     game.removed = game'.removed
              PROVE \E t \in Live(game) \ LiveBlack(game) :
                      /\ game.alive \ game'.alive = {t}
                      /\ \A s \in LiveBlack(game) : game.mafiaVotes[s] = t
  BY DEF NightTakesItsTarget
<1>1. CASE Outcome(game, game')
  <2>1. Wakes(game, game')
    BY <1>1 DEF Outcome, Passes, SameEvening, Verdict, Sits, Dawns, BeforeCards, CourtPhases
  <2>2. PICK t \in Live(game) \ LiveBlack(game) :
          game'.alive = game.alive \ {t} /\ \A s \in LiveBlack(game) : game.mafiaVotes[s] = t
    BY <2>1 DEF Wakes
  <2>3. game.alive \ game'.alive = {t} BY <2>2 DEF Live
  <2>. QED BY <2>2, <2>3
<1>2. CASE Still(game, game') BY <1>2 DEF Still, SameEvening
<1>3. ASSUME NEW s \in Seats, Struck(game, game', s) PROVE FALSE
  <2>1. s \in game.removed /\ game'.alive = game.alive \ {s} BY <1>3 DEF Struck
  <2>2. game.alive \cap game.removed = {} BY DEF CourtInv, Court, Lists
  <2>. QED BY <2>1, <2>2
<1>4. CASE Targets
  <2>1. game.phase = "NIGHT_MAFIA" BY <1>4 DEF Targets, CanTarget
  <2>. QED BY <2>1
<1>5. CASE JudgeLeave BY <1>5, LeaveFields
<1>. QED BY <1>1, <1>2, <1>3, <1>4, <1>5, EveryStepIsOfAKind DEF StepKinds

\* Whoever is dead in the morning was in play and red at dusk, and every black
\* seat in play shot at exactly that seat (resolveMafiaConsensus): no old shot,
\* and no shot of or at a seat that has gone since, is ever counted.
THEOREM NightTakesOnlyItsTarget == Spec => NightVictimWasShotByAll
<1>1. TypeOK /\ CourtInv /\ EveningInv /\ [Next]_game => [NightTakesItsTarget]_game
  BY NightStep
<1>2. [NightTakesItsTarget]_game =>
      [game.phase = "NIGHT_SHERIFF" /\ game.alive # game'.alive /\ game.removed = game'.removed =>
       \E t \in Live(game) \ LiveBlack(game) :
         /\ game.alive \ game'.alive = {t}
         /\ \A s \in LiveBlack(game) : game.mafiaVotes[s] = t]_game
  BY DEF NightTakesItsTarget
<1>. QED BY <1>1, <1>2, EveningAlways, PTL DEF Spec, NightVictimWasShotByAll

-----------------------------------------------------------------------------
(* What the engine does to the rest of a table on the way.                 *)

\* Same last shot, day, guesses and farewell.
Aside(g, h) ==
  /\ h.pending = g.pending /\ h.day = g.day
  /\ h.bestMove = g.bestMove /\ h.farewell = g.farewell

LEMMA SentencesAside ==
  ASSUME NEW g \in GameState, NEW queue
  PROVE /\ Aside(g, Acquit(g)) /\ Acquit(g).multiKill = g.multiKill
        /\ Aside(g, Condemn(g, queue)) /\ Condemn(g, queue).multiKill = g.multiKill
        /\ Aside(g, OpenRunoff(g, queue)) /\ OpenRunoff(g, queue).multiKill = g.multiKill
<1>1. Aside(g, Acquit(g)) /\ Acquit(g).multiKill = g.multiKill
  BY DEF Acquit, GameState, Aside
<1>2. Aside(g, Condemn(g, queue)) /\ Condemn(g, queue).multiKill = g.multiKill
  BY DEF Condemn, KillSeats, GameState, Aside
<1>3. Aside(g, OpenRunoff(g, queue)) /\ OpenRunoff(g, queue).multiKill = g.multiKill
  BY DEF OpenRunoff, GameState, Aside
<1>. QED BY <1>1, <1>2, <1>3

LEMMA VoteAside ==
  ASSUME NEW g \in GameState
  PROVE Aside(g, LeaveVote(g)) /\ LeaveVote(g).multiKill = g.multiKill
<1>. DEFINE c == Condemn(g, <<ResolveVote(g)>>)
            tie == FindTiedSeats(g)
            h == LeaveVote(g)
<1>1. \/ h = Acquit(g) \/ h = OpenRunoff(g, tie) \/ h = [c EXCEPT !.nominations = <<>>]
      \/ h = [g EXCEPT !.votes = NoVotes, !.nominations = <<>>]
  BY DEF LeaveVote
<1>2. CASE h = Acquit(g) \/ h = OpenRunoff(g, tie) BY <1>2, SentencesAside
<1>3. CASE h = [c EXCEPT !.nominations = <<>>]
  <2>1. Aside(g, c) /\ c.multiKill = g.multiKill BY SentencesAside
  <2>2. /\ h.pending = c.pending /\ h.day = c.day /\ h.bestMove = c.bestMove
        /\ h.farewell = c.farewell /\ h.multiKill = c.multiKill
    BY <1>3 DEF Condemn, KillSeats, GameState
  <2>. QED BY <2>1, <2>2 DEF Aside
<1>4. CASE h = [g EXCEPT !.votes = NoVotes, !.nominations = <<>>]
  BY <1>4 DEF GameState, Aside
<1>. QED BY <1>1, <1>2, <1>3, <1>4

LEMMA RevoteAside ==
  ASSUME NEW g \in GameState
  PROVE Aside(g, LeaveRevote(g)) /\ LeaveRevote(g).multiKill = g.multiKill
<1>. DEFINE counted == [g EXCEPT !.shootoutIdx = 0]
            c == Condemn(counted, <<ResolveVote(g)>>)
            tie == FindTiedSeats(g)
            h == LeaveRevote(g)
<1>1. counted \in GameState BY ClearedTyped
<1>2. Aside(g, counted) /\ counted.multiKill = g.multiKill BY DEF Aside, GameState
<1>3. \/ h = Acquit(counted)
      \/ h = [Acquit(counted) EXCEPT !.tied = tie, !.lift = NoBallots]
      \/ h = [c EXCEPT !.nominations = <<>>, !.tied = <<>>]
  BY DEF LeaveRevote
<1>. HIDE DEF counted
<1>4. /\ Aside(counted, Acquit(counted)) /\ Acquit(counted).multiKill = counted.multiKill
      /\ Aside(counted, c) /\ c.multiKill = counted.multiKill
  BY <1>1, SentencesAside
<1>5. CASE h = [Acquit(counted) EXCEPT !.tied = tie, !.lift = NoBallots]
  <2>. DEFINE a == Acquit(counted)
  <2>1. /\ h.pending = a.pending /\ h.day = a.day /\ h.bestMove = a.bestMove
        /\ h.farewell = a.farewell /\ h.multiKill = a.multiKill
    BY <1>1, <1>5 DEF Acquit, GameState
  <2>. QED BY <1>2, <1>4, <2>1 DEF Aside
<1>6. CASE h = [c EXCEPT !.nominations = <<>>, !.tied = <<>>]
  <2>1. /\ h.pending = c.pending /\ h.day = c.day /\ h.bestMove = c.bestMove
        /\ h.farewell = c.farewell /\ h.multiKill = c.multiKill
    BY <1>1, <1>6 DEF Condemn, KillSeats, GameState
  <2>. QED BY <1>2, <1>4, <2>1 DEF Aside
<1>. QED BY <1>2, <1>3, <1>4, <1>5, <1>6 DEF Aside

\* The one way to forfeit the best move.
LEMMA LiftAside ==
  ASSUME NEW g \in GameState
  PROVE /\ Aside(g, LeaveLiftVote(g))
        /\ \/ LeaveLiftVote(g).alive = g.alive /\ LeaveLiftVote(g).multiKill = g.multiKill
           \/ /\ LeaveLiftVote(g).alive = g.alive \ ToSet(g.tied)
              /\ LeaveLiftVote(g).multiKill = (g.multiKill \/ LiftForfeitsBestMove(g))
<1>. DEFINE closed == [g EXCEPT !.lift = NoBallots, !.tied = <<>>]
            c == Condemn(closed, g.tied)
            h == LeaveLiftVote(g)
<1>1. closed \in GameState BY ClearedTyped
<1>2. /\ Aside(g, closed) /\ closed.multiKill = g.multiKill /\ closed.alive = g.alive
  BY DEF Aside, GameState
<1>3. h = closed \/ h = [c EXCEPT !.multiKill = @ \/ LiftForfeitsBestMove(g)]
  BY DEF LeaveLiftVote
<1>. HIDE DEF closed
<1>4. Aside(closed, c) /\ c.multiKill = closed.multiKill BY <1>1, SentencesAside
<1>5. CASE h = [c EXCEPT !.multiKill = @ \/ LiftForfeitsBestMove(g)]
  <2>1. /\ h.pending = c.pending /\ h.day = c.day /\ h.bestMove = c.bestMove
        /\ h.farewell = c.farewell /\ h.alive = closed.alive \ ToSet(g.tied)
        /\ h.multiKill = (c.multiKill \/ LiftForfeitsBestMove(g))
    BY <1>1, <1>5 DEF Condemn, KillSeats, GameState
  <2>. QED BY <1>2, <1>4, <2>1 DEF Aside
<1>. QED BY <1>2, <1>3, <1>5

LEMMA SpeechAside ==
  ASSUME NEW g \in GameState
  PROVE Aside(g, LeaveSpeech(g)) /\ LeaveSpeech(g).multiKill = g.multiKill
<1>. DEFINE quiet == [g EXCEPT !.spoken = {}, !.speaker = NoSeat]
<1>1. quiet \in GameState BY ClearedTyped
<1>2. Aside(g, quiet) /\ quiet.multiKill = g.multiKill BY DEF Aside, GameState
<1>3. LeaveSpeech(g) = Acquit(quiet) \/ LeaveSpeech(g) = quiet BY DEF LeaveSpeech
<1>. HIDE DEF quiet
<1>. QED BY <1>1, <1>2, <1>3, SentencesAside DEF Aside

LEMMA NightAside ==
  ASSUME NEW g \in GameState
  PROVE Aside(g, LeaveNight(g)) /\ LeaveNight(g).multiKill = g.multiKill
BY DEF LeaveNight, KillSeats, Aside, GameState

LEMMA IntroAside ==
  ASSUME NEW g \in GameState, NEW to
  PROVE Aside(g, SettleIntro(g, to)) /\ SettleIntro(g, to).multiKill = g.multiKill
<1>. DEFINE c == Condemn(g, g.nominations)
            h == SettleIntro(g, to)
<1>1. h = Acquit(g) \/ h = g \/ h = [c EXCEPT !.votes = NoVotes, !.nominations = <<>>]
  BY DEF SettleIntro
<1>2. CASE h = [c EXCEPT !.votes = NoVotes, !.nominations = <<>>]
  <2>1. Aside(g, c) /\ c.multiKill = g.multiKill BY SentencesAside
  <2>2. /\ h.pending = c.pending /\ h.day = c.day /\ h.bestMove = c.bestMove
        /\ h.farewell = c.farewell /\ h.multiKill = c.multiKill
    BY <1>2 DEF Condemn, KillSeats, GameState
  <2>. QED BY <2>1, <2>2 DEF Aside
<1>3. CASE h = g BY <1>3 DEF Aside
<1>. QED BY <1>1, <1>2, <1>3, SentencesAside

LEMMA ResolveAside ==
  ASSUME NEW g \in GameState, g.phase # "MORNING_ANNOUNCEMENT"
  PROVE /\ Aside(g, Resolve(g))
        /\ g.phase # "DAY_LIFT_VOTE" => Resolve(g).multiKill = g.multiKill
<1>1. g.phase \in Phases BY DEF GameState
<1>2. CASE g.phase = "DAY_VOTE_INTRO" BY <1>2, IntroAside DEF Resolve, Leave
<1>3. CASE g.phase = "DAY_VOTE" BY <1>3, VoteAside DEF Resolve, Leave
<1>4. CASE g.phase = "DAY_REVOTE" BY <1>4, RevoteAside DEF Resolve, Leave
<1>5. CASE g.phase = "DAY_LIFT_VOTE" BY <1>5, LiftAside DEF Resolve, Leave
<1>6. CASE g.phase = "DAY_SPEECH" BY <1>6, SpeechAside DEF Resolve, Leave
<1>7. CASE g.phase = "NIGHT_SHERIFF" BY <1>7, NightAside DEF Resolve, Leave
<1>8. CASE g.phase = "DAY_SHOOTOUT"
  <2>1. Resolve(g) = [g EXCEPT !.speaker = NoSeat, !.shootoutIdx = 0]
    BY <1>8 DEF Resolve, Leave
  <2>. QED BY <2>1 DEF Aside, GameState
<1>9. CASE g.phase = "DAY_LAST_WORD"
  <2>1. Resolve(g) = [g EXCEPT !.lastWord = <<>>, !.lastWordIdx = 0, !.speaker = NoSeat]
    BY <1>9 DEF Resolve, Leave
  <2>. QED BY <2>1 DEF Aside, GameState
<1>10. CASE g.phase \in BeforeCards \cup {"NIGHT_MAFIA", "NIGHT_DON", "GAME_OVER"}
  <2>1. Resolve(g) = g BY <1>10 DEF Resolve, Leave, BeforeCards
  <2>. QED BY <2>1 DEF Aside
<1>. QED
  BY <1>1, <1>2, <1>3, <1>4, <1>5, <1>6, <1>7, <1>8, <1>9, <1>10 DEF Phases, BeforeCards

LEMMA EnterAside ==
  ASSUME NEW g \in GameState, NEW before, NEW to
  PROVE LET r == Enter(before, g, to)
        IN /\ r.pending = g.pending /\ r.day = g.day /\ r.bestMove = g.bestMove
           /\ r.multiKill = g.multiKill /\ r.phase = to
           /\ r.farewell = IF to = "DAY_SPEECH" THEN before.victim ELSE g.farewell
BY DEF Enter, GameState

LEMMA FinishAside ==
  ASSUME NEW g \in GameState
  PROVE Aside(g, Finish(g)) /\ Finish(g).multiKill = g.multiKill /\ Finish(g).phase = "GAME_OVER"
BY DEF Finish, GameState, Aside

\* Only the morning turns to a new day and forgets the shot of the night.
LEMMA AdvanceAside ==
  ASSUME NEW g \in GameState
  PROVE LET r == ApplyAdvancePhase(g)
        IN /\ r.bestMove = g.bestMove
           /\ r.phase # "DAY_SPEECH" => r.farewell = g.farewell
           /\ g.phase # "MORNING_ANNOUNCEMENT" => r.pending = g.pending /\ r.day = g.day
           /\ g.phase = "MORNING_ANNOUNCEMENT" => r.pending = NoSeat /\ r.day = g.day + 1
           /\ g.phase # "DAY_LIFT_VOTE" => r.multiKill = g.multiKill
<1>. DEFINE h == Resolve(g)
            to == NextPhase(Leave(g))
            r == ApplyAdvancePhase(g)
<1>1. CASE PicksPending(g)
  <2>1. r = g BY <1>1 DEF ApplyAdvancePhase
  <2>2. g.phase = "ROLE_DISTRIBUTION" BY <1>1 DEF PicksPending
  <2>. QED BY <2>1, <2>2
<1>2. CASE ~PicksPending(g)
  <2>1. h \in GameState BY ResolveTyped
  <2>2. r = Finish(h) \/ r = Enter(g, h, to) BY <1>2 DEF ApplyAdvancePhase
  <2>3. g.phase # "MORNING_ANNOUNCEMENT" =>
          Aside(g, h) /\ (g.phase # "DAY_LIFT_VOTE" => h.multiKill = g.multiKill)
    BY ResolveAside
  <2>4. ASSUME g.phase = "MORNING_ANNOUNCEMENT"
        PROVE /\ h.pending = NoSeat /\ h.day = g.day + 1 /\ h.bestMove = g.bestMove
              /\ h.farewell = g.farewell /\ h.multiKill = g.multiKill
    <3>1. h = LeaveMorning(g) BY <2>4 DEF Resolve, Leave
    <3>. QED BY <3>1 DEF LeaveMorning, GameState
  <2>. HIDE DEF h, to, r
  <2>5. CASE r = Finish(h)
    <3>1. Aside(h, r) /\ r.multiKill = h.multiKill BY <2>1, <2>5, FinishAside
    <3>2. /\ r.pending = h.pending /\ r.day = h.day /\ r.bestMove = h.bestMove
          /\ r.multiKill = h.multiKill /\ r.farewell = h.farewell
      BY <3>1 DEF Aside
    <3>. QED BY <2>3, <2>4, <3>2 DEF Aside, r
  <2>6. CASE r = Enter(g, h, to)
    <3>1. /\ r.pending = h.pending /\ r.day = h.day /\ r.bestMove = h.bestMove
          /\ r.multiKill = h.multiKill
          /\ r.phase # "DAY_SPEECH" => r.farewell = h.farewell
      BY <2>1, <2>6, EnterAside
    <3>. QED BY <2>3, <2>4, <3>1 DEF Aside, r
  <2>. QED BY <2>2, <2>5, <2>6
<1>. QED BY <1>1, <1>2

\* The stepper may end a farewell.
LEMMA StepperAside ==
  ASSUME NEW g \in GameState
  PROVE LET h == ApplyNextSpeaker(g)
        IN /\ h.pending = g.pending /\ h.day = g.day /\ h.bestMove = g.bestMove
           /\ h.multiKill = g.multiKill /\ h.farewell \in {g.farewell, NoSeat}
<1>1. CASE g.phase = "DAY_LAST_WORD"
  BY <1>1 DEF ApplyNextSpeaker, GameState, BallotPhases
<1>2. CASE g.phase = "DAY_SHOOTOUT"
  BY <1>2 DEF ApplyNextSpeaker, GameState, BallotPhases
<1>3. CASE g.phase \in BallotPhases
  BY <1>3 DEF ApplyNextSpeaker, GameState, BallotPhases
<1>4. CASE g.phase = "DAY_SPEECH"
  BY <1>4 DEF ApplyNextSpeaker, GameState, BallotPhases
<1>5. CASE g.phase \notin {"DAY_LAST_WORD", "DAY_SHOOTOUT", "DAY_SPEECH"} \cup BallotPhases
  BY <1>5 DEF ApplyNextSpeaker
<1>. QED BY <1>1, <1>2, <1>3, <1>4, <1>5

\* And so may a removal.
LEMMA RemoveAside ==
  ASSUME NEW g \in GameState, NEW s \in Seats
  PROVE LET h == ApplyJudgeRemove(g, s)
        IN /\ h.pending = g.pending /\ h.day = g.day /\ h.bestMove = g.bestMove
           /\ h.multiKill = g.multiKill /\ h.farewell \in {g.farewell, NoSeat}
<1>. DEFINE h == StrikeOut(g, s)
            r == ApplyJudgeRemove(g, s)
<1>1. /\ h.pending = g.pending /\ h.day = g.day /\ h.bestMove = g.bestMove
      /\ h.multiKill = g.multiKill /\ h.farewell \in {g.farewell, NoSeat}
  BY DEF StrikeOut, GameState
<1>2. h \in GameState BY StrikeOutTyped
<1>3. r = Finish(h) \/ r = h BY DEF ApplyJudgeRemove
<1>. HIDE DEF h, r
<1>4. Aside(h, Finish(h)) /\ Finish(h).multiKill = h.multiKill BY <1>2, FinishAside
<1>. QED BY <1>1, <1>3, <1>4 DEF Aside, r

LEMMA FoulAside ==
  ASSUME NEW g \in GameState, NEW s \in Seats, g.fouls[s] < FoulRemove
  PROVE LET h == AddFoul(g, s)
        IN /\ h.pending = g.pending /\ h.day = g.day /\ h.bestMove = g.bestMove
           /\ h.multiKill = g.multiKill /\ h.farewell \in {g.farewell, NoSeat}
<1>. DEFINE fouled == [g EXCEPT !.fouls[s] = @ + 1]
            r == AddFoul(g, s)
<1>1. fouled \in GameState
  <2>1. g.fouls[s] + 1 \in 0..FoulRemove BY RulesAssumption DEF GameState
  <2>. QED BY <2>1 DEF GameState
<1>2. Aside(g, fouled) /\ fouled.multiKill = g.multiKill BY DEF Aside, GameState
<1>3. r = fouled \/ r = ApplyJudgeRemove(fouled, s) BY DEF AddFoul
<1>. HIDE DEF fouled, r
<1>4. CASE r = fouled BY <1>2, <1>4 DEF Aside, r
<1>5. CASE r = ApplyJudgeRemove(fouled, s) BY <1>1, <1>2, <1>5, RemoveAside DEF Aside, r
<1>. QED BY <1>3, <1>4, <1>5

\* The players' and the judge's other clicks touch none of it, but for the two
\* that exist to: a shot, and a guess.
LEMMA OthersAside ==
  ASSUME NEW g \in GameState, NEW v \in Seats, NEW c, NEW t, NEW ballot
  PROVE /\ Aside(g, ApplyNominate(g, t)) /\ Aside(g, ApplyJudgeUnnominate(g, t))
        /\ Aside(g, ApplyJudgeUnfoul(g, v)) /\ Aside(g, ApplyCastVote(g, v, t))
        /\ Aside(g, ApplyLiftAllVote(g, v, ballot))
        /\ Aside(g, ApplyDonCheck(g, v)) /\ Aside(g, ApplySheriffCheck(g, v))
        /\ Aside(g, ApplyRoleCardPick(g, v, c))
<1>1. Aside(g, ApplyNominate(g, t)) BY DEF Aside, ApplyNominate, GameState
<1>2. Aside(g, ApplyJudgeUnnominate(g, t)) BY DEF Aside, ApplyJudgeUnnominate, GameState
<1>3. Aside(g, ApplyJudgeUnfoul(g, v)) BY DEF Aside, ApplyJudgeUnfoul, GameState
<1>4. Aside(g, ApplyCastVote(g, v, t)) BY DEF Aside, ApplyCastVote, GameState
<1>5. Aside(g, ApplyLiftAllVote(g, v, ballot)) BY DEF Aside, ApplyLiftAllVote, GameState
<1>6. Aside(g, ApplyDonCheck(g, v)) BY DEF Aside, ApplyDonCheck, GameState
<1>7. Aside(g, ApplySheriffCheck(g, v)) BY DEF Aside, ApplySheriffCheck, GameState
<1>8. Aside(g, ApplyRoleCardPick(g, v, c)) BY DEF Aside, ApplyRoleCardPick, GameState
<1>. QED BY <1>1, <1>2, <1>3, <1>4, <1>5, <1>6, <1>7, <1>8

LEMMA OthersKill ==
  ASSUME NEW g \in GameState, NEW v \in Seats, NEW c, NEW t, NEW ballot
  PROVE /\ ApplyNominate(g, t).multiKill = g.multiKill
        /\ ApplyJudgeUnnominate(g, t).multiKill = g.multiKill
        /\ ApplyJudgeUnfoul(g, v).multiKill = g.multiKill
        /\ ApplyCastVote(g, v, t).multiKill = g.multiKill
        /\ ApplyLiftAllVote(g, v, ballot).multiKill = g.multiKill
        /\ ApplyDonCheck(g, v).multiKill = g.multiKill
        /\ ApplySheriffCheck(g, v).multiKill = g.multiKill
        /\ ApplyRoleCardPick(g, v, c).multiKill = g.multiKill
<1>1. ApplyNominate(g, t).multiKill = g.multiKill BY DEF ApplyNominate, GameState
<1>2. ApplyJudgeUnnominate(g, t).multiKill = g.multiKill BY DEF ApplyJudgeUnnominate, GameState
<1>3. ApplyJudgeUnfoul(g, v).multiKill = g.multiKill BY DEF ApplyJudgeUnfoul, GameState
<1>4. ApplyCastVote(g, v, t).multiKill = g.multiKill BY DEF ApplyCastVote, GameState
<1>5. ApplyLiftAllVote(g, v, ballot).multiKill = g.multiKill BY DEF ApplyLiftAllVote, GameState
<1>6. ApplyDonCheck(g, v).multiKill = g.multiKill BY DEF ApplyDonCheck, GameState
<1>7. ApplySheriffCheck(g, v).multiKill = g.multiKill BY DEF ApplySheriffCheck, GameState
<1>8. ApplyRoleCardPick(g, v, c).multiKill = g.multiKill BY DEF ApplyRoleCardPick, GameState
<1>. QED BY <1>1, <1>2, <1>3, <1>4, <1>5, <1>6, <1>7, <1>8

-----------------------------------------------------------------------------
(* The bots.                                                               *)

\* The shot that the side of the mafia follows: none by day, and by night at a
\* red seat that no court and no night has taken since, though the judge may have.
Followed(g) ==
  /\ g.phase \notin ShotPhases \cup {"MORNING_ANNOUNCEMENT", "GAME_OVER"} => g.pending = NoSeat
  /\ g.phase \in ShotPhases /\ g.pending # NoSeat =>
       g.pending \in g.alive \cup g.removed /\ g.role[g.pending] \notin BlackRoles

\* What a step of the engine does to it.
ShotMoves ==
  \/ Targets \/ game'.pending = NoSeat
  \/ /\ game'.pending = game.pending
     /\ game.phase = "MORNING_ANNOUNCEMENT" =>
          game'.phase \in {"MORNING_ANNOUNCEMENT", "GAME_OVER"}

LEMMA ShotStep ==
  ASSUME TypeOK, [Next]_game
  PROVE ShotMoves
<1>1. game \in GameState BY DEF TypeOK
<1>2. CASE UNCHANGED game BY <1>2 DEF ShotMoves
<1>3. CASE JudgeAdvancePhase
  BY <1>1, <1>3, AdvanceAside DEF JudgeAdvancePhase, ShotMoves
<1>4. CASE JudgeAdvanceSpeaker
  <2>. DEFINE h == ApplyNextSpeaker(game)
  <2>1. h \in GameState /\ h.phase = game.phase
    BY <1>1, NextSpeakerTyped, StepperStill DEF Still
  <2>2. h.pending = game.pending BY <1>1, StepperAside
  <2>3. game' = h \/ game' = ApplyAdvancePhase(h) BY <1>4 DEF JudgeAdvanceSpeaker
  <2>. HIDE DEF h
  <2>4. CASE game' = h BY <2>1, <2>2, <2>4 DEF ShotMoves
  <2>5. CASE game' = ApplyAdvancePhase(h)
    <3>1. /\ h.phase # "MORNING_ANNOUNCEMENT" => game'.pending = h.pending
          /\ h.phase = "MORNING_ANNOUNCEMENT" => game'.pending = NoSeat
      BY <2>1, <2>5, AdvanceAside
    <3>. QED BY <2>1, <2>2, <3>1 DEF ShotMoves
  <2>. QED BY <2>3, <2>4, <2>5
<1>5. CASE JudgeLeave
  <2>1. game'.phase = "GAME_OVER" /\ game'.pending = game.pending
    BY <1>1, <1>5 DEF JudgeLeave, ApplyJudgeEndGame, GameState
  <2>. QED BY <2>1 DEF ShotMoves
<1>6. ASSUME NEW s \in Seats, JudgeFoul(s) \/ SayOutOfTurn(s) PROVE ShotMoves
  <2>1. game.fouls[s] < FoulRemove /\ game' = AddFoul(game, s)
    BY <1>6 DEF JudgeFoul, CanFoul, ApplyJudgeFoul, SayOutOfTurn, CanSayOutOfTurn, ApplyOutOfTurn
  <2>2. game'.pending = game.pending BY <1>1, <2>1, FoulAside
  <2>3. game'.phase \in {game.phase, "GAME_OVER"}
    BY <1>1, <2>1, FoulOutcome DEF Still, Struck
  <2>. QED BY <2>2, <2>3 DEF ShotMoves
<1>7. ASSUME NEW s \in Seats, JudgeRemove(s) \/ PlayerLeave(s) PROVE ShotMoves
  <2>1. game' = ApplyJudgeRemove(game, s) BY <1>7 DEF JudgeRemove, PlayerLeave
  <2>2. game'.pending = game.pending BY <1>1, <2>1, RemoveAside
  <2>3. game'.phase \in {game.phase, "GAME_OVER"}
    BY <1>1, <2>1, RemoveStrikes DEF Struck
  <2>. QED BY <2>2, <2>3 DEF ShotMoves
<1>8. ASSUME NEW s \in Seats, JudgeNominate(s) \/ JudgeUnnominate(s) \/ JudgeUnfoul(s)
      PROVE ShotMoves
  <2>1. Aside(game, game') /\ Still(game, game')
    BY <1>1, <1>8, OthersAside, OthersStill DEF JudgeNominate, JudgeUnnominate, JudgeUnfoul
  <2>. QED BY <2>1 DEF Aside, Still, ShotMoves
<1>9. ASSUME NEW s \in Seats, NEW t \in Seats,
             CastVote(s, t) \/ CheckAsDon(s, t) \/ CheckAsSheriff(s, t)
      PROVE ShotMoves
  <2>1. Aside(game, game') /\ Still(game, game')
    BY <1>1, <1>9, OthersAside, OthersStill DEF CastVote, CheckAsDon, CheckAsSheriff
  <2>. QED BY <2>1 DEF Aside, Still, ShotMoves
<1>10. ASSUME NEW s \in Seats, NEW t \in Seats, ChooseMafiaTarget(s, t) PROVE ShotMoves
  BY <1>10 DEF ChooseMafiaTarget, Targets, ShotMoves
<1>11. ASSUME NEW s \in Seats,
              \/ \E ballot \in {"yes", "no"} : CastLiftAllVote(s, ballot)
              \/ \E c \in Cards : PickRoleCard(s, c)
       PROVE ShotMoves
  <2>1. Aside(game, game') /\ Still(game, game')
    BY <1>1, <1>11, OthersAside, OthersStill DEF CastLiftAllVote, PickRoleCard
  <2>. QED BY <2>1 DEF Aside, Still, ShotMoves
<1>12. ASSUME NEW s \in Seats, NEW guess, CastBestMoveGuess(s, guess) PROVE ShotMoves
  <2>1. game'.pending = game.pending /\ game'.phase = game.phase
    BY <1>1, <1>12 DEF CastBestMoveGuess, ApplyBestMoveGuess, GameState
  <2>. QED BY <2>1 DEF ShotMoves
<1>. QED
  BY <1>2, <1>3, <1>4, <1>5, <1>6, <1>7, <1>8, <1>9, <1>10, <1>11, <1>12
  DEF Next, JudgeStep, PlayerStep

LEMMA FollowedStep ==
  ASSUME TypeOK, TypeOK', CourtInv, EveningInv, Followed(game), [Next]_game
  PROVE Followed(game')
<1>1. game \in GameState /\ game' \in GameState BY DEF TypeOK
<1>2. game.phase \in Phases /\ game'.phase \in Phases BY <1>1 DEF GameState
<1>3. CASE game'.pending = NoSeat BY <1>3 DEF Followed
<1>4. CASE Targets
  <2>1. PICK v \in Seats, t \in Seats :
          CanTarget(game, v, t) /\ game' = ApplyMafiaTarget(game, v, t)
    BY <1>4 DEF Targets
  <2>2. /\ game'.pending = t /\ game'.phase = game.phase /\ game'.role = game.role
        /\ game'.alive = game.alive /\ game'.removed = game.removed
    BY <1>1, <2>1 DEF ApplyMafiaTarget, GameState
  <2>3. /\ game.phase = "NIGHT_MAFIA" /\ t \in game.alive
        /\ game.role[t] \notin BlackRoles
    BY <2>1 DEF CanTarget, Live, LiveBlack
  <2>. QED BY <2>2, <2>3 DEF Followed, ShotPhases
<1>5. CASE /\ game'.pending = game.pending
           /\ game.phase = "MORNING_ANNOUNCEMENT" =>
                game'.phase \in {"MORNING_ANNOUNCEMENT", "GAME_OVER"}
  <2>1. StepKinds BY EveryStepIsOfAKind
  <2>2. CASE Outcome(game, game')
    <3>1. game'.role = game.role /\ game'.removed = game.removed BY <2>2 DEF Outcome
    <3>2. CASE Passes(game, game')
      <4>1. game'.alive = game.alive BY <3>2 DEF Passes, SameEvening
      <4>2. \/ game'.phase = game.phase
            \/ game.phase \in BeforeCards \cup {"DAY_LAST_WORD"}
            \/ game.phase \in ShotPhases /\ game'.phase \in ShotPhases
        BY <3>2 DEF Passes
      <4>. QED BY <1>5, <3>1, <4>1, <4>2 DEF Followed, BeforeCards, ShotPhases
    <3>3. CASE Verdict(game, game') BY <3>3 DEF Verdict, Followed, ShotPhases
    <3>4. CASE Sits(game, game')
      <4>1. game.pending = NoSeat BY <3>4 DEF Sits, Followed, CourtPhases, ShotPhases
      <4>. QED BY <1>5, <4>1 DEF Followed
    <3>5. CASE Wakes(game, game') BY <3>5 DEF Wakes, Followed, ShotPhases
    <3>6. CASE Dawns(game, game') BY <1>5, <3>6 DEF Dawns
    <3>. QED BY <2>2, <3>2, <3>3, <3>4, <3>5, <3>6 DEF Outcome
  <2>3. CASE Still(game, game') BY <1>5, <2>3 DEF Still, SameEvening, Followed
  <2>4. ASSUME NEW s \in Seats, Struck(game, game', s) PROVE Followed(game')
    <3>1. /\ game'.role = game.role /\ game'.phase \in {game.phase, "GAME_OVER"}
          /\ game'.alive \cup game'.removed = (game.alive \cup game.removed) \cup {s}
      BY <2>4 DEF Struck
    <3>. QED BY <1>5, <3>1 DEF Followed, ShotPhases
  <2>5. CASE JudgeLeave
    <3>1. game'.phase = "GAME_OVER" BY <2>5, LeaveFields
    <3>. QED BY <3>1 DEF Followed, ShotPhases
  <2>. QED BY <1>4, <2>1, <2>2, <2>3, <2>4, <2>5 DEF StepKinds
<1>. QED BY <1>3, <1>4, <1>5, ShotStep DEF ShotMoves

\* The moves a tick has collected are moves of seats against seats.
PassOfSeats(p) ==
  \A b \in DOMAIN p : b \in Seats /\ \A move \in p[b] : move[2] \in Seats

LEMMA DecideOnSeats ==
  ASSUME NEW g \in GameState, NEW b, NEW move \in DecideAction(g, b)
  PROVE /\ move[2] \in Seats
        /\ \/ /\ move[1] = "shoot" /\ g.phase = "NIGHT_MAFIA" /\ g.role[b] \in BlackRoles
              /\ \/ move[2] \in PickRandomLivingSeat(g, b, BlackRoles)
                 \/ move[2] = g.pending /\ g.pending # NoSeat
           \/ /\ move[1] = "checkAsDon" /\ g.phase = "NIGHT_DON" /\ g.role[b] = "don"
              /\ g.donCheck = NoSeat /\ move[2] # b
           \/ /\ move[1] = "checkAsSheriff" /\ g.phase = "NIGHT_SHERIFF"
              /\ g.role[b] = "sheriff" /\ g.sheriffCheck = NoSeat /\ move[2] # b
<1>1. g.alive \subseteq Seats /\ g.pending \in Seats \cup {NoSeat}
  BY DEF GameState, SeatOrNone
<1>2. \A R : PickRandomLivingSeat(g, b, R) \subseteq Seats /\ b \notin PickRandomLivingSeat(g, b, R)
  BY <1>1 DEF PickRandomLivingSeat, AlivePlayers
<1>3. CASE g.phase = "NIGHT_MAFIA" /\ g.role[b] \in BlackRoles /\ g.mafiaVotes[b] = NoSeat
  <2>1. move \in {"shoot"} \X Shots(g, b) BY <1>3 DEF DecideAction
  <2>2. move[1] = "shoot" /\ move[2] \in Shots(g, b) BY <2>1
  <2>3. \/ move[2] \in PickRandomLivingSeat(g, b, BlackRoles)
        \/ move[2] = g.pending /\ g.pending # NoSeat
    BY <2>2 DEF Shots
  <2>. QED BY <1>1, <1>2, <1>3, <2>2, <2>3
<1>4. CASE g.phase = "NIGHT_DON" /\ g.role[b] = "don" /\ g.donCheck = NoSeat
  <2>1. move \in {"checkAsDon"} \X PickRandomLivingSeat(g, b, BlackRoles)
    BY <1>4 DEF DecideAction
  <2>. QED BY <1>2, <1>4, <2>1
<1>5. CASE g.phase = "NIGHT_SHERIFF" /\ g.role[b] = "sheriff" /\ g.sheriffCheck = NoSeat
  <2>1. move \in {"checkAsSheriff"} \X PickRandomLivingSeat(g, b, {})
    BY <1>5 DEF DecideAction
  <2>. QED BY <1>2, <1>5, <2>1
<1>. QED BY <1>3, <1>4, <1>5 DEF DecideAction

LEMMA BotStepIsAStep ==
  ASSUME TypeOK, PassOfSeats(pass), [BotsNext]_botVars
  PROVE [Next]_game
<1>1. CASE UNCHANGED botVars BY <1>1 DEF botVars
<1>2. CASE Tick BY <1>2 DEF Tick
<1>3. CASE BotMoves
  <2>1. PICK b \in AtWork : \E move \in pass[b] :
          Moves(b, move) \/ (~Legal(game, b, move) /\ UNCHANGED game)
    BY <1>3 DEF BotMoves
  <2>2. PICK move \in pass[b] : Moves(b, move) \/ UNCHANGED game BY <2>1
  <2>3. b \in Seats /\ move[2] \in Seats BY <2>1, <2>2 DEF PassOfSeats, AtWork
  <2>. QED BY <2>2, <2>3 DEF Moves, Next, PlayerStep
<1>4. CASE JudgeStep \/ \E s \in Seats \ bots : PlayerStep(s) BY <1>4 DEF Next
<1>. QED BY <1>1, <1>2, <1>3, <1>4 DEF BotsNext

LEMMA PassStep ==
  ASSUME TypeOK, PassOfSeats(pass), [BotsNext]_botVars
  PROVE PassOfSeats(pass')
<1>1. CASE pass' = pass BY <1>1
<1>2. CASE Tick
  <2>1. game \in GameState /\ Busy(game) \subseteq Seats
    BY DEF TypeOK, Busy, AlivePlayers, GameState
  <2>2. pass' = [b \in Busy(game) |-> DecideAction(game, b)] BY <1>2 DEF Tick
  <2>. QED BY <2>1, <2>2, DecideOnSeats DEF PassOfSeats
<1>3. CASE BotMoves
  <2>1. PICK b \in AtWork : pass' = [other \in AtWork \ {b} |-> pass[other]]
    BY <1>3 DEF BotMoves
  <2>. QED BY <2>1 DEF PassOfSeats, AtWork
<1>. QED BY <1>1, <1>2, <1>3 DEF BotsNext, botVars

BotsInv == TypeOK /\ CourtInv /\ EveningInv /\ Followed(game) /\ PassOfSeats(pass)

LEMMA BotsStart == Init /\ BotsSitDown => BotsInv
<1>1. SUFFICES ASSUME Init, BotsSitDown PROVE Followed(game) /\ PassOfSeats(pass)
  BY InitTyped, InitCourt, InitEvening DEF BotsInv
<1>2. game.pending = NoSeat BY <1>1 DEF Init, NewGame
<1>3. DOMAIN pass = {} BY <1>1 DEF BotsSitDown, NoPass
<1>. QED BY <1>2, <1>3 DEF Followed, PassOfSeats

LEMMA BotsStep == BotsInv /\ [BotsNext]_botVars => BotsInv'
<1>. SUFFICES ASSUME BotsInv, [BotsNext]_botVars PROVE BotsInv' OBVIOUS
<1>1. [Next]_game /\ PassOfSeats(pass') BY BotStepIsAStep, PassStep DEF BotsInv
<1>2. TypeOK' BY <1>1, NextTyped DEF BotsInv
<1>3. CourtInv'
  <2>1. CASE UNCHANGED game BY <2>1 DEF BotsInv, CourtInv
  <2>. QED BY <1>1, <2>1, JudgeCourt, PlayerCourt DEF BotsInv, Next
<1>4. EveningInv' BY <1>1, <1>2, EveningStep DEF BotsInv
<1>5. Followed(game') BY <1>1, <1>2, FollowedStep DEF BotsInv
<1>. QED BY <1>1, <1>2, <1>3, <1>4, <1>5 DEF BotsInv, Followed, PassOfSeats

\* Whatever judge, players and bots have done to a table, the move a bot would
\* choose there is one the service takes, or follows a shot at a seat that has been
\* removed since (game.bots.ts:90-124): the shot last made, which no removal clears,
\* is never one from an earlier night, at a dead seat or at the side's own.
THEOREM BotsPlayByTheRules == BotsSpec => []BotsDecideLegally
<1>1. BotsInv => BotsDecideLegally
  <2>. SUFFICES ASSUME BotsInv, NEW b \in Busy(game), NEW move \in DecideAction(game, b)
                PROVE Legal(game, b, move) \/ move[2] \in Gone
    BY DEF BotsDecideLegally
  <2>1. game \in GameState /\ Followed(game) BY DEF BotsInv, TypeOK
  <2>2. b \in Live(game) BY DEF Busy, AlivePlayers, Live
  <2>3. CASE /\ move[1] = "shoot" /\ game.phase = "NIGHT_MAFIA" /\ game.role[b] \in BlackRoles
             /\ \/ move[2] \in PickRandomLivingSeat(game, b, BlackRoles)
                \/ move[2] = game.pending /\ game.pending # NoSeat
    <3>1. b \in LiveBlack(game) BY <2>2, <2>3 DEF LiveBlack
    <3>2. CASE move[2] \in PickRandomLivingSeat(game, b, BlackRoles)
      <4>1. move[2] \in Live(game) \ LiveBlack(game)
        BY <3>2 DEF PickRandomLivingSeat, AlivePlayers, Live, LiveBlack
      <4>. QED BY <2>3, <3>1, <4>1 DEF Legal, CanTarget
    <3>3. CASE move[2] = game.pending /\ game.pending # NoSeat
      <4>1. /\ move[2] \in game.alive \cup game.removed
            /\ game.role[move[2]] \notin BlackRoles
        BY <2>1, <2>3, <3>3 DEF Followed, ShotPhases
      <4>2. move[2] \in Gone \/ move[2] \in Live(game) \ LiveBlack(game)
        BY <4>1 DEF Gone, Live, LiveBlack
      <4>. QED BY <2>3, <3>1, <4>2 DEF Legal, CanTarget
    <3>. QED BY <2>3, <3>2, <3>3
  <2>4. CASE ~(move[1] = "shoot" /\ game.phase = "NIGHT_MAFIA" /\ game.role[b] \in BlackRoles)
    BY <2>1, <2>2, <2>4, DecideOnSeats DEF Legal, CanDonCheck, CanSheriffCheck
  <2>. QED BY <2>1, <2>3, <2>4, DecideOnSeats
<1>. QED BY <1>1, BotsStart, BotsStep, PTL DEF BotsSpec

-----------------------------------------------------------------------------
(* The best move.                                                          *)

\* The seats voted out or shot.
Dead(g) == Seats \ (g.alive \cup g.removed)
AtMostTwo(S) == \E a, b : S \subseteq {a, b}

\* How many may be dead by the first victim's farewell, and who has guessed.
FirstDays(g) ==
  /\ g.phase \in BeforeCards => g.day = 0
  /\ g.day = 0 => g.bestMove = {}
  /\ g.day = 1 /\ g.phase = "DAY_SPEECH" /\ g.farewell # NoSeat => g.bestMove \subseteq {g.farewell}
  /\ g.day = 0 /\ g.phase \in BeforeCards \cup CourtPhases => Dead(g) = {}
  /\ g.day = 0 /\ ~g.multiKill /\ g.phase \in ShotPhases \cup {"DAY_LAST_WORD"} => AtMostOne(Dead(g))
  /\ g.day = 0 /\ ~g.multiKill /\ g.phase = "MORNING_ANNOUNCEMENT" => AtMostTwo(Dead(g))
  /\ g.day = 1 /\ ~g.multiKill /\ g.phase = "DAY_SPEECH" => AtMostTwo(Dead(g))

\* A step that leaves the day where it is, and kills nobody.
Steady(g, r) ==
  /\ r.day = g.day /\ r.multiKill = g.multiKill /\ r.bestMove = g.bestMove
  /\ r.farewell \in {g.farewell, NoSeat} /\ r.phase \in {g.phase, "GAME_OVER"}
  /\ Dead(r) \subseteq Dead(g)

LEMMA SteadyDays ==
  ASSUME NEW g, NEW r, Steady(g, r), FirstDays(g)
  PROVE FirstDays(r)
<1>1. CASE r.phase = "GAME_OVER"
  BY <1>1 DEF Steady, FirstDays, BeforeCards, CourtPhases, ShotPhases
<1>2. CASE r.phase = g.phase
  <2>1. Dead(g) = {} => Dead(r) = {} BY DEF Steady
  <2>2. AtMostOne(Dead(g)) => AtMostOne(Dead(r)) BY DEF Steady, AtMostOne
  <2>3. AtMostTwo(Dead(g)) => AtMostTwo(Dead(r)) BY DEF Steady, AtMostTwo
  <2>. QED BY <1>2, <2>1, <2>2, <2>3 DEF Steady, FirstDays
<1>. QED BY <1>1, <1>2 DEF Steady

LEMMA ShortListIsOne ==
  ASSUME NEW q \in Seq(Seats), Len(q) < 2
  PROVE AtMostOne(ToSet(q))
<1>1. Len(q) \in Nat OBVIOUS
<1>2. \A i, j \in 1..Len(q) : i = j BY <1>1
<1>. QED BY <1>2 DEF ToSet, AtMostOne

\* On the first day the court takes one seat, or forfeits the best move.
LEMMA FirstCourtTakesOne ==
  ASSUME NEW g \in GameState, g.phase \in CourtPhases, g.day = 0
  PROVE LET r == ApplyAdvancePhase(g)
        IN r.alive = g.alive \/ r.multiKill \/ \E S : AtMostOne(S) /\ r.alive = g.alive \ S
<1>. DEFINE h == Resolve(g)
            to == NextPhase(Leave(g))
            r == ApplyAdvancePhase(g)
            Few(k) == k.alive = g.alive \/ k.multiKill
                        \/ \E S : AtMostOne(S) /\ k.alive = g.alive \ S
<1>1. h \in GameState BY ResolveTyped
<1>2. ~PicksPending(g) BY DEF PicksPending, CourtPhases
<1>3. r = Finish(h) \/ r = Enter(g, h, to) BY <1>2 DEF ApplyAdvancePhase
<1>4. r.alive = h.alive /\ r.multiKill = h.multiKill
  <2>1. Finish(h).alive = h.alive /\ Finish(h).multiKill = h.multiKill
    BY <1>1 DEF Finish, GameState
  <2>2. Enter(g, h, to).alive = h.alive /\ Enter(g, h, to).multiKill = h.multiKill
    BY <1>1 DEF Enter, GameState
  <2>. QED BY <1>3, <2>1, <2>2
<1>5. AtMostOne(ToSet(<<ResolveVote(g)>>)) BY DEF AtMostOne, ToSet
<1>6. Few(h)
  <2>1. CASE g.phase = "DAY_VOTE"
    <3>. DEFINE c == Condemn(g, <<ResolveVote(g)>>)
                tie == FindTiedSeats(g)
    <3>1. h = LeaveVote(g) BY <2>1 DEF Resolve, Leave
    <3>2. \/ h = Acquit(g) \/ h = OpenRunoff(g, tie) \/ h = [c EXCEPT !.nominations = <<>>]
          \/ h = [g EXCEPT !.votes = NoVotes, !.nominations = <<>>]
      BY <3>1 DEF LeaveVote
    <3>3. CASE h = Acquit(g) BY <3>3 DEF Acquit, GameState
    <3>4. CASE h = OpenRunoff(g, tie) BY <3>4 DEF OpenRunoff, GameState
    <3>5. CASE h = [g EXCEPT !.votes = NoVotes, !.nominations = <<>>] BY <3>5 DEF GameState
    <3>6. CASE h = [c EXCEPT !.nominations = <<>>]
      <4>1. h.alive = g.alive \ ToSet(<<ResolveVote(g)>>)
        BY <3>6 DEF Condemn, KillSeats, GameState
      <4>. QED BY <1>5, <4>1
    <3>. HIDE DEF h
    <3>. QED BY <3>2, <3>3, <3>4, <3>5, <3>6
  <2>2. CASE g.phase = "DAY_REVOTE"
    <3>. DEFINE counted == [g EXCEPT !.shootoutIdx = 0]
                c == Condemn(counted, <<ResolveVote(g)>>)
                tie == FindTiedSeats(g)
    <3>1. h = LeaveRevote(g) BY <2>2 DEF Resolve, Leave
    <3>2. \/ h = Acquit(counted)
          \/ h = [Acquit(counted) EXCEPT !.tied = tie, !.lift = NoBallots]
          \/ h = [c EXCEPT !.nominations = <<>>, !.tied = <<>>]
      BY <3>1 DEF LeaveRevote
    <3>3. counted \in GameState /\ counted.alive = g.alive
      <4>1. counted.alive = g.alive BY DEF GameState
      <4>. QED BY <4>1, ClearedTyped
    <3>. HIDE DEF counted
    <3>4. CASE h = Acquit(counted) BY <3>3, <3>4 DEF Acquit, GameState
    <3>5. CASE h = [Acquit(counted) EXCEPT !.tied = tie, !.lift = NoBallots]
      BY <3>3, <3>5 DEF Acquit, GameState
    <3>6. CASE h = [c EXCEPT !.nominations = <<>>, !.tied = <<>>]
      <4>1. h.alive = g.alive \ ToSet(<<ResolveVote(g)>>)
        BY <3>3, <3>6 DEF Condemn, KillSeats, GameState
      <4>. QED BY <1>5, <4>1
    <3>. HIDE DEF h
    <3>. QED BY <3>2, <3>4, <3>5, <3>6
  <2>3. CASE g.phase = "DAY_LIFT_VOTE"
    <3>1. h = LeaveLiftVote(g) BY <2>3 DEF Resolve, Leave
    <3>2. g.tied \in Seq(Seats) /\ Len(g.tied) \in Nat BY DEF GameState
    <3>3. Len(g.tied) < 2 => AtMostOne(ToSet(g.tied)) BY <3>2, ShortListIsOne
    <3>4. Len(g.tied) >= 2 => LiftForfeitsBestMove(g) BY DEF LiftForfeitsBestMove
    <3>. HIDE DEF h
    <3>5. CASE h.alive = g.alive BY <3>5
    <3>6. CASE /\ h.alive = g.alive \ ToSet(g.tied)
               /\ h.multiKill = (g.multiKill \/ LiftForfeitsBestMove(g))
      <4>1. Len(g.tied) >= 2 => h.multiKill BY <3>4, <3>6
      <4>2. Len(g.tied) < 2 \/ Len(g.tied) >= 2 BY <3>2
      <4>. QED BY <3>3, <3>6, <4>1, <4>2
    <3>. QED BY <3>1, <3>5, <3>6, LiftAside
  <2>4. CASE g.phase = "DAY_VOTE_INTRO"
    <3>. DEFINE n == NextPhase(g)
    <3>1. h = SettleIntro(g, n) BY <2>4 DEF Resolve, Leave
    <3>2. n # "DAY_LAST_WORD" BY <2>4 DEF NextPhase
    <3>. HIDE DEF n
    <3>3. h = Acquit(g) \/ h = g BY <3>1, <3>2 DEF SettleIntro
    <3>. HIDE DEF h
    <3>. QED BY <3>3 DEF Acquit, GameState
  <2>5. CASE g.phase = "DAY_SPEECH"
    <3>1. h = LeaveSpeech(g) BY <2>5 DEF Resolve, Leave
    <3>. HIDE DEF h
    <3>. QED BY <3>1, <2>5, SpeechOutcome DEF Spared
  <2>6. CASE g.phase = "DAY_SHOOTOUT"
    <3>1. h = [g EXCEPT !.speaker = NoSeat, !.shootoutIdx = 0] BY <2>6 DEF Resolve, Leave
    <3>. HIDE DEF h
    <3>. QED BY <3>1 DEF GameState
  <2>. QED BY <2>1, <2>2, <2>3, <2>4, <2>5, <2>6 DEF CourtPhases
<1>. HIDE DEF h, r
<1>. QED BY <1>4, <1>6 DEF r

\* No phase of the day is its own next one.
LEMMA SpeechEnds ==
  ASSUME NEW g \in GameState, g.phase = "DAY_SPEECH"
  PROVE ApplyAdvancePhase(g).phase # "DAY_SPEECH"
<1>. DEFINE h == Resolve(g)
            to == NextPhase(Leave(g))
<1>1. h \in GameState BY ResolveTyped
<1>2. to # "DAY_SPEECH" BY SpeechOutcome DEF Leave, Spared, CourtPhases
<1>3. ApplyAdvancePhase(g) = Finish(h) \/ ApplyAdvancePhase(g) = Enter(g, h, to)
  BY DEF ApplyAdvancePhase, PicksPending
<1>. HIDE DEF h, to
<1>. QED BY <1>1, <1>2, <1>3, FinishAside, EnterAside

LEMMA AdvanceDays ==
  ASSUME NEW g \in GameState, Court(g, g.phase), Evening(g, g.phase), FirstDays(g)
  PROVE FirstDays(ApplyAdvancePhase(g))
<1>1. PICK r : r = ApplyAdvancePhase(g) OBVIOUS
<1>. SUFFICES FirstDays(r) BY <1>1
<1>2. Outcome(g, r) BY <1>1, AdvanceOutcome
<1>3. /\ r.bestMove = g.bestMove
      /\ r.phase # "DAY_SPEECH" => r.farewell = g.farewell
      /\ g.phase # "MORNING_ANNOUNCEMENT" => r.day = g.day
      /\ g.phase = "MORNING_ANNOUNCEMENT" => r.day = g.day + 1
      /\ g.phase # "DAY_LIFT_VOTE" => r.multiKill = g.multiKill
  BY <1>1, AdvanceAside
<1>4. g.day \in Nat /\ g.phase \in Phases BY DEF GameState
<1>5. r.removed = g.removed BY <1>2 DEF Outcome
<1>6. r.alive = g.alive => Dead(r) = Dead(g) BY <1>5 DEF Dead
<1>7. \A S : r.alive = g.alive \ S => Dead(r) \subseteq Dead(g) \cup S BY <1>5 DEF Dead
<1>8. AtMostOne({}) /\ \A S : AtMostOne(S) => AtMostTwo(S)
  BY DEF AtMostOne, AtMostTwo
<1>9. CASE Passes(g, r)
  <2>1. Dead(r) = Dead(g) BY <1>6, <1>9 DEF Passes, SameEvening
  <2>2. CASE r.phase = g.phase
    <3>1. g.phase # "DAY_SPEECH" BY <1>1, <2>2, SpeechEnds
    <3>2. CASE g.phase = "MORNING_ANNOUNCEMENT"
      BY <1>3, <1>4, <2>2, <3>2 DEF FirstDays, BeforeCards, CourtPhases, ShotPhases
    <3>3. CASE g.phase = "DAY_LIFT_VOTE"
      BY <1>3, <2>1, <2>2, <3>3 DEF FirstDays, BeforeCards, CourtPhases, ShotPhases
    <3>4. CASE g.phase \notin {"MORNING_ANNOUNCEMENT", "DAY_LIFT_VOTE"}
      BY <1>3, <2>1, <2>2, <3>1, <3>4 DEF FirstDays
    <3>. QED BY <3>2, <3>3, <3>4
  <2>3. CASE g.phase \in BeforeCards /\ r.phase \in BeforeCards \cup {"DAY_SPEECH"}
    BY <1>3, <1>4, <2>1, <2>3 DEF FirstDays, BeforeCards, CourtPhases, ShotPhases
  <2>4. CASE g.phase = "DAY_LAST_WORD" /\ r.phase = "NIGHT_MAFIA"
    BY <1>3, <2>1, <2>4 DEF FirstDays, BeforeCards, CourtPhases, ShotPhases
  <2>5. CASE g.phase \in ShotPhases /\ r.phase \in ShotPhases
    BY <1>3, <2>1, <2>5 DEF FirstDays, BeforeCards, CourtPhases, ShotPhases
  <2>. QED BY <1>9, <2>2, <2>3, <2>4, <2>5 DEF Passes
<1>10. CASE Verdict(g, r)
  <2>1. r.phase = "GAME_OVER" /\ g.phase # "MORNING_ANNOUNCEMENT"
    BY <1>10 DEF Verdict, BeforeCards
  <2>. QED BY <1>3, <2>1 DEF FirstDays, BeforeCards, CourtPhases, ShotPhases
<1>11. CASE Sits(g, r)
  <2>1. /\ g.phase \in CourtPhases /\ g.phase # "MORNING_ANNOUNCEMENT"
        /\ r.phase \in (CourtPhases \ {"DAY_SPEECH"}) \cup {"NIGHT_MAFIA", "DAY_LAST_WORD"}
        /\ r.phase # "DAY_LAST_WORD" => r.alive = g.alive
    BY <1>11 DEF Sits, Spared, Sentenced, CourtPhases
  <2>2. g.day = 0 => Dead(g) = {} BY <2>1 DEF FirstDays
  <2>3. r.phase # "DAY_LAST_WORD" => (g.day = 0 => Dead(r) = {}) BY <1>6, <2>1, <2>2
  <2>4. ASSUME g.day = 0, ~r.multiKill PROVE AtMostOne(Dead(r))
    <3>1. r.alive = g.alive \/ \E S : AtMostOne(S) /\ r.alive = g.alive \ S
      BY <1>1, <2>1, <2>4, FirstCourtTakesOne
    <3>2. CASE r.alive = g.alive BY <1>6, <1>8, <2>2, <2>4, <3>2
    <3>3. CASE \E S : AtMostOne(S) /\ r.alive = g.alive \ S
      <4>1. PICK S : AtMostOne(S) /\ r.alive = g.alive \ S BY <3>3
      <4>2. Dead(r) \subseteq S BY <1>7, <2>2, <2>4, <4>1
      <4>. QED BY <4>1, <4>2 DEF AtMostOne
    <3>. QED BY <3>1, <3>2, <3>3
  <2>5. r.day = g.day BY <1>3, <2>1
  <2>. QED BY <1>3, <2>1, <2>3, <2>4, <2>5 DEF FirstDays, BeforeCards, CourtPhases, ShotPhases
<1>12. CASE Wakes(g, r)
  <2>1. /\ g.phase = "NIGHT_SHERIFF" /\ r.phase = "MORNING_ANNOUNCEMENT"
        /\ r.day = g.day /\ r.multiKill = g.multiKill
    BY <1>3, <1>12 DEF Wakes
  <2>2. ASSUME g.day = 0, ~g.multiKill PROVE AtMostTwo(Dead(r))
    <3>1. AtMostOne(Dead(g)) BY <2>1, <2>2 DEF FirstDays, ShotPhases
    <3>2. \E t : Dead(r) \subseteq Dead(g) \cup {t}
      BY <1>6, <1>7, <1>12 DEF Wakes
    <3>. QED BY <3>1, <3>2 DEF AtMostOne, AtMostTwo
  <2>. QED BY <1>3, <2>1, <2>2 DEF FirstDays, BeforeCards, CourtPhases, ShotPhases
<1>13. CASE Dawns(g, r)
  <2>1. /\ g.phase = "MORNING_ANNOUNCEMENT" /\ r.phase = "DAY_SPEECH"
        /\ r.day = g.day + 1 /\ r.multiKill = g.multiKill /\ Dead(r) = Dead(g)
    BY <1>3, <1>6, <1>13 DEF Dawns
  <2>2. r.day # 0 /\ (r.day = 1 => g.day = 0) BY <1>4, <2>1
  <2>3. r.day = 1 => r.bestMove = {} BY <1>3, <2>2 DEF FirstDays
  <2>4. r.day = 1 /\ ~r.multiKill => AtMostTwo(Dead(r)) BY <2>1, <2>2 DEF FirstDays
  <2>. QED BY <2>1, <2>2, <2>3, <2>4 DEF FirstDays, BeforeCards
<1>. QED BY <1>1, <1>2, <1>9, <1>10, <1>11, <1>12, <1>13 DEF Outcome

LEMMA StillIsSteady ==
  ASSUME NEW g, NEW r, Still(g, r), Aside(g, r), r.multiKill = g.multiKill
  PROVE Steady(g, r)
BY DEF Still, SameEvening, Aside, Steady, Dead

LEMMA StruckKillsNobody ==
  ASSUME NEW g, NEW r, NEW s \in Seats, Struck(g, r, s)
  PROVE Dead(r) \subseteq Dead(g) /\ r.phase \in {g.phase, "GAME_OVER"}
BY DEF Struck, Dead

LEMMA DaysStep ==
  ASSUME TypeOK, CourtInv, EveningInv, FirstDays(game), [Next]_game
  PROVE FirstDays(game') /\ ((\E s \in Seats : \E guess : CastBestMoveGuess(s, guess))
                             \/ game'.bestMove = game.bestMove)
<1>. DEFINE Goal == FirstDays(game') /\ ((\E s \in Seats : \E guess : CastBestMoveGuess(s, guess))
                                         \/ game'.bestMove = game.bestMove)
<1>1. game \in GameState /\ Court(game, game.phase) /\ Evening(game, game.phase)
  BY DEF TypeOK, CourtInv, EveningInv
<1>2. Steady(game, game') => Goal BY SteadyDays DEF Steady
<1>3. CASE UNCHANGED game BY <1>3
<1>4. CASE JudgeAdvancePhase
  BY <1>1, <1>4, AdvanceDays, AdvanceAside DEF JudgeAdvancePhase
<1>5. CASE JudgeAdvanceSpeaker
  <2>. DEFINE h == ApplyNextSpeaker(game)
  <2>1. h \in GameState /\ Still(game, h) /\ Court(h, game.phase)
    BY <1>1, NextSpeakerTyped, StepperStill, StepperCourt
  <2>2. /\ h.day = game.day /\ h.bestMove = game.bestMove
        /\ h.multiKill = game.multiKill /\ h.farewell \in {game.farewell, NoSeat}
    BY <1>1, StepperAside
  <2>3. game' = h \/ game' = ApplyAdvancePhase(h) BY <1>5 DEF JudgeAdvanceSpeaker
  <2>. HIDE DEF h
  <2>4. Steady(game, h) BY <2>1, <2>2 DEF Still, SameEvening, Steady, Dead
  <2>5. h.phase = game.phase /\ Evening(h, h.phase) BY <1>1, <2>1, StillEvening DEF Still
  <2>6. FirstDays(h) BY <2>4, SteadyDays
  <2>7. FirstDays(ApplyAdvancePhase(h)) BY <2>1, <2>5, <2>6, AdvanceDays
  <2>8. ApplyAdvancePhase(h).bestMove = h.bestMove BY <2>1, AdvanceAside
  <2>. QED BY <2>2, <2>3, <2>6, <2>7, <2>8
<1>6. CASE JudgeLeave
  <2>1. /\ game'.day = game.day /\ game'.multiKill = game.multiKill
        /\ game'.bestMove = game.bestMove /\ game'.farewell = game.farewell
        /\ game'.phase = "GAME_OVER" /\ game'.alive = game.alive /\ game'.removed = game.removed
    BY <1>1, <1>6 DEF JudgeLeave, ApplyJudgeEndGame, GameState
  <2>. QED BY <1>2, <2>1 DEF Steady, Dead
<1>7. ASSUME NEW s \in Seats, JudgeFoul(s) \/ SayOutOfTurn(s) PROVE Goal
  <2>1. game.fouls[s] < FoulRemove /\ game' = AddFoul(game, s)
    BY <1>7 DEF JudgeFoul, CanFoul, ApplyJudgeFoul, SayOutOfTurn, CanSayOutOfTurn, ApplyOutOfTurn
  <2>2. /\ game'.day = game.day /\ game'.bestMove = game.bestMove
        /\ game'.multiKill = game.multiKill /\ game'.farewell \in {game.farewell, NoSeat}
    BY <1>1, <2>1, FoulAside
  <2>3. Dead(game') \subseteq Dead(game) /\ game'.phase \in {game.phase, "GAME_OVER"}
    <3>1. Still(game, game') \/ Struck(game, game', s) BY <1>1, <2>1, FoulOutcome
    <3>. QED BY <3>1, StruckKillsNobody DEF Still, SameEvening, Dead
  <2>. QED BY <1>2, <2>2, <2>3 DEF Steady
<1>8. ASSUME NEW s \in Seats, JudgeRemove(s) \/ PlayerLeave(s) PROVE Goal
  <2>1. game' = ApplyJudgeRemove(game, s) BY <1>8 DEF JudgeRemove, PlayerLeave
  <2>2. /\ game'.day = game.day /\ game'.bestMove = game.bestMove
        /\ game'.multiKill = game.multiKill /\ game'.farewell \in {game.farewell, NoSeat}
    BY <1>1, <2>1, RemoveAside
  <2>3. Struck(game, game', s) BY <1>1, <2>1, RemoveStrikes
  <2>. QED BY <1>2, <2>2, <2>3, StruckKillsNobody DEF Steady
<1>9. ASSUME NEW s \in Seats, JudgeNominate(s) \/ JudgeUnnominate(s) \/ JudgeUnfoul(s)
      PROVE Goal
  <2>1. Aside(game, game') /\ Still(game, game')
    BY <1>1, <1>9, OthersAside, OthersStill DEF JudgeNominate, JudgeUnnominate, JudgeUnfoul
  <2>2. game'.multiKill = game.multiKill
    BY <1>1, <1>9, OthersKill DEF JudgeNominate, JudgeUnnominate, JudgeUnfoul
  <2>. QED BY <1>2, <2>1, <2>2, StillIsSteady
<1>10. ASSUME NEW s \in Seats, NEW t \in Seats,
              CastVote(s, t) \/ CheckAsDon(s, t) \/ CheckAsSheriff(s, t)
       PROVE Goal
  <2>1. Aside(game, game') /\ Still(game, game')
    BY <1>1, <1>10, OthersAside, OthersStill DEF CastVote, CheckAsDon, CheckAsSheriff
  <2>2. game'.multiKill = game.multiKill
    BY <1>1, <1>10, OthersKill DEF CastVote, CheckAsDon, CheckAsSheriff
  <2>. QED BY <1>2, <2>1, <2>2, StillIsSteady
<1>11. ASSUME NEW s \in Seats, NEW t \in Seats, ChooseMafiaTarget(s, t) PROVE Goal
  <2>1. /\ game'.day = game.day /\ game'.multiKill = game.multiKill
        /\ game'.bestMove = game.bestMove /\ game'.farewell = game.farewell
        /\ game'.phase = game.phase /\ game'.alive = game.alive /\ game'.removed = game.removed
    BY <1>1, <1>11 DEF ChooseMafiaTarget, ApplyMafiaTarget, GameState
  <2>. QED BY <1>2, <2>1 DEF Steady, Dead
<1>12. ASSUME NEW s \in Seats,
              \/ \E ballot \in {"yes", "no"} : CastLiftAllVote(s, ballot)
              \/ \E c \in Cards : PickRoleCard(s, c)
       PROVE Goal
  <2>1. Aside(game, game') /\ Still(game, game')
    BY <1>1, <1>12, OthersAside, OthersStill DEF CastLiftAllVote, PickRoleCard
  <2>2. game'.multiKill = game.multiKill
    BY <1>1, <1>12, OthersKill DEF CastLiftAllVote, PickRoleCard
  <2>. QED BY <1>2, <2>1, <2>2, StillIsSteady
<1>13. ASSUME NEW s \in Seats, NEW guess, CastBestMoveGuess(s, guess) PROVE Goal
  <2>1. /\ game'.day = game.day /\ game'.multiKill = game.multiKill
        /\ game'.bestMove = game.bestMove \cup {s} /\ game'.farewell = game.farewell
        /\ game'.phase = game.phase /\ game'.alive = game.alive /\ game'.removed = game.removed
    BY <1>1, <1>13 DEF CastBestMoveGuess, ApplyBestMoveGuess, GameState
  <2>2. /\ game.phase = "DAY_SPEECH" /\ game.day = 1 /\ game.farewell # NoSeat
        /\ s = game.farewell
    BY <1>13 DEF CastBestMoveGuess, CanGuess
  <2>3. Dead(game') = Dead(game) BY <2>1 DEF Dead
  <2>4. FirstDays(game') BY <2>1, <2>2, <2>3 DEF FirstDays, BeforeCards
  <2>. QED BY <1>13, <2>4
<1>. QED
  BY <1>3, <1>4, <1>5, <1>6, <1>7, <1>8, <1>9, <1>10, <1>11, <1>12, <1>13
  DEF Next, JudgeStep, PlayerStep

GuessIsFirst ==
  game'.bestMove # game.bestMove =>
    /\ game.bestMove = {}
    /\ Cardinality(Seats \ (game.alive \cup game.removed)) <= 2

LEMMA GuessStep ==
  ASSUME TypeOK, CourtInv, EveningInv, FirstDays(game), [Next]_game
  PROVE GuessIsFirst
<1>. SUFFICES ASSUME game'.bestMove # game.bestMove
              PROVE /\ game.bestMove = {}
                    /\ Cardinality(Seats \ (game.alive \cup game.removed)) <= 2
  BY DEF GuessIsFirst
<1>1. PICK s \in Seats : \E guess : CastBestMoveGuess(s, guess) BY DaysStep
<1>2. /\ game.phase = "DAY_SPEECH" /\ game.day = 1 /\ game.farewell # NoSeat /\ ~game.multiKill
      /\ s = game.farewell /\ s \notin game.bestMove
  BY <1>1 DEF CastBestMoveGuess, CanGuess
<1>3. game.bestMove = {} BY <1>2 DEF FirstDays
<1>4. AtMostTwo(Dead(game)) BY <1>2 DEF FirstDays
<1>5. PICK a, b : Dead(game) \subseteq {a, b} BY <1>4 DEF AtMostTwo
<1>6. IsFiniteSet({a, b}) /\ Cardinality({a, b}) <= 2
  <2>1. IsFiniteSet({a}) /\ Cardinality({a}) = 1 BY FS_Singleton
  <2>2. {a, b} = {a} \cup {b} OBVIOUS
  <2>3. /\ IsFiniteSet({a} \cup {b})
        /\ Cardinality({a} \cup {b}) = IF b \in {a} THEN Cardinality({a}) ELSE Cardinality({a}) + 1
    BY <2>1, FS_AddElement
  <2>. QED BY <2>1, <2>2, <2>3
<1>7. Cardinality(Dead(game)) <= Cardinality({a, b}) /\ IsFiniteSet(Dead(game))
  BY <1>5, <1>6, FS_Subset
<1>8. Cardinality(Dead(game)) \in Nat /\ Cardinality({a, b}) \in Nat
  BY <1>6, <1>7, FS_CardinalityType
<1>9. Cardinality(Dead(game)) <= 2 BY <1>6, <1>7, <1>8
<1>. QED BY <1>3, <1>9 DEF Dead

LEMMA InitDays == Init => FirstDays(game)
<1>1. SUFFICES ASSUME NEW deal \in Deals, game = NewGame(deal) PROVE FirstDays(game)
  BY DEF Init
<1>2. /\ game.alive = Seats /\ game.day = 0 /\ game.bestMove = {}
      /\ game.phase = "PLAYER_INTRODUCTION"
  BY <1>1 DEF NewGame
<1>3. Dead(game) = {} BY <1>2 DEF Dead
<1>. QED BY <1>2, <1>3 DEF FirstDays, ShotPhases

\* A guess is taken at most once in a game, and only after a first day and night
\* that have taken at most one seat each: the flag of the first day's double lift
\* outlives the day, and the victim's farewell never comes back
\* (voting.ts:204-211, phase.ts:244-250).
THEOREM BestMoveIsTheFirstVictims == Spec => BestMoveIsForfeited
<1>1. TypeOK /\ CourtInv /\ EveningInv /\ FirstDays(game) /\ [Next]_game => FirstDays(game')
  BY DaysStep
<1>2. TypeOK /\ CourtInv /\ EveningInv /\ FirstDays(game) /\ [Next]_game => [GuessIsFirst]_game
  BY GuessStep
<1>3. [GuessIsFirst]_game =>
      [game'.bestMove # game.bestMove =>
         /\ game.bestMove = {}
         /\ Cardinality(Seats \ (game.alive \cup game.removed)) <= 2]_game
  BY DEF GuessIsFirst
<1>4. FirstDays(game)' <=> FirstDays(game')
  BY DEF FirstDays, AtMostOne, AtMostTwo, Dead
<1>. QED BY <1>1, <1>2, <1>3, <1>4, InitDays, EveningAlways, PTL DEF Spec, BestMoveIsForfeited

-----------------------------------------------------------------------------
(* The card ceremony and its clock.                                        *)

ClockTyped == timer \in SeatOrNone /\ auto \subseteq AutoPicks

\* While nobody has been removed, whoever has the turn is timed: the clock runs for his
\* seat, or it has run out and a pick of a free card is on its way.
TurnIsTimed ==
  PicksPending(game) /\ ~game.finished /\ Gone = {} =>
    \/ timer = game.picker
    \/ \E a \in auto : a.seat = game.picker /\ a.card \in Cards \ game.cards

ClockInv == TypeOK /\ PickGoesOn(game) /\ ClockTyped /\ TurnIsTimed

LEMMA ClockOnlyPicks ==
  ASSUME ClockTyped, ClockNext
  PROVE Next \/ UNCHANGED game
<1>. USE DEF Next, JudgeStep, PlayerStep
<1>1. CASE Advance BY <1>1 DEF Advance
<1>2. CASE Discipline BY <1>2 DEF Discipline
<1>3. CASE TimerFires BY <1>3 DEF TimerFires
<1>4. CASE \E s \in Seats, c \in Cards : Click(s, c) BY <1>4 DEF Click
<1>5. ASSUME NEW a \in auto, AutoPickLands(a) PROVE Next \/ UNCHANGED game
  <2>1. a.seat \in Seats /\ a.card \in Cards BY DEF ClockTyped, AutoPicks
  <2>2. PickRoleCard(a.seat, a.card) \/ UNCHANGED game
    BY <1>5 DEF AutoPickLands, PickRoleCard
  <2>. QED BY <2>1, <2>2
<1>. QED BY <1>1, <1>2, <1>3, <1>4, <1>5 DEF ClockNext

\* The picker finds a card: fewer are taken than there are seats in front of him.
LEMMA SomeCardIsFree ==
  ASSUME TypeOK, PickGoesOn(game), PicksPending(game)
  PROVE Cards \ game.cards # {}
<1>1. game \in GameState BY DEF TypeOK
<1>2. Cardinality(game.cards) < game.picker /\ game.picker \in Seats
  BY <1>1 DEF PickGoesOn, PicksPending, GameState, SeatOrNone
<1>3. Cardinality(game.cards) \in Nat BY <1>1, CardsAreFinite
<1>4. Cardinality(game.cards) < Cardinality(Cards)
  BY <1>2, <1>3, RulesAssumption DEF Seats
<1>5. game.cards \subseteq Cards BY <1>1 DEF GameState
<1>6. game.cards # Cards BY <1>3, <1>4
<1>. QED BY <1>5, <1>6

\* Discipline leaves the ceremony of a full table as it is.
LEMMA DisciplineOfAll ==
  ASSUME TypeOK, Discipline, Gone' = {}, PicksPending(game')
  PROVE SameTurn(game, game') /\ game'.finished = game.finished
<1>1. game \in GameState BY DEF TypeOK
<1>2. CASE JudgeLeave BY <1>1, <1>2 DEF JudgeLeave, ApplyJudgeEndGame, GameState, PicksPending
<1>3. ASSUME NEW s \in Seats, NEW g \in GameState, game' = ApplyJudgeRemove(g, s) PROVE FALSE
  <2>1. StrikeOut(g, s).removed = g.removed \cup {s} BY DEF StrikeOut, GameState
  <2>2. PICK h \in GameState : h = StrikeOut(g, s) BY StrikeOutTyped
  <2>3. Finish(h).removed = h.removed BY <2>2 DEF Finish, GameState
  <2>4. s \in game'.removed BY <1>3, <2>1, <2>2, <2>3 DEF ApplyJudgeRemove
  <2>. QED BY <2>4 DEF Gone
<1>4. ASSUME NEW s \in Seats, JudgeFoul(s)
      PROVE SameTurn(game, game') /\ game'.finished = game.finished
  <2>1. PICK fouled : fouled = [game EXCEPT !.fouls[s] = @ + 1] OBVIOUS
  <2>2. fouled \in GameState
    <3>1. game.fouls[s] + 1 \in 0..FoulRemove
      BY <1>1, <1>4, RulesAssumption DEF GameState, JudgeFoul, CanFoul
    <3>. QED BY <1>1, <2>1, <3>1 DEF GameState
  <2>3. game' = fouled \/ game' = ApplyJudgeRemove(fouled, s)
    BY <1>4, <2>1 DEF JudgeFoul, ApplyJudgeFoul, AddFoul
  <2>4. game' = fouled BY <1>3, <2>2, <2>3
  <2>. QED BY <1>1, <2>1, <2>4 DEF GameState, SameTurn
<1>5. ASSUME NEW s \in Seats, JudgeUnfoul(s)
      PROVE SameTurn(game, game') /\ game'.finished = game.finished
  BY <1>1, <1>5 DEF JudgeUnfoul, ApplyJudgeUnfoul, GameState, SameTurn
<1>6. ASSUME NEW s \in Seats, JudgeRemove(s) \/ PlayerLeave(s) PROVE FALSE
  BY <1>1, <1>3, <1>6 DEF JudgeRemove, PlayerLeave
<1>. QED BY <1>2, <1>4, <1>5, <1>6 DEF Discipline

LEMMA ClockTypedStep ==
  ASSUME TypeOK', ClockTyped, ClockNext
  PROVE ClockTyped'
<1>1. game'.picker \in SeatOrNone BY DEF TypeOK, GameState
<1>. USE DEF ClockTyped, SeatOrNone
<1>2. CASE Advance BY <1>1, <1>2 DEF Advance, AfterAdvance
<1>3. CASE Discipline BY <1>3 DEF Discipline, AfterCommit
<1>4. CASE TimerFires BY <1>4 DEF TimerFires, AutoPicks
<1>5. CASE \E s \in Seats, c \in Cards : Click(s, c) BY <1>1, <1>5 DEF Click
<1>6. CASE \E a \in auto : AutoPickLands(a) BY <1>1, <1>6 DEF AutoPickLands
<1>. QED BY <1>2, <1>3, <1>4, <1>5, <1>6 DEF ClockNext

LEMMA TimedStep ==
  ASSUME ClockInv, ClockNext
  PROVE TurnIsTimed'
<1>. SUFFICES ASSUME PicksPending(game'), ~game'.finished, Gone' = {}
              PROVE \/ timer' = game'.picker
                    \/ \E a \in auto' : a.seat = game'.picker /\ a.card \in Cards \ game'.cards
  BY DEF TurnIsTimed, PicksPending
<1>1. CASE Advance BY <1>1 DEF Advance, AfterAdvance
<1>2. CASE \E s \in Seats, c \in Cards : Click(s, c) BY <1>2 DEF Click
<1>3. CASE Discipline
  <2>1. SameTurn(game, game') /\ game'.finished = game.finished
    BY <1>3, DisciplineOfAll DEF ClockInv
  <2>2. timer' = timer /\ auto' = auto BY <1>3 DEF Discipline, AfterCommit
  <2>. QED BY <2>1, <2>2 DEF ClockInv, TurnIsTimed, SameTurn, PicksPending, Gone
<1>4. CASE TimerFires
  <2>1. game' = game /\ auto \subseteq auto' BY <1>4 DEF TimerFires
  <2>2. CASE timer = game.picker
    <3>1. Cards \ game.cards # {} BY <2>1, SomeCardIsFree DEF ClockInv
    <3>2. PICK c \in Cards \ game.cards : auto' = auto \cup {[seat |-> timer, card |-> c]}
      BY <1>4, <2>1, <2>2, <3>1 DEF TimerFires, PicksPending
    <3>3. PICK a : a = [seat |-> timer, card |-> c] OBVIOUS
    <3>4. a \in auto' /\ a.seat = timer /\ a.card = c BY <3>2, <3>3
    <3>. QED BY <2>1, <2>2, <3>4
  <2>3. CASE timer # game.picker BY <2>1, <2>3 DEF ClockInv, TurnIsTimed, Gone
  <2>. QED BY <2>2, <2>3
<1>5. ASSUME NEW a \in auto, AutoPickLands(a)
      PROVE \/ timer' = game'.picker
            \/ \E b \in auto' : b.seat = game'.picker /\ b.card \in Cards \ game'.cards
  <2>. SUFFICES ASSUME timer' # game'.picker
                PROVE \E b \in auto' : b.seat = game'.picker /\ b.card \in Cards \ game'.cards
    OBVIOUS
  <2>1. /\ ~(a.seat \notin game.removed /\ CanPickCard(game, a.seat, a.card))
        /\ game' = game /\ timer' = timer /\ auto' = auto \ {a}
    BY <1>5 DEF AutoPickLands
  <2>2. PICK b \in auto : b.seat = game.picker /\ b.card \in Cards \ game.cards
    BY <2>1 DEF ClockInv, TurnIsTimed, Gone
  <2>3. b # a BY <2>1, <2>2 DEF CanPickCard, PicksPending, Gone
  <2>. QED BY <2>1, <2>2, <2>3
<1>. QED BY <1>1, <1>2, <1>3, <1>4, <1>5 DEF ClockNext

LEMMA ClockInvAlways == ClockSpec => []ClockInv
<1>1. ClockInit => ClockInv
  <2>. SUFFICES ASSUME ClockInit PROVE ClockInv OBVIOUS
  <2>1. TypeOK BY InitTyped DEF ClockInit
  <2>2. ~PicksPending(game) BY DEF ClockInit, Init, NewGame, PicksPending
  <2>3. ClockTyped BY DEF ClockInit, ClockTyped, SeatOrNone
  <2>. QED BY <2>1, <2>2, <2>3 DEF ClockInv, PickGoesOn, TurnIsTimed
<1>2. ClockInv /\ [ClockNext]_clock => ClockInv'
  <2>. SUFFICES ASSUME ClockInv, [ClockNext]_clock PROVE ClockInv' OBVIOUS
  <2>1. CASE ClockNext
    <3>1. Next \/ UNCHANGED game BY <2>1, ClockOnlyPicks DEF ClockInv
    <3>2. TypeOK' BY <3>1, NextTyped DEF ClockInv, TypeOK
    <3>3. PickGoesOn(game') BY <3>1, PickStep DEF ClockInv
    <3>4. PickGoesOn(game)' BY <3>3 DEF PickGoesOn, PicksPending
    <3>5. ClockTyped' BY <2>1, <3>2, ClockTypedStep DEF ClockInv
    <3>6. TurnIsTimed' BY <2>1, TimedStep
    <3>. QED BY <3>2, <3>4, <3>5, <3>6 DEF ClockInv
  <2>2. CASE UNCHANGED clock
    BY <2>2 DEF clock, ClockInv, TypeOK, PickGoesOn, PicksPending, ClockTyped, TurnIsTimed, Gone
  <2>. QED BY <2>1, <2>2
<1>. QED BY <1>1, <1>2, PTL DEF ClockSpec

\* With its clock the ceremony is an evening of the engine: what is proved of the table
\* holds of it, automatic picks included.
THEOREM TheClockPlaysByTheRules == ClockSpec => Spec
<1>1. ClockInit => Init BY DEF ClockInit
<1>2. ClockInv /\ [ClockNext]_clock => [Next]_game
  <2>. SUFFICES ASSUME ClockInv, [ClockNext]_clock PROVE Next \/ UNCHANGED game OBVIOUS
  <2>. QED BY ClockOnlyPicks DEF clock, ClockInv
<1>. QED BY <1>1, <1>2, ClockInvAlways, PTL DEF ClockSpec, Spec

\* As long as nobody is removed, a turn of the ceremony is never left without a clock:
\* the judge's refused clicks arm it again, fouls leave it alone, and a pick that comes
\* late finds either its own turn with its card still free, or a turn that is timed
\* (schedulePickTimer, role-distribution.ts; service.internal.ts:181-183).
THEOREM EveryTurnIsTimed == ClockSpec => []TurnIsTimed
<1>1. ClockInv => TurnIsTimed BY DEF ClockInv
<1>. QED BY <1>1, ClockInvAlways, PTL

\* A late automatic pick never takes another seat's turn: the table it chose on may
\* have moved on before it gets the lock, and is looked at again.
THEOREM LatePicksAreVoid == ClockSpec => LateAutoPickIsVoid
<1>. DEFINE Void == \A a \in auto \ auto' : game'.cards # game.cards => a.seat = game.picker
<1>1. [ClockNext]_clock => [Void]_clock
  <2>. SUFFICES ASSUME ClockNext, NEW a \in auto \ auto', game'.cards # game.cards
                PROVE a.seat = game.picker
    OBVIOUS
  <2>1. auto \subseteq auto' => FALSE OBVIOUS
  <2>2. ~Advance /\ ~Discipline /\ ~(\E s \in Seats, c \in Cards : Click(s, c))
    BY <2>1 DEF Advance, Discipline, Click
  <2>3. ~TimerFires BY <2>1 DEF TimerFires
  <2>4. PICK b \in auto : AutoPickLands(b) BY <2>2, <2>3 DEF ClockNext
  <2>5. b = a BY <2>4 DEF AutoPickLands
  <2>. QED BY <2>4, <2>5 DEF AutoPickLands, CanPickCard
<1>. QED BY <1>1, PTL DEF ClockSpec, LateAutoPickIsVoid
=============================================================================
