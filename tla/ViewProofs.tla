------------------------------ MODULE ViewProofs ------------------------------
(***************************************************************************)
(* What the browsers of a running game agree on with its service, at a     *)
(* table of any size, with any foul limits, any deals and any bounds.      *)
(***************************************************************************)
EXTENDS ViewProperties, CourtProofs

-----------------------------------------------------------------------------
(* Who has the floor.                                                      *)

\* The court's phases in which nobody speaks.
SilentPhases == CourtPhases \ {"DAY_SPEECH", "DAY_SHOOTOUT"}

\* A finished game is over, nobody holds the floor while the table votes, and
\* whoever holds it in the speeches is in play or says farewell.
Floor(g) ==
  /\ g.finished => g.phase = "GAME_OVER"
  /\ g.phase \in SilentPhases => g.speaker = NoSeat
  /\ g.phase \in {"DAY_SPEECH", "DAY_SHOOTOUT"} =>
       g.speaker \in Live(g) \cup {NoSeat, g.farewell}

FloorInv == Floor(game)

SameFloor(g, h) ==
  /\ h.finished = g.finished /\ h.phase = g.phase /\ h.speaker = g.speaker
  /\ h.farewell = g.farewell /\ h.alive = g.alive /\ h.removed = g.removed

LEMMA FloorOfSame ==
  ASSUME NEW g, NEW h, SameFloor(g, h), Floor(g)
  PROVE Floor(h)
<1>1. Live(h) = Live(g) BY DEF SameFloor, Live
<1>. QED BY <1>1 DEF SameFloor, Floor

LEMMA OverFloor ==
  ASSUME NEW g, g.phase = "GAME_OVER"
  PROVE Floor(g)
BY DEF Floor, SilentPhases, CourtPhases

\* What leaving a phase makes of the table, on the way to phase to.
Yields(g, h, to) ==
  /\ h.finished = g.finished
  /\ g.phase = "GAME_OVER" => to = "GAME_OVER"
  /\ to \in SilentPhases => h.speaker = NoSeat
  /\ to = "DAY_SHOOTOUT" => h.speaker \in Live(h)

LEMMA VoteYields ==
  ASSUME NEW g \in GameState, g.phase = "DAY_VOTE", Court(g, g.phase)
  PROVE Yields(g, LeaveVote(g), NextPhase(LeaveVote(g)))
<1>. DEFINE chosen == ResolveVote(g)
            tie == FindTiedSeats(g)
            h == LeaveVote(g)
<1>1. g.tied = <<>> /\ g.lastWord = <<>> /\ Len(<<>>) = 0 BY DEF Court, TiePhases
<1>2. Voted(g) \subseteq Live(g) BY VotedStand DEF BallotPhases
<1>3. CASE g.disqualified \/ (chosen = NoSeat /\ tie = <<>>)
  <2>1. h = Acquit(g) \/ h = [g EXCEPT !.votes = NoVotes, !.nominations = <<>>]
    BY <1>3 DEF LeaveVote
  <2>. HIDE DEF h
  <2>2. h.phase = "DAY_VOTE" /\ h.lastWord = <<>> /\ h.tied = <<>> /\ h.finished = g.finished
    BY <1>1, <2>1 DEF Acquit, GameState
  <2>3. NextPhase(h) = "NIGHT_MAFIA" BY <1>1, <2>2 DEF NextPhase
  <2>. QED BY <2>2, <2>3 DEF h, Yields, SilentPhases, CourtPhases
<1>4. CASE ~g.disqualified /\ chosen # NoSeat
  <2>1. h = [Condemn(g, <<chosen>>) EXCEPT !.nominations = <<>>] BY <1>4 DEF LeaveVote
  <2>. HIDE DEF h, chosen
  <2>2. h.phase = "DAY_VOTE" /\ h.lastWord = <<chosen>> /\ h.finished = g.finished
    BY <2>1 DEF Condemn, KillSeats, GameState
  <2>3. NextPhase(h) = "DAY_LAST_WORD" BY <2>2 DEF NextPhase
  <2>. QED BY <2>2, <2>3 DEF h, Yields, SilentPhases, CourtPhases
<1>5. CASE ~g.disqualified /\ chosen = NoSeat /\ tie # <<>>
  <2>1. h = OpenRunoff(g, tie) BY <1>5 DEF LeaveVote
  <2>2. tie \in Seq(Seats) /\ Among(tie, Voted(g)) /\ Len(tie) >= 2
    BY <1>5, CountedWereVoted
  <2>. HIDE DEF h, tie
  <2>3. /\ h.phase = "DAY_VOTE" /\ h.lastWord = <<>> /\ h.tied = tie
        /\ h.finished = g.finished /\ h.speaker = tie[1]
        /\ h.alive = g.alive /\ h.removed = g.removed
    BY <1>1, <2>1 DEF OpenRunoff, GameState
  <2>4. NextPhase(h) = "DAY_SHOOTOUT" BY <2>2, <2>3 DEF NextPhase
  <2>5. tie[1] \in Live(g)
    <3>1. 1 \in DOMAIN tie BY <2>2
    <3>. QED BY <1>2, <2>2, <3>1 DEF Among
  <2>6. Live(h) = Live(g) BY <2>3 DEF Live
  <2>. QED BY <2>3, <2>4, <2>5, <2>6 DEF h, Yields, SilentPhases, CourtPhases
<1>. QED BY <1>3, <1>4, <1>5 DEF GameState

LEMMA RevoteYields ==
  ASSUME NEW g \in GameState, g.phase = "DAY_REVOTE", Court(g, g.phase), Floor(g)
  PROVE Yields(g, LeaveRevote(g), NextPhase(LeaveRevote(g)))
<1>. DEFINE chosen == ResolveVote(g)
            tie == FindTiedSeats(g)
            counted == [g EXCEPT !.shootoutIdx = 0]
            h == LeaveRevote(g)
<1>1. g.lastWord = <<>> /\ g.speaker = NoSeat
  BY DEF Court, Floor, SilentPhases, CourtPhases
<1>2. counted \in GameState BY DEF GameState
<1>3. /\ counted.phase = "DAY_REVOTE" /\ counted.lastWord = <<>>
      /\ counted.speaker = NoSeat /\ counted.finished = g.finished
  BY <1>1 DEF GameState
<1>. HIDE DEF counted, tie
<1>4. CASE ~g.disqualified /\ chosen # NoSeat
  <2>1. h = [Condemn(counted, <<chosen>>) EXCEPT !.nominations = <<>>, !.tied = <<>>]
    BY <1>4 DEF LeaveRevote, counted
  <2>. HIDE DEF h, chosen
  <2>2. h.phase = "DAY_REVOTE" /\ h.lastWord = <<chosen>> /\ h.finished = g.finished
    BY <1>2, <1>3, <2>1 DEF Condemn, KillSeats, GameState
  <2>3. NextPhase(h) = "DAY_LAST_WORD" BY <2>2 DEF NextPhase
  <2>. QED BY <2>2, <2>3 DEF h, Yields, SilentPhases, CourtPhases
<1>5. CASE g.disqualified \/ chosen = NoSeat
  <2>1. h = Acquit(counted) \/ h = [Acquit(counted) EXCEPT !.tied = tie, !.lift = NoBallots]
    BY <1>5 DEF LeaveRevote, counted, tie
  <2>. HIDE DEF h
  <2>2. /\ h.phase = "DAY_REVOTE" /\ h.lastWord = <<>> /\ h.speaker = NoSeat
        /\ h.finished = g.finished
    BY <1>2, <1>3, <2>1 DEF Acquit, GameState
  <2>3. NextPhase(h) \in {"DAY_LIFT_VOTE", "NIGHT_MAFIA"} BY <2>2 DEF NextPhase
  <2>. QED BY <2>2, <2>3 DEF h, Yields
<1>. QED BY <1>4, <1>5 DEF GameState

LEMMA LiftVoteYields ==
  ASSUME NEW g \in GameState, g.phase = "DAY_LIFT_VOTE", Court(g, g.phase)
  PROVE Yields(g, LeaveLiftVote(g), NextPhase(LeaveLiftVote(g)))
<1>. DEFINE h == LeaveLiftVote(g)
            closed == [g EXCEPT !.lift = NoBallots, !.tied = <<>>]
<1>1. g.lastWord = <<>> BY DEF Court
<1>2. closed.phase = "DAY_LIFT_VOTE" /\ closed.lastWord = <<>> /\ closed.finished = g.finished
  BY <1>1 DEF GameState
<1>3. closed \in GameState BY TableFacts DEF GameState
<1>. DEFINE c == Condemn(closed, g.tied)
            forfeit == c.multiKill \/ LiftForfeitsBestMove(g)
<1>4. h = closed \/ h = [c EXCEPT !.multiKill = forfeit] BY DEF LeaveLiftVote
<1>. HIDE DEF h, forfeit, closed
<1>5. h.phase = "DAY_LIFT_VOTE" /\ h.finished = g.finished
  <2>1. c.phase = "DAY_LIFT_VOTE" /\ c.finished = g.finished
    BY <1>2, <1>3 DEF Condemn, KillSeats, GameState
  <2>2. [c EXCEPT !.multiKill = forfeit].phase = c.phase
        /\ [c EXCEPT !.multiKill = forfeit].finished = c.finished
    BY <1>3 DEF Condemn, KillSeats, GameState
  <2>. QED BY <1>2, <1>4, <2>1, <2>2
<1>6. NextPhase(h) \in {"DAY_LAST_WORD", "NIGHT_MAFIA"} BY <1>5 DEF NextPhase
<1>. QED BY <1>5, <1>6 DEF h, Yields, SilentPhases, CourtPhases

LEMMA IntroYields ==
  ASSUME NEW g \in GameState, g.phase = "DAY_VOTE_INTRO", Floor(g)
  PROVE Yields(g, Resolve(g), NextPhase(Leave(g)))
<1>. DEFINE to == NextPhase(g)
            h == SettleIntro(g, to)
<1>1. Leave(g) = g /\ Resolve(g) = h BY DEF Leave, Resolve
<1>2. to \in {"NIGHT_MAFIA", "DAY_LAST_WORD", "DAY_VOTE"} BY DEF NextPhase
<1>3. g.speaker = NoSeat BY DEF Floor, SilentPhases, CourtPhases
<1>. HIDE DEF to
<1>4. to = "DAY_VOTE" => h = g BY DEF SettleIntro
<1>5. h.finished = g.finished BY DEF SettleIntro, Acquit, Condemn, KillSeats, GameState
<1>. HIDE DEF h
<1>. QED BY <1>1, <1>2, <1>3, <1>4, <1>5 DEF to, Yields, SilentPhases, CourtPhases

LEMMA SpeechYields ==
  ASSUME NEW g \in GameState, g.phase = "DAY_SPEECH"
  PROVE Yields(g, LeaveSpeech(g), NextPhase(LeaveSpeech(g)))
<1>. DEFINE h == LeaveSpeech(g)
            quiet == [g EXCEPT !.spoken = {}, !.speaker = NoSeat]
<1>1. /\ quiet.phase = "DAY_SPEECH" /\ quiet.speaker = NoSeat
      /\ quiet.finished = g.finished /\ quiet \in GameState
  BY TableFacts DEF GameState
<1>2. h = quiet \/ h = Acquit(quiet) BY DEF LeaveSpeech
<1>. HIDE DEF h, quiet
<1>3. h.phase = "DAY_SPEECH" /\ h.speaker = NoSeat /\ h.finished = g.finished
  BY <1>1, <1>2 DEF Acquit, GameState
<1>4. NextPhase(h) \in {"DAY_VOTE_INTRO", "NIGHT_MAFIA"} BY <1>3 DEF NextPhase
<1>. QED BY <1>3, <1>4 DEF h, Yields

LEMMA ResolveYields ==
  ASSUME NEW g \in GameState, Court(g, g.phase), Floor(g)
  PROVE Yields(g, Resolve(g), NextPhase(Leave(g)))
<1>1. CASE g.phase = "DAY_VOTE_INTRO" BY <1>1, IntroYields
<1>2. CASE g.phase = "DAY_VOTE" BY <1>2, VoteYields DEF Resolve, Leave
<1>3. CASE g.phase = "DAY_REVOTE" BY <1>3, RevoteYields DEF Resolve, Leave
<1>4. CASE g.phase = "DAY_LIFT_VOTE" BY <1>4, LiftVoteYields DEF Resolve, Leave
<1>5. CASE g.phase = "DAY_SPEECH" BY <1>5, SpeechYields DEF Resolve, Leave
<1>6. CASE g.phase = "DAY_SHOOTOUT"
  <2>. DEFINE h == [g EXCEPT !.speaker = NoSeat, !.shootoutIdx = 0]
  <2>1. Leave(g) = h /\ Resolve(g) = h BY <1>6 DEF Resolve, Leave
  <2>2. h.phase = "DAY_SHOOTOUT" /\ h.speaker = NoSeat /\ h.finished = g.finished
    BY <1>6 DEF GameState
  <2>. HIDE DEF h
  <2>3. NextPhase(h) = "DAY_REVOTE" BY <2>2 DEF NextPhase
  <2>. QED BY <1>6, <2>1, <2>2, <2>3 DEF Yields
<1>7. CASE g.phase \in {"DAY_LAST_WORD", "NIGHT_SHERIFF", "MORNING_ANNOUNCEMENT"}
  <2>. DEFINE h == Leave(g)
  <2>1. Resolve(g) = h BY <1>7 DEF Resolve
  <2>2. h.phase = g.phase /\ h.finished = g.finished
    BY <1>7 DEF Leave, LeaveNight, LeaveMorning, KillSeats, GameState
  <2>. HIDE DEF h
  <2>3. NextPhase(h) \in {"NIGHT_MAFIA", "MORNING_ANNOUNCEMENT", "DAY_SPEECH"}
    BY <1>7, <2>2 DEF NextPhase
  <2>. QED BY <1>7, <2>1, <2>2, <2>3 DEF h, Yields, SilentPhases, CourtPhases
<1>8. CASE g.phase \in {"PLAYER_INTRODUCTION", "ROLE_DISTRIBUTION", "NIGHT_ZERO",
                        "NIGHT_MAFIA", "NIGHT_DON", "GAME_OVER"}
  <2>1. Leave(g) = g /\ Resolve(g) = g BY <1>8 DEF Resolve, Leave
  <2>2. /\ NextPhase(g) \in {"ROLE_DISTRIBUTION", "NIGHT_ZERO", "DAY_SPEECH", "NIGHT_DON",
                             "NIGHT_SHERIFF", "GAME_OVER"}
        /\ g.phase = "GAME_OVER" => NextPhase(g) = "GAME_OVER"
    BY <1>8 DEF NextPhase
  <2>. QED BY <2>1, <2>2 DEF Yields, SilentPhases, CourtPhases
<1>. QED BY <1>1, <1>2, <1>3, <1>4, <1>5, <1>6, <1>7, <1>8 DEF GameState, Phases

LEMMA SpeakersLive ==
  ASSUME NEW g \in GameState
  PROVE /\ DayStartSeat(g) \in Live(g) \cup {NoSeat}
        /\ \A from \in 1..(SeatCount + 1) : NextSpeakerSeat(g, from) \in Live(g) \cup {NoSeat}
<1>1. g.day \in Nat /\ Live(g) \in SUBSET Seats BY DEF GameState, Live
<1>2. (g.day % SeatCount) + 1 \in 1..(SeatCount + 1) BY <1>1, TableFacts
<1>3. DayStartSeat(g) \in Live(g) \cup {NoSeat}
  BY <1>1, <1>2, FirstFromFinds DEF DayStartSeat
<1>4. ASSUME NEW from \in 1..(SeatCount + 1)
      PROVE NextSpeakerSeat(g, from) \in Live(g) \cup {NoSeat}
  <2>. DEFINE S == {s \in Live(g) \ g.spoken : g.fouls[s] < FoulMute}
  <2>1. S \in SUBSET Seats /\ S \subseteq Live(g) BY <1>1
  <2>2. NextSpeakerSeat(g, from) = FirstFrom(S, from) BY DEF NextSpeakerSeat
  <2>. HIDE DEF S
  <2>. QED BY <2>1, <2>2, FirstFromFinds
<1>. QED BY <1>3, <1>4

LEMMA AdvanceFloor ==
  ASSUME NEW g \in GameState, Court(g, g.phase), Floor(g)
  PROVE Floor(ApplyAdvancePhase(g))
<1>. DEFINE h == Resolve(g)
            to == NextPhase(Leave(g))
            e == Enter(g, h, to)
<1>1. h \in GameState /\ Yields(g, h, to) BY ResolveTyped, ResolveYields
<1>2. DayStartSeat(h) \in Live(h) \cup {NoSeat} BY <1>1, SpeakersLive
<1>. HIDE DEF h, to
<1>3. /\ e.phase = to /\ e.finished = h.finished /\ e.alive = h.alive /\ e.removed = h.removed
      /\ e.farewell = IF to = "DAY_SPEECH" THEN g.victim ELSE h.farewell
      /\ e.speaker = IF to # "DAY_SPEECH" THEN h.speaker
                     ELSE IF g.victim # NoSeat THEN g.victim ELSE DayStartSeat(h)
  BY <1>1 DEF Enter, GameState
<1>4. Live(e) = Live(h) BY <1>3 DEF Live
<1>. HIDE DEF e
<1>5. Floor(e)
  <2>1. e.finished => e.phase = "GAME_OVER" BY <1>1, <1>3 DEF Yields, Floor
  <2>2. e.phase \in SilentPhases => e.speaker = NoSeat
    BY <1>1, <1>3 DEF Yields, SilentPhases
  <2>3. e.phase \in {"DAY_SPEECH", "DAY_SHOOTOUT"} =>
          e.speaker \in Live(e) \cup {NoSeat, e.farewell}
    BY <1>1, <1>2, <1>3, <1>4 DEF Yields
  <2>. QED BY <2>1, <2>2, <2>3 DEF Floor
<1>6. Floor(Finish(h))
  <2>1. Finish(h).phase = "GAME_OVER" BY <1>1, FinishTyped DEF Finish, GameState
  <2>. QED BY <2>1, OverFloor
<1>. QED BY <1>5, <1>6 DEF ApplyAdvancePhase, h, to, e

LEMMA StepperFloor ==
  ASSUME NEW g \in GameState, Court(g, g.phase), Floor(g)
  PROVE Floor(ApplyNextSpeaker(g))
<1>. DEFINE h == ApplyNextSpeaker(g)
<1>1. CASE g.phase = "DAY_SPEECH" /\ g.speaker # NoSeat
  <2>. DEFINE next == AfterSpeech(g)
              heard == IF g.farewell = g.speaker THEN g.spoken ELSE g.spoken \cup {g.speaker}
              leaving == IF g.farewell = g.speaker THEN NoSeat ELSE g.farewell
              q == [g EXCEPT !.spoken = @ \cup {g.speaker}]
  <2>1. h = [g EXCEPT !.spoken = heard, !.farewell = leaving, !.speaker = next,
                      !.nominator = NoSeat]
    BY <1>1 DEF ApplyNextSpeaker, BallotPhases
  <2>2. next \in Live(g) \cup {NoSeat}
    <3>1. g.speaker \in Seats BY <1>1 DEF GameState, SeatOrNone
    <3>2. q \in GameState /\ q.alive = g.alive /\ q.removed = g.removed
      BY <3>1 DEF GameState
    <3>3. g.speaker + 1 \in 1..(SeatCount + 1) BY <3>1, TableFacts DEF Seats
    <3>. HIDE DEF q
    <3>4. NextSpeakerSeat(q, g.speaker + 1) \in Live(q) \cup {NoSeat}
      BY <3>2, <3>3, SpeakersLive
    <3>5. Live(q) = Live(g) BY <3>2 DEF Live
    <3>. QED BY <3>4, <3>5, SpeakersLive DEF AfterSpeech, q
  <2>. HIDE DEF h, next, heard, leaving
  <2>3. /\ h.phase = "DAY_SPEECH" /\ h.finished = g.finished /\ h.speaker = next
        /\ h.alive = g.alive /\ h.removed = g.removed
    BY <1>1, <2>1 DEF GameState
  <2>4. Live(h) = Live(g) BY <2>3 DEF Live
  <2>. QED BY <1>1, <2>2, <2>3, <2>4 DEF h, Floor, SilentPhases, CourtPhases
<1>2. CASE g.phase = "DAY_SHOOTOUT" /\ g.shootoutIdx + 1 < Len(g.tied)
  <2>. DEFINE next == g.tied[g.shootoutIdx + 2]
  <2>1. h = [g EXCEPT !.shootoutIdx = @ + 1, !.speaker = next]
    BY <1>2 DEF ApplyNextSpeaker, BallotPhases
  <2>2. next \in Live(g)
    <3>1. g.tied \in Seq(Seats) /\ g.shootoutIdx \in Nat BY DEF GameState
    <3>2. g.shootoutIdx + 2 \in DOMAIN g.tied BY <1>2, <3>1
    <3>. QED BY <3>2 DEF Court, Lists, Among
  <2>. HIDE DEF h, next
  <2>3. /\ h.phase = "DAY_SHOOTOUT" /\ h.finished = g.finished /\ h.speaker = next
        /\ h.alive = g.alive /\ h.removed = g.removed
    BY <1>2, <2>1 DEF GameState
  <2>4. Live(h) = Live(g) BY <2>3 DEF Live
  <2>. QED BY <1>2, <2>2, <2>3, <2>4 DEF h, Floor, SilentPhases, CourtPhases
<1>3. CASE g.phase = "DAY_LAST_WORD"
  <2>1. h.phase = "DAY_LAST_WORD" /\ h.finished = g.finished
    BY <1>3 DEF ApplyNextSpeaker, BallotPhases, GameState
  <2>. HIDE DEF h
  <2>. QED BY <1>3, <2>1 DEF h, Floor, SilentPhases, CourtPhases
<1>4. CASE g.phase \in BallotPhases
  <2>1. SameFloor(g, h) BY <1>4 DEF ApplyNextSpeaker, BallotPhases, GameState, SameFloor
  <2>. HIDE DEF h
  <2>. QED BY <2>1, FloorOfSame DEF h
<1>5. CASE h = g BY <1>5
<1>. QED BY <1>1, <1>2, <1>3, <1>4, <1>5 DEF ApplyNextSpeaker, BallotPhases

LEMMA StrikeFloor ==
  ASSUME NEW g \in GameState, NEW s \in Seats, Floor(g)
  PROVE Floor(ApplyJudgeRemove(g, s))
<1>. DEFINE h == StrikeOut(g, s)
<1>1. /\ h.phase = g.phase /\ h.finished = g.finished
      /\ h.alive = g.alive \ {s} /\ h.removed = g.removed \cup {s}
      /\ h.speaker = (IF g.speaker = s THEN NoSeat ELSE g.speaker)
      /\ h.farewell = (IF g.farewell = s THEN NoSeat ELSE g.farewell)
  BY DEF StrikeOut, GameState
<1>2. h \in GameState BY StrikeOutTyped
<1>. HIDE DEF h
<1>3. Live(h) = Live(g) \ {s} BY <1>1 DEF Live
<1>4. Floor(h) BY <1>1, <1>3 DEF Floor
<1>5. Floor(Finish(h))
  <2>1. Finish(h).phase = "GAME_OVER" BY <1>2 DEF Finish, GameState
  <2>. QED BY <2>1, OverFloor
<1>. QED BY <1>4, <1>5 DEF ApplyJudgeRemove, h

LEMMA FoulFloor ==
  ASSUME NEW g \in GameState, NEW s \in Seats, g.fouls[s] < FoulRemove, Floor(g)
  PROVE Floor(AddFoul(g, s))
<1>. DEFINE fouled == [g EXCEPT !.fouls[s] = @ + 1]
<1>1. fouled \in GameState
  <2>1. g.fouls[s] + 1 \in 0..FoulRemove BY RulesAssumption DEF GameState
  <2>. QED BY <2>1 DEF GameState
<1>2. SameFloor(g, fouled) BY DEF SameFloor, GameState
<1>. HIDE DEF fouled
<1>3. Floor(fouled) BY <1>2, FloorOfSame
<1>4. Floor(ApplyJudgeRemove(fouled, s)) BY <1>1, <1>3, StrikeFloor
<1>. QED BY <1>3, <1>4 DEF AddFoul, fouled

\* No other operation gives or takes the floor.
LEMMA OthersFloor ==
  ASSUME NEW g \in GameState, NEW v \in Seats, NEW c, NEW t, NEW ballot
  PROVE /\ SameFloor(g, ApplyNominate(g, t)) /\ SameFloor(g, ApplyJudgeUnnominate(g, t))
        /\ SameFloor(g, ApplyJudgeUnfoul(g, v)) /\ SameFloor(g, ApplyCastVote(g, v, t))
        /\ SameFloor(g, ApplyLiftAllVote(g, v, ballot))
        /\ SameFloor(g, ApplyBestMoveGuess(g, v)) /\ SameFloor(g, ApplyMafiaTarget(g, v, t))
        /\ SameFloor(g, ApplyDonCheck(g, v)) /\ SameFloor(g, ApplySheriffCheck(g, v))
        /\ SameFloor(g, ApplyRoleCardPick(g, v, c))
<1>1. SameFloor(g, ApplyNominate(g, t)) BY DEF SameFloor, ApplyNominate, GameState
<1>2. SameFloor(g, ApplyJudgeUnnominate(g, t))
  BY DEF SameFloor, ApplyJudgeUnnominate, GameState
<1>3. SameFloor(g, ApplyJudgeUnfoul(g, v)) BY DEF SameFloor, ApplyJudgeUnfoul, GameState
<1>4. SameFloor(g, ApplyCastVote(g, v, t)) BY DEF SameFloor, ApplyCastVote, GameState
<1>5. SameFloor(g, ApplyLiftAllVote(g, v, ballot))
  BY DEF SameFloor, ApplyLiftAllVote, GameState
<1>6. SameFloor(g, ApplyBestMoveGuess(g, v)) BY DEF SameFloor, ApplyBestMoveGuess, GameState
<1>7. SameFloor(g, ApplyMafiaTarget(g, v, t)) BY DEF SameFloor, ApplyMafiaTarget, GameState
<1>8. SameFloor(g, ApplyDonCheck(g, v)) BY DEF SameFloor, ApplyDonCheck, GameState
<1>9. SameFloor(g, ApplySheriffCheck(g, v)) BY DEF SameFloor, ApplySheriffCheck, GameState
<1>10. SameFloor(g, ApplyRoleCardPick(g, v, c))
  BY DEF SameFloor, ApplyRoleCardPick, GameState
<1>. QED BY <1>1, <1>2, <1>3, <1>4, <1>5, <1>6, <1>7, <1>8, <1>9, <1>10

LEMMA InitFloor == Init => FloorInv
<1>1. SUFFICES ASSUME NEW deal \in Deals, game = NewGame(deal) PROVE FloorInv
  BY DEF Init
<1>2. game.phase = "PLAYER_INTRODUCTION" /\ game.finished = FALSE BY <1>1 DEF NewGame
<1>. QED BY <1>2 DEF FloorInv, Floor, SilentPhases, CourtPhases

LEMMA FloorStep ==
  ASSUME TypeOK, CourtInv, FloorInv, [Next]_game
  PROVE FloorInv'
<1>. SUFFICES Floor(game')
  BY DEF FloorInv
<1>1. game \in GameState /\ Court(game, game.phase) /\ Floor(game)
  BY DEF TypeOK, CourtInv, FloorInv
<1>2. CASE UNCHANGED game BY <1>1, <1>2
<1>3. CASE JudgeAdvancePhase BY <1>1, <1>3, AdvanceFloor DEF JudgeAdvancePhase
<1>4. CASE JudgeAdvanceSpeaker
  <2>. DEFINE h == ApplyNextSpeaker(game)
  <2>1. /\ h \in GameState /\ Court(h, game.phase) /\ Floor(h) /\ h.phase = game.phase
    <3>1. h.phase = game.phase
      BY <1>1 DEF ApplyNextSpeaker, BallotPhases, GameState
    <3>. QED BY <1>1, <3>1, NextSpeakerTyped, StepperCourt, StepperFloor
  <2>2. game' = h \/ game' = ApplyAdvancePhase(h) BY <1>4 DEF JudgeAdvanceSpeaker
  <2>. HIDE DEF h
  <2>. QED BY <2>1, <2>2, AdvanceFloor
<1>5. CASE JudgeLeave
  <2>1. game'.phase = "GAME_OVER" BY <1>1, <1>5 DEF JudgeLeave, ApplyJudgeEndGame, GameState
  <2>. QED BY <2>1, OverFloor
<1>6. ASSUME NEW s \in Seats, JudgeFoul(s) \/ SayOutOfTurn(s) PROVE Floor(game')
  BY <1>1, <1>6, FoulFloor
  DEF JudgeFoul, CanFoul, ApplyJudgeFoul, SayOutOfTurn, CanSayOutOfTurn, ApplyOutOfTurn
<1>7. ASSUME NEW s \in Seats, JudgeRemove(s) \/ PlayerLeave(s) PROVE Floor(game')
  BY <1>1, <1>7, StrikeFloor DEF JudgeRemove, PlayerLeave
<1>8. ASSUME NEW s \in Seats, JudgeNominate(s) \/ JudgeUnnominate(s) \/ JudgeUnfoul(s)
      PROVE Floor(game')
  BY <1>1, <1>8, OthersFloor, FloorOfSame DEF JudgeNominate, JudgeUnnominate, JudgeUnfoul
<1>9. ASSUME NEW s \in Seats, NEW t \in Seats,
             CastVote(s, t) \/ ChooseMafiaTarget(s, t) \/ CheckAsDon(s, t) \/ CheckAsSheriff(s, t)
      PROVE Floor(game')
  BY <1>1, <1>9, OthersFloor, FloorOfSame
  DEF CastVote, ChooseMafiaTarget, CheckAsDon, CheckAsSheriff
<1>10. ASSUME NEW s \in Seats,
              \/ \E ballot \in {"yes", "no"} : CastLiftAllVote(s, ballot)
              \/ \E guess \in SUBSET Seats : CastBestMoveGuess(s, guess)
              \/ \E c \in Cards : PickRoleCard(s, c)
       PROVE Floor(game')
  BY <1>1, <1>10, OthersFloor, FloorOfSame
  DEF CastLiftAllVote, CastBestMoveGuess, PickRoleCard
<1>. QED
  BY <1>2, <1>3, <1>4, <1>5, <1>6, <1>7, <1>8, <1>9, <1>10 DEF Next, JudgeStep, PlayerStep

LEMMA FloorAlways == Spec => [](TypeOK /\ CourtInv /\ FloorInv)
<1>1. TypeOK /\ CourtInv /\ FloorInv /\ [Next]_game => FloorInv' BY FloorStep
<1>. QED BY <1>1, InitFloor, CourtAlways, PTL DEF Spec
-----------------------------------------------------------------------------
(* The projection.                                                         *)

LEMMA ShownTable ==
  ASSUME NEW g, NEW v
  PROVE /\ ProjectFor(g, v).phase = g.phase /\ ProjectFor(g, v).finished = g.finished
        /\ ProjectFor(g, v).day = g.day /\ ProjectFor(g, v).alive = g.alive
        /\ ProjectFor(g, v).fouls = g.fouls /\ ProjectFor(g, v).speaker = g.speaker
        /\ ProjectFor(g, v).farewell = g.farewell /\ ProjectFor(g, v).votes = g.votes
        /\ ProjectFor(g, v).bestMove = g.bestMove
        /\ ProjectFor(g, v).picker = g.picker /\ ProjectFor(g, v).cards = g.cards
BY DEF ProjectFor

LEMMA ShownRoles ==
  ASSUME NEW g, NEW v, NEW s \in Seats
  PROVE ProjectFor(g, v).role[s] = IF ShouldRevealRole(g, s, v) THEN g.role[s] ELSE "hidden"
BY DEF ProjectFor

\* Before its last words and after them, the table shows nobody saying one.
LEMMA NoLastWordShown ==
  ASSUME TypeOK, CourtInv, game.phase \notin {"DAY_LAST_WORD", "GAME_OVER"}, NEW v
  PROVE ProjectFor(game, v).lastWord = NoSeat
<1>1. game.lastWord = <<>> /\ game.lastWordIdx \in Nat /\ Len(<<>>) = 0
  BY DEF TypeOK, CourtInv, Court, GameState
<1>2. ProjectFor(game, v).lastWord =
        IF game.lastWordIdx < Len(game.lastWord) THEN game.lastWord[game.lastWordIdx + 1] ELSE NoSeat
  BY DEF ProjectFor
<1>3. ~(game.lastWordIdx < Len(game.lastWord)) BY <1>1
<1>. QED BY <1>2, <1>3

-----------------------------------------------------------------------------
(* Voices and faces.                                                       *)

LEMMA VoiceByDay ==
  ASSUME TypeOK, CourtInv, FloorInv, game.phase \in CourtPhases,
         game.farewell \in {NoSeat, game.speaker}, NEW v \in Live(game)
  PROVE Heard(game, v, FALSE, NoSeat, FALSE) =
          (IF game.phase \in {"DAY_SPEECH", "DAY_SHOOTOUT"}
           THEN {game.speaker} \ (Gone \cup {NoSeat, v}) ELSE {})
<1>. DEFINE p == ProjectFor(game, v)
<1>1. /\ p.phase = game.phase /\ p.finished = game.finished /\ p.alive = game.alive
      /\ p.speaker = game.speaker /\ p.farewell = game.farewell
  BY ShownTable
<1>2. p.lastWord = NoSeat BY NoLastWordShown DEF CourtPhases
<1>. HIDE DEF p
<1>3. /\ game.finished = FALSE
      /\ game.phase \notin {"DAY_SPEECH", "DAY_SHOOTOUT"} => game.speaker = NoSeat
      /\ game.phase \in {"DAY_SPEECH", "DAY_SHOOTOUT"} =>
           game.speaker \in Live(game) \cup {NoSeat, game.farewell}
      /\ game.speaker \in Seats \cup {NoSeat}
  BY DEF FloorInv, Floor, SilentPhases, CourtPhases, TypeOK, GameState, SeatOrNone
<1>4. v \in Seats /\ v \in game.alive /\ NoSeat \notin Seats /\ Live(game) \subseteq game.alive
  BY DEF Live, TypeOK, GameState, Seats, NoSeat
<1>5. game.phase \in DayPhases /\ game.phase \notin {"GAME_OVER", "PLAYER_INTRODUCTION"}
  BY DEF DayPhases, CourtPhases
<1>6. ASSUME NEW t \in Seats
      PROVE ShouldHearParticipantAudio(p, v, t, FALSE, NoSeat, FALSE) <=>
              /\ t # v /\ t = game.speaker
              /\ game.phase \in {"DAY_SPEECH", "DAY_SHOOTOUT"}
  <2>1. t # Judge /\ t # NoSeat /\ v # Judge BY <1>4 DEF Judge
  <2>2. ShouldHearParticipantAudio(p, v, t, FALSE, NoSeat, FALSE) <=>
          /\ t # v
          /\ t = game.farewell \/ (t \in game.alive /\ t # game.farewell /\ t = game.speaker)
    BY <1>1, <1>2, <1>3, <1>4, <1>5, <2>1 DEF ShouldHearParticipantAudio, Present
  <2>. QED BY <1>3, <1>4, <2>1, <2>2
<1>7. Heard(game, v, FALSE, NoSeat, FALSE) =
        {t \in Seats : t \notin game.removed
                      /\ ShouldHearParticipantAudio(p, v, t, FALSE, NoSeat, FALSE)}
  BY DEF Heard, ComputeCanPublish, p
<1>. QED BY <1>3, <1>4, <1>6, <1>7 DEF Gone

LEMMA DarkNight ==
  ASSUME TypeOK, CourtInv, FloorInv, game.phase \in NightPhases \cup {"ROLE_DISTRIBUTION"},
         NEW v \in Live(game)
  PROVE /\ \A aside \in SeatOrNone : Heard(game, v, FALSE, aside, FALSE) \subseteq {game.farewell}
        /\ Seen(game, v, FALSE) \ {v, game.farewell} \subseteq
             (IF game.phase = "NIGHT_ZERO" /\ v \in LiveBlack(game) THEN LiveBlack(game) ELSE {})
<1>. DEFINE p == ProjectFor(game, v)
<1>1. /\ p.phase = game.phase /\ p.finished = game.finished /\ p.alive = game.alive
      /\ p.speaker = game.speaker /\ p.farewell = game.farewell
      /\ \A s \in Seats : p.role[s] = IF ShouldRevealRole(game, s, v) THEN game.role[s] ELSE "hidden"
  BY ShownTable, ShownRoles
<1>2. p.lastWord = NoSeat BY NoLastWordShown DEF NightPhases
<1>. HIDE DEF p
<1>3. game.finished = FALSE
  BY DEF FloorInv, Floor, NightPhases, TypeOK, GameState
<1>4. v \in Seats /\ v \in game.alive /\ NoSeat \notin Seats
  BY DEF Live, TypeOK, GameState, Seats, NoSeat
<1>5. /\ game.phase \notin DayPhases
      /\ game.phase \notin {"GAME_OVER", "PLAYER_INTRODUCTION", "MORNING_ANNOUNCEMENT"}
  BY DEF DayPhases, CourtPhases, NightPhases
<1>6. \A t \in Seats : t # Judge /\ t # NoSeat BY <1>4 DEF Judge
<1>7. ASSUME NEW aside \in SeatOrNone, NEW t \in Seats,
             ShouldHearParticipantAudio(p, v, t, FALSE, aside, FALSE)
      PROVE t = game.farewell
  BY <1>1, <1>2, <1>3, <1>4, <1>5, <1>6, <1>7 DEF ShouldHearParticipantAudio, Present
<1>8. \A aside \in SeatOrNone : Heard(game, v, FALSE, aside, FALSE) \subseteq {game.farewell}
  BY <1>7 DEF Heard, p
<1>9. ASSUME NEW t \in Seats, t \notin game.removed, t \notin {v, game.farewell},
             ShouldShowParticipantMedia(p, v, t, FALSE)
      PROVE game.phase = "NIGHT_ZERO" /\ v \in LiveBlack(game) /\ t \in LiveBlack(game)
  <2>1. /\ t \in game.alive /\ game.phase = "NIGHT_ZERO"
        /\ p.role[v] \in BlackRoles /\ p.role[t] \in BlackRoles
    BY <1>1, <1>2, <1>3, <1>4, <1>5, <1>6, <1>9
    DEF ShouldShowParticipantMedia, DeadButSpeaking, Present
  <2>2. game.role[v] \in BlackRoles /\ game.role[t] \in BlackRoles
    BY <1>1, <1>4, <2>1 DEF BlackRoles
  <2>. QED BY <1>9, <2>1, <2>2 DEF LiveBlack, Live
<1>10. Seen(game, v, FALSE) \ {v, game.farewell} \subseteq
         (IF game.phase = "NIGHT_ZERO" /\ v \in LiveBlack(game) THEN LiveBlack(game) ELSE {})
  BY <1>9 DEF Seen, ComputeCanPublish, p
<1>. QED BY <1>8, <1>10

\* By day, with nobody speaking out of turn, those in play hear whoever has the
\* floor and nobody else, and nobody at all while the table votes
\* (media-visibility.ts:182-232).
THEOREM OneVoiceIsHeard == Spec => []OneVoiceByDay
<1>1. TypeOK /\ CourtInv /\ FloorInv => OneVoiceByDay BY VoiceByDay DEF OneVoiceByDay
<1>. QED BY <1>1, FloorAlways, PTL

\* While the table sleeps or picks its cards nobody in play hears or sees another
\* player, but for the black seats, who see each other in the first night
\* (media-visibility.ts:120-147, 182-232).
THEOREM NightIsDark == Spec => []TheNightIsDark
<1>1. TypeOK /\ CourtInv /\ FloorInv => TheNightIsDark BY DarkNight DEF TheNightIsDark
<1>. QED BY <1>1, FloorAlways, PTL
-----------------------------------------------------------------------------
(* Buttons.                                                                *)

LEMMA InControl ==
  ASSUME NEW kind, NEW on, NEW control
  PROVE control \in Control(kind, on) <=> \E x \in on : control = <<kind, x>>
BY DEF Control

LEMMA OnSeat ==
  ASSUME NEW p, NEW v, NEW control
  PROVE control \in SeatActions(p, v) <=>
          \/ /\ v = Judge /\ p.phase = "DAY_SPEECH" /\ p.speaker # NoSeat
             /\ p.farewell = NoSeat /\ ~p.locked
             /\ control \in Control("nominate", (p.alive \ {v}) \ ToSet(p.nominations))
          \/ /\ v \in p.alive /\ p.phase = "NIGHT_MAFIA" /\ MyRole(p, v) \in BlackRoles
             /\ p.myShot = NoSeat /\ control \in Control("shoot", p.alive \ {v})
             /\ ~(v = Judge /\ p.phase = "DAY_SPEECH")
          \/ /\ v \in p.alive /\ p.phase = "NIGHT_DON" /\ MyRole(p, v) = "don" /\ ~p.myCheck
             /\ control \in Control("checkAsDon", p.alive \ {v})
          \/ /\ v \in p.alive /\ p.phase = "NIGHT_SHERIFF" /\ MyRole(p, v) = "sheriff"
             /\ ~p.myCheck /\ control \in Control("checkAsSheriff", p.alive \ {v})
<1>1. CASE p.phase = "DAY_SPEECH" BY <1>1 DEF SeatActions, MayAct
<1>2. CASE p.phase = "NIGHT_MAFIA" BY <1>2 DEF SeatActions, MayAct
<1>3. CASE p.phase = "NIGHT_DON" BY <1>3 DEF SeatActions, MayAct
<1>4. CASE p.phase = "NIGHT_SHERIFF" BY <1>4 DEF SeatActions, MayAct
<1>5. CASE p.phase \notin {"DAY_SPEECH", "NIGHT_MAFIA", "NIGHT_DON", "NIGHT_SHERIFF"}
  BY <1>5 DEF SeatActions, MayAct
<1>. QED BY <1>1, <1>2, <1>3, <1>4, <1>5

\* The desktop offers what the tiles do, on the seat a button is about, and what
\* the panels do.
LEMMA OnDesk ==
  ASSUME NEW p, NEW v, NEW inActiveWindow, NEW expired, NEW control
  PROVE control \in DeskControls(p, v, inActiveWindow, expired) <=>
          \/ control \in SeatActions(p, v)
          \/ /\ TakenForAlive(p, control[2])
             /\ \/ control \in SelfMediaButtons(p, v, inActiveWindow)
                \/ v = Judge /\ control \in JudgeSeatControls(p)
          \/ control \in InfoTile(p, v, expired) \/ control \in CardWall(p, v)
          \/ v = Judge /\ control \in JudgeStepControls(p)
BY DEF DeskControls, SeatVideoTiles

\* The judge sees the table as it is.
LEMMA ShownToJudge ==
  ASSUME NEW g
  PROVE /\ ProjectFor(g, Judge).nominations = g.nominations
        /\ ProjectFor(g, Judge).locked = (g.nominator = g.speaker)
BY DEF ProjectFor, HideNominationList

LEMMA JudgeButtonsWork ==
  ASSUME NEW g \in GameState, Lists(g), NEW inActiveWindow, NEW expired
  PROVE DeskControls(ProjectFor(g, Judge), Judge, inActiveWindow, expired)
            \ (Steps \cup KnownRefusals(g, Judge))
          \subseteq Accepted(g, Judge)
<1>. DEFINE p == ProjectFor(g, Judge)
<1>1. /\ p.phase = g.phase /\ p.finished = g.finished /\ p.alive = g.alive
      /\ p.speaker = g.speaker /\ p.farewell = g.farewell /\ p.fouls = g.fouls
      /\ p.nominations = g.nominations /\ p.locked = (g.nominator = g.speaker)
  BY ShownTable, ShownToJudge
<1>. HIDE DEF p
<1>2. /\ Judge \notin Seats /\ Judge \notin g.alive /\ g.alive \subseteq Seats
      /\ Live(g) = g.alive /\ Nominees(g) \subseteq Seats /\ Judge = NoSeat
  <2>1. g.alive \in SUBSET Seats /\ g.nominations \in Seq(Seats) BY DEF GameState
  <2>2. Live(g) = g.alive BY DEF Lists, Live
  <2>3. Nominees(g) \subseteq Seats BY <2>1 DEF Nominees, ToSet
  <2>4. Judge \notin Seats BY DEF Judge, NoSeat, Seats
  <2>. QED BY <2>1, <2>2, <2>3, <2>4 DEF Judge
<1>3. SUFFICES ASSUME NEW control \in DeskControls(p, Judge, inActiveWindow, expired),
                      control \notin Steps
               PROVE control \in Accepted(g, Judge)
  BY DEF p
<1>4. control \notin InfoTile(p, Judge, expired) /\ control \notin CardWall(p, Judge)
  BY <1>2 DEF InfoTile, CardWall
<1>5. control \notin JudgeStepControls(p)
  BY <1>3 DEF JudgeStepControls, Steps, Control
<1>6. \/ control \in SeatActions(p, Judge) \/ control \in JudgeSeatControls(p)
      \/ control \in SelfMediaButtons(p, Judge, inActiveWindow)
  BY <1>3, <1>4, <1>5, OnDesk
<1>7. CASE control \in SeatActions(p, Judge)
  <2>1. /\ g.phase = "DAY_SPEECH" /\ g.speaker # NoSeat /\ g.farewell = NoSeat
        /\ g.nominator # g.speaker
        /\ control \in Control("nominate", (g.alive \ {Judge}) \ ToSet(g.nominations))
    BY <1>1, <1>2, <1>7, OnSeat
  <2>2. control \in Control("nominate", {t \in Seats : CanNominate(g, t)})
    BY <1>2, <2>1, InControl DEF CanNominate, Nominees
  <2>. QED BY <2>2 DEF Accepted
<1>8. CASE control \in SelfMediaButtons(p, Judge, inActiveWindow)
  BY <1>1, <1>2, <1>8 DEF SelfMediaButtons, MayAct
<1>9. CASE control \in JudgeSeatControls(p)
  <2>1. CanUnnominateOn(p) \subseteq {t \in Seats : CanUnnominate(g, t)}
    BY <1>1, <1>2 DEF CanUnnominateOn, CanUnnominate, Nominees
  <2>2. /\ {s \in Seats : p.fouls[s] < FoulRemove} = {s \in Seats : CanFoul(g, s)}
        /\ {s \in Seats : p.fouls[s] > 0} = {s \in Seats : CanUnfoul(g, s)}
    BY <1>1 DEF CanFoul, CanUnfoul
  <2>. QED BY <1>9, <2>1, <2>2, InControl DEF JudgeSeatControls, Accepted
<1>. QED BY <1>6, <1>7, <1>8, <1>9

\* What a player is shown of himself, and of the ballot.
LEMMA ShownToPlayer ==
  ASSUME NEW g \in GameState, NEW v \in Seats
  PROVE LET p == ProjectFor(g, v)
        IN /\ p.myShot = IF g.role[v] \in BlackRoles THEN g.mafiaVotes[v] ELSE NoSeat
           /\ p.myBallot = g.lift[v]
           /\ p.myCheck <=> \/ g.role[v] = "don" /\ g.donCheck = v
                            \/ g.role[v] = "sheriff" /\ g.sheriffCheck = v
           /\ g.phase \notin {"PLAYER_INTRODUCTION", "ROLE_DISTRIBUTION"} => MyRole(p, v) = g.role[v]
           /\ g.phase \in BallotPhases =>
                /\ p.round >= Len(p.nominations) <=> g.round >= Len(g.nominations)
                /\ g.round < Len(g.nominations) =>
                     p.nominations[p.round + 1] = g.nominations[g.round + 1]
<1>. DEFINE p == ProjectFor(g, v)
<1>1. /\ p.myShot = IF g.role[v] \in BlackRoles THEN g.mafiaVotes[v] ELSE NoSeat
      /\ p.myBallot = g.lift[v]
  BY DEF ProjectFor, IsMafiaTeam
<1>2. p.myCheck = MyCheck(g, v) BY DEF ProjectFor
<1>3. p.myCheck <=> \/ g.role[v] = "don" /\ g.donCheck = v
                    \/ g.role[v] = "sheriff" /\ g.sheriffCheck = v
  BY <1>2 DEF MyCheck
<1>4. ASSUME g.phase \notin {"PLAYER_INTRODUCTION", "ROLE_DISTRIBUTION"}
      PROVE MyRole(p, v) = g.role[v]
  BY <1>4, ShownRoles DEF MyRole, ShouldRevealRole
<1>5. ASSUME g.phase \in BallotPhases
      PROVE /\ p.round >= Len(p.nominations) <=> g.round >= Len(g.nominations)
            /\ g.round < Len(g.nominations) =>
                 p.nominations[p.round + 1] = g.nominations[g.round + 1]
  <2>1. HideNominationList(g, v)
    BY <1>5 DEF HideNominationList, Judge, NoSeat, Seats
  <2>2. p.round = 0 /\ p.nominations = CurrentCandidate(g)
    BY <2>1 DEF ProjectFor, ShownRound
  <2>3. g.nominations \in Seq(Seats) /\ g.round \in Nat BY DEF GameState
  <2>4. CASE g.round < Len(g.nominations)
    <3>1. CurrentCandidate(g) = <<g.nominations[g.round + 1]>>
      BY <2>4 DEF CurrentCandidate
    <3>. QED BY <2>2, <2>3, <2>4, <3>1
  <2>5. CASE ~(g.round < Len(g.nominations))
    <3>1. CurrentCandidate(g) = <<>> BY <2>5 DEF CurrentCandidate
    <3>. QED BY <2>2, <2>3, <2>5, <3>1
  <2>. QED BY <2>4, <2>5
<1>. QED BY <1>1, <1>3, <1>4, <1>5

LEMMA PlayersAreNoJudge ==
  ASSUME NEW v \in Seats
  PROVE v # Judge /\ v # NoSeat
BY DEF Judge, NoSeat, Seats

LEMMA PlayerButtonsWork ==
  ASSUME NEW g \in GameState, Lists(g), NEW v \in Seats, v \notin g.removed,
         NEW inActiveWindow, NEW expired
  PROVE DeskControls(ProjectFor(g, v), v, inActiveWindow, expired)
            \ (Steps \cup KnownRefusals(g, v))
          \subseteq Accepted(g, v)
<1>. DEFINE p == ProjectFor(g, v)
            shots == Control("shoot", {t \in Seats : CanTarget(g, v, t)})
            guesses == Control("guess", {t \in Seats : CanGuess(g, v, {t})})
            says == Control("say", {s \in {v} : CanSayOutOfTurn(g, s)})
            donChecks == Control("checkAsDon", {t \in Seats : CanDonCheck(g, v, t)})
            sheriffChecks == Control("checkAsSheriff", {t \in Seats : CanSheriffCheck(g, v, t)})
            votes == Control("vote", {c \in Seats : CanCastVote(g, v, c)})
            ballots == Control("ballot", {s \in {v} : CanLiftAllVote(g, s)})
            picks == Control("pick", {c \in Cards : CanPickCard(g, v, c)})
<1>1. /\ p.phase = g.phase /\ p.finished = g.finished /\ p.alive = g.alive
      /\ p.speaker = g.speaker /\ p.farewell = g.farewell /\ p.fouls = g.fouls
      /\ p.votes = g.votes /\ p.bestMove = g.bestMove /\ p.day = g.day
      /\ p.picker = g.picker /\ p.cards = g.cards
  BY ShownTable
<1>2. /\ p.myShot = IF g.role[v] \in BlackRoles THEN g.mafiaVotes[v] ELSE NoSeat
      /\ p.myBallot = g.lift[v]
      /\ p.myCheck <=> \/ g.role[v] = "don" /\ g.donCheck = v
                       \/ g.role[v] = "sheriff" /\ g.sheriffCheck = v
      /\ g.phase \notin {"PLAYER_INTRODUCTION", "ROLE_DISTRIBUTION"} => MyRole(p, v) = g.role[v]
      /\ g.phase \in BallotPhases =>
           /\ p.round >= Len(p.nominations) <=> g.round >= Len(g.nominations)
           /\ g.round < Len(g.nominations) =>
                p.nominations[p.round + 1] = g.nominations[g.round + 1]
  BY ShownToPlayer
<1>. HIDE DEF p
<1>3. /\ v # Judge /\ v # NoSeat /\ g.alive \subseteq Seats /\ Live(g) = g.alive
      /\ g.nominations \in Seq(Seats) /\ g.round \in Nat
  BY PlayersAreNoJudge DEF Lists, Live, GameState
<1>4. Accepted(g, v) = votes \cup ballots \cup guesses \cup shots \cup donChecks
                         \cup sheriffChecks \cup picks \cup says
  BY <1>3 DEF Accepted
<1>5. SUFFICES ASSUME NEW control \in DeskControls(p, v, inActiveWindow, expired),
                      control \notin KnownRefusals(g, v)
               PROVE control \in Accepted(g, v)
  BY DEF p
<1>. HIDE DEF shots, guesses, says, donChecks, sheriffChecks, votes, ballots, picks
<1>6. CASE control \in SeatActions(p, v)
  <2>1. \/ /\ v \in g.alive /\ g.phase = "NIGHT_MAFIA" /\ g.role[v] \in BlackRoles
           /\ control \in Control("shoot", g.alive \ {v})
        \/ /\ v \in g.alive /\ g.phase = "NIGHT_DON" /\ g.role[v] = "don"
           /\ g.donCheck # v /\ control \in Control("checkAsDon", g.alive \ {v})
        \/ /\ v \in g.alive /\ g.phase = "NIGHT_SHERIFF" /\ g.role[v] = "sheriff"
           /\ g.sheriffCheck # v /\ control \in Control("checkAsSheriff", g.alive \ {v})
    <3>1. \/ /\ v \in p.alive /\ p.phase = "NIGHT_MAFIA" /\ MyRole(p, v) \in BlackRoles
             /\ control \in Control("shoot", p.alive \ {v})
          \/ /\ v \in p.alive /\ p.phase = "NIGHT_DON" /\ MyRole(p, v) = "don" /\ ~p.myCheck
             /\ control \in Control("checkAsDon", p.alive \ {v})
          \/ /\ v \in p.alive /\ p.phase = "NIGHT_SHERIFF" /\ MyRole(p, v) = "sheriff"
             /\ ~p.myCheck /\ control \in Control("checkAsSheriff", p.alive \ {v})
      BY <1>3, <1>6, OnSeat
    <3>2. g.phase \in {"NIGHT_MAFIA", "NIGHT_DON", "NIGHT_SHERIFF"} => MyRole(p, v) = g.role[v]
      BY <1>2
    <3>. QED BY <1>1, <1>2, <3>1, <3>2
  <2>2. CASE /\ v \in g.alive /\ g.phase = "NIGHT_MAFIA" /\ g.role[v] \in BlackRoles
             /\ control \in Control("shoot", g.alive \ {v})
    <3>1. PICK t \in g.alive \ {v} : control = <<"shoot", t>> BY <2>2, InControl
    <3>2. <<"shoot", t>> \notin Control("shoot", {s \in Seats : g.role[s] \in BlackRoles})
      BY <1>5, <3>1 DEF KnownRefusals
    <3>3. t \in Seats /\ g.role[t] \notin BlackRoles BY <1>3, <3>2, InControl
    <3>4. CanTarget(g, v, t) BY <1>3, <2>2, <3>3 DEF CanTarget, LiveBlack
    <3>5. control \in shots BY <3>1, <3>3, <3>4, InControl DEF shots
    <3>. QED BY <1>4, <3>5
  <2>3. CASE /\ v \in g.alive /\ g.phase = "NIGHT_DON" /\ g.role[v] = "don"
             /\ g.donCheck # v /\ control \in Control("checkAsDon", g.alive \ {v})
    <3>1. PICK t \in g.alive \ {v} : control = <<"checkAsDon", t>> BY <2>3, InControl
    <3>2. control \in Control("checkAsDon", Seats) BY <1>3, <3>1, InControl
    <3>3. g.donCheck = NoSeat BY <1>5, <2>3, <3>2 DEF KnownRefusals
    <3>4. CanDonCheck(g, v, t) BY <1>3, <2>3, <3>1, <3>3 DEF CanDonCheck
    <3>5. control \in donChecks BY <1>3, <3>1, <3>4, InControl DEF donChecks
    <3>. QED BY <1>4, <3>5
  <2>4. CASE /\ v \in g.alive /\ g.phase = "NIGHT_SHERIFF" /\ g.role[v] = "sheriff"
             /\ g.sheriffCheck # v /\ control \in Control("checkAsSheriff", g.alive \ {v})
    <3>1. PICK t \in g.alive \ {v} : control = <<"checkAsSheriff", t>> BY <2>4, InControl
    <3>2. control \in Control("checkAsSheriff", Seats) BY <1>3, <3>1, InControl
    <3>3. g.sheriffCheck = NoSeat BY <1>5, <2>4, <3>2 DEF KnownRefusals
    <3>4. CanSheriffCheck(g, v, t) BY <1>3, <2>4, <3>1, <3>3 DEF CanSheriffCheck
    <3>5. control \in sheriffChecks BY <1>3, <3>1, <3>4, InControl DEF sheriffChecks
    <3>. QED BY <1>4, <3>5
  <2>. QED BY <2>1, <2>2, <2>3, <2>4
<1>7. CASE control \in SelfMediaButtons(p, v, inActiveWindow)
  <2>1. /\ v \in g.alive /\ g.fouls[v] < FoulRemove /\ control = <<"say", v>>
    BY <1>1, <1>7, InControl DEF SelfMediaButtons, MayAct
  <2>2. g.phase \in {"DAY_SPEECH", "DAY_SHOOTOUT", "DAY_LAST_WORD"}
    <3>1. <<"say", v>> \in Control("say", Seats) BY InControl
    <3>. QED BY <1>5, <2>1, <3>1 DEF KnownRefusals
  <2>3. control \in says BY <1>3, <2>1, <2>2, InControl DEF says, CanSayOutOfTurn
  <2>. QED BY <1>4, <2>3
<1>8. CASE control \in VoteBody(p, v, expired)
  <2>1. /\ g.phase \in BallotPhases /\ v \in g.alive /\ g.votes[v] = NoSeat
        /\ ~(p.round >= Len(p.nominations)) /\ v # p.nominations[p.round + 1]
        /\ control = <<"vote", p.nominations[p.round + 1]>>
    BY <1>1, <1>8, InControl DEF VoteBody, MayAct
  <2>2. g.round < Len(g.nominations) BY <1>2, <1>3, <2>1
  <2>. DEFINE c == g.nominations[g.round + 1]
  <2>3. c \in Seats BY <1>3, <2>2
  <2>4. p.nominations[p.round + 1] = c BY <1>2, <2>1, <2>2
  <2>5. CanCastVote(g, v, c) BY <1>3, <2>1, <2>2, <2>4 DEF CanCastVote
  <2>. HIDE DEF c
  <2>6. control \in votes BY <2>1, <2>3, <2>4, <2>5, InControl DEF votes
  <2>. QED BY <1>4, <2>6
<1>9. CASE control \in LiftVoteBody(p, v, expired)
  <2>1. control \in ballots
    BY <1>1, <1>2, <1>3, <1>9, InControl DEF ballots, LiftVoteBody, MayAct, CanLiftAllVote
  <2>. QED BY <1>4, <2>1
<1>10. CASE control \in BestMoveForm(p, v)
  <2>1. /\ g.phase = "DAY_SPEECH" /\ g.day = 1 /\ v = g.farewell /\ v = g.speaker
        /\ v \notin g.bestMove /\ control \in Control("guess", g.alive \ {v})
    BY <1>1, <1>10 DEF BestMoveForm
  <2>2. PICK t \in g.alive \ {v} : control = <<"guess", t>> BY <2>1, InControl
  <2>3. ~g.multiKill
    <3>1. control \in Control("guess", Seats) BY <1>3, <2>2, InControl
    <3>. QED BY <1>5, <3>1 DEF KnownRefusals
  <2>4. Cardinality({t}) = 1 BY FS_Singleton
  <2>5. CanGuess(g, v, {t}) BY <1>3, <2>1, <2>3, <2>4 DEF CanGuess
  <2>6. control \in guesses BY <1>3, <2>2, <2>5, InControl DEF guesses
  <2>. QED BY <1>4, <2>6
<1>11. CASE control \in CardWall(p, v)
  <2>1. control \in picks BY <1>1, <1>11, InControl DEF picks, CardWall, CanPickCard
  <2>. QED BY <1>4, <2>1
<1>12. \/ control \in SeatActions(p, v) \/ control \in SelfMediaButtons(p, v, inActiveWindow)
       \/ control \in InfoTile(p, v, expired) \/ control \in CardWall(p, v)
  BY <1>3, <1>5, OnDesk
<1>13. control \in InfoTile(p, v, expired) =>
         \/ control \in VoteBody(p, v, expired) \/ control \in LiftVoteBody(p, v, expired)
         \/ control \in BestMoveForm(p, v)
  BY DEF InfoTile
<1>. QED BY <1>6, <1>7, <1>8, <1>9, <1>10, <1>11, <1>12, <1>13

LEMMA JudgeHasButtons ==
  ASSUME NEW g \in GameState, Lists(g), NEW inActiveWindow, NEW expired
  PROVE Accepted(g, Judge) \ NoButtonFor(g, Judge)
          \subseteq DeskControls(ProjectFor(g, Judge), Judge, inActiveWindow, expired)
<1>. DEFINE p == ProjectFor(g, Judge)
            desk == DeskControls(p, Judge, inActiveWindow, expired)
<1>1. /\ p.phase = g.phase /\ p.finished = g.finished /\ p.alive = g.alive
      /\ p.speaker = g.speaker /\ p.farewell = g.farewell /\ p.fouls = g.fouls
      /\ p.nominations = g.nominations /\ p.locked = (g.nominator = g.speaker)
  BY ShownTable, ShownToJudge
<1>. HIDE DEF p
<1>2. /\ Judge \notin g.alive /\ Judge \notin Seats /\ Nominees(g) \subseteq g.alive
      /\ Live(g) = g.alive
  <2>1. g.alive \in SUBSET Seats /\ g.nominations \in Seq(Seats) BY DEF GameState
  <2>2. Live(g) = g.alive BY DEF Lists, Live
  <2>3. Nominees(g) \subseteq Live(g) BY <2>1, AmongIsToSet DEF Lists, Nominees
  <2>4. Judge \notin Seats BY DEF Judge, NoSeat, Seats
  <2>. QED BY <2>1, <2>2, <2>3, <2>4
<1>3. SUFFICES ASSUME NEW control \in Accepted(g, Judge), control \notin NoButtonFor(g, Judge)
               PROVE control \in desk
  BY DEF p
<1>4. ASSUME NEW s \in Seats, control[2] = s,
             \/ control \in SeatActions(p, Judge)
             \/ s \in g.alive /\ control \in JudgeSeatControls(p)
      PROVE control \in desk
  BY <1>1, <1>4, OnDesk DEF TakenForAlive
<1>5. ASSUME NEW t \in Seats, CanNominate(g, t), control = <<"nominate", t>>
      PROVE control \in desk
  <2>1. t \in (g.alive \ {Judge}) \ ToSet(g.nominations)
    BY <1>2, <1>5 DEF CanNominate, Nominees
  <2>2. /\ g.phase = "DAY_SPEECH" /\ g.speaker # NoSeat /\ g.farewell = NoSeat
        /\ g.nominator # g.speaker
    BY <1>5 DEF CanNominate
  <2>3. control \in Control("nominate", (p.alive \ {Judge}) \ ToSet(p.nominations))
    BY <1>1, <1>5, <2>1, InControl
  <2>4. control \in SeatActions(p, Judge) BY <1>1, <2>2, <2>3, OnSeat
  <2>5. control[2] = t BY <1>5
  <2>. QED BY <1>4, <2>4, <2>5
<1>6. ASSUME NEW t \in Seats, CanUnnominate(g, t), control = <<"unnominate", t>>
      PROVE control \in desk
  <2>1. t \in Nominees(g) /\ t \in CanUnnominateOn(p)
    BY <1>1, <1>6 DEF CanUnnominate, CanUnnominateOn, Nominees
  <2>2. control \in JudgeSeatControls(p) BY <1>6, <2>1, InControl DEF JudgeSeatControls
  <2>3. control[2] = t /\ t \in g.alive BY <1>2, <1>6, <2>1
  <2>. QED BY <1>4, <2>2, <2>3
<1>7. ASSUME NEW s \in Seats,
             \/ CanFoul(g, s) /\ control = <<"foul", s>>
             \/ CanUnfoul(g, s) /\ control = <<"unfoul", s>>
             \/ control = <<"remove", s>>
      PROVE control \in desk
  <2>1. s \in g.alive BY <1>3, <1>7, InControl DEF NoButtonFor
  <2>2. control \in JudgeSeatControls(p)
    BY <1>1, <1>7, InControl DEF JudgeSeatControls, CanFoul, CanUnfoul
  <2>3. control[2] = s BY <1>7
  <2>. QED BY <1>4, <2>1, <2>2, <2>3
<1>8. \/ control \in Control("nominate", {t \in Seats : CanNominate(g, t)})
      \/ control \in Control("unnominate", {t \in Seats : CanUnnominate(g, t)})
      \/ control \in Control("foul", {s \in Seats : CanFoul(g, s)})
      \/ control \in Control("unfoul", {s \in Seats : CanUnfoul(g, s)})
      \/ control \in Control("remove", Seats)
  BY <1>3 DEF Accepted
<1>. QED BY <1>5, <1>6, <1>7, <1>8, InControl

LEMMA PlayerHasButtons ==
  ASSUME NEW g \in GameState, Lists(g), Floor(g), NEW v \in Seats, v \notin g.removed,
         NEW inActiveWindow, NEW expired
  PROVE (Accepted(g, v) \ NoButtonFor(g, v)) \ WithheldByTheClock(v, inActiveWindow, expired)
          \subseteq DeskControls(ProjectFor(g, v), v, inActiveWindow, expired)
<1>. DEFINE p == ProjectFor(g, v)
            desk == DeskControls(p, v, inActiveWindow, expired)
<1>1. /\ p.phase = g.phase /\ p.finished = g.finished /\ p.alive = g.alive
      /\ p.speaker = g.speaker /\ p.farewell = g.farewell /\ p.fouls = g.fouls
      /\ p.votes = g.votes /\ p.bestMove = g.bestMove /\ p.day = g.day
      /\ p.picker = g.picker /\ p.cards = g.cards
  BY ShownTable
<1>2. /\ p.myShot = IF g.role[v] \in BlackRoles THEN g.mafiaVotes[v] ELSE NoSeat
      /\ p.myBallot = g.lift[v]
      /\ p.myCheck <=> \/ g.role[v] = "don" /\ g.donCheck = v
                       \/ g.role[v] = "sheriff" /\ g.sheriffCheck = v
      /\ g.phase \notin {"PLAYER_INTRODUCTION", "ROLE_DISTRIBUTION"} => MyRole(p, v) = g.role[v]
      /\ g.phase \in BallotPhases =>
           /\ p.round >= Len(p.nominations) <=> g.round >= Len(g.nominations)
           /\ g.round < Len(g.nominations) =>
                p.nominations[p.round + 1] = g.nominations[g.round + 1]
  BY ShownToPlayer
<1>. HIDE DEF p
<1>3. /\ v # Judge /\ v # NoSeat /\ Live(g) = g.alive
      /\ g.nominations \in Seq(Seats) /\ g.round \in Nat
  BY PlayersAreNoJudge DEF Lists, Live, GameState
<1>4. SUFFICES ASSUME NEW control \in Accepted(g, v), control \notin NoButtonFor(g, v),
                      control \notin WithheldByTheClock(v, inActiveWindow, expired)
               PROVE control \in desk
  BY DEF p
<1>5. ASSUME NEW s \in Seats, control[2] = s,
             \/ control \in SeatActions(p, v)
             \/ s \in g.alive /\ control \in SelfMediaButtons(p, v, inActiveWindow)
      PROVE control \in desk
  BY <1>1, <1>5, OnDesk DEF TakenForAlive
<1>6. ASSUME ~g.finished,
             \/ control \in VoteBody(p, v, expired) \/ control \in LiftVoteBody(p, v, expired)
             \/ control \in BestMoveForm(p, v)
      PROVE control \in desk
  <2>1. control \in InfoTile(p, v, expired) BY <1>1, <1>3, <1>6 DEF InfoTile
  <2>. QED BY <2>1, OnDesk
<1>7. g.phase # "GAME_OVER" => ~g.finished BY DEF Floor
<1>8. ASSUME NEW c \in Seats, CanCastVote(g, v, c), control = <<"vote", c>>
      PROVE control \in desk
  <2>1. /\ g.phase \in BallotPhases /\ g.round < Len(g.nominations)
        /\ c = g.nominations[g.round + 1] /\ v \in g.alive /\ v # c /\ g.votes[v] = NoSeat
    BY <1>3, <1>8 DEF CanCastVote
  <2>2. ~(p.round >= Len(p.nominations)) /\ p.nominations[p.round + 1] = c
    BY <1>2, <1>3, <2>1
  <2>3. ~expired
    <3>1. control \in Control("vote", Seats) BY <1>8, InControl
    <3>. QED BY <1>4, <3>1 DEF WithheldByTheClock
  <2>4. control \in VoteBody(p, v, expired)
    BY <1>1, <1>8, <2>1, <2>2, <2>3, InControl DEF VoteBody, MayAct
  <2>. QED BY <1>6, <1>7, <2>1, <2>4 DEF BallotPhases
<1>9. ASSUME CanLiftAllVote(g, v), control = <<"ballot", v>>
      PROVE control \in desk
  <2>1. ~expired
    <3>1. control \in Control("ballot", {v}) BY <1>9, InControl
    <3>. QED BY <1>4, <3>1 DEF WithheldByTheClock
  <2>2. control \in LiftVoteBody(p, v, expired)
    BY <1>1, <1>2, <1>3, <1>9, <2>1, InControl DEF LiftVoteBody, MayAct, CanLiftAllVote
  <2>. QED BY <1>6, <1>7, <1>9, <2>2 DEF CanLiftAllVote
<1>10. ASSUME NEW t \in Seats, CanGuess(g, v, {t}), control = <<"guess", t>>
       PROVE control \in desk
  <2>1. /\ g.phase = "DAY_SPEECH" /\ g.farewell = g.speaker /\ g.day = 1
        /\ v = g.farewell /\ v \notin g.bestMove /\ t \in g.alive \ {v}
    BY <1>3, <1>10 DEF CanGuess
  <2>2. control \in BestMoveForm(p, v) BY <1>1, <1>10, <2>1, InControl DEF BestMoveForm
  <2>. QED BY <1>6, <1>7, <2>1, <2>2
<1>11. ASSUME NEW t \in Seats, CanTarget(g, v, t), control = <<"shoot", t>>
       PROVE control \in desk
  <2>1. /\ g.phase = "NIGHT_MAFIA" /\ v \in g.alive /\ g.role[v] \in BlackRoles
        /\ t \in g.alive \ {v}
    BY <1>3, <1>11 DEF CanTarget, LiveBlack
  <2>2. g.mafiaVotes[v] = NoSeat
    <3>1. control \in Control("shoot", Seats) BY <1>11, InControl
    <3>. QED BY <1>4, <3>1 DEF NoButtonFor
  <2>3. MyRole(p, v) = g.role[v] BY <1>2, <2>1
  <2>4. control \in Control("shoot", p.alive \ {v}) BY <1>1, <1>11, <2>1, InControl
  <2>5. p.phase = "NIGHT_MAFIA" /\ v \in p.alive /\ MyRole(p, v) \in BlackRoles /\ p.myShot = NoSeat
    BY <1>1, <1>2, <2>1, <2>2, <2>3
  <2>6. control \in SeatActions(p, v) BY <1>3, <2>4, <2>5, OnSeat
  <2>7. control[2] = t BY <1>11
  <2>. QED BY <1>5, <2>6, <2>7
<1>12. ASSUME NEW t \in Seats, CanDonCheck(g, v, t), control = <<"checkAsDon", t>>
       PROVE control \in desk
  <2>1. /\ g.phase = "NIGHT_DON" /\ v \in g.alive /\ g.role[v] = "don"
        /\ g.donCheck = NoSeat /\ t # v
    BY <1>3, <1>12 DEF CanDonCheck
  <2>2. t \in g.alive BY <1>4, <1>12, InControl DEF NoButtonFor
  <2>3. MyRole(p, v) = g.role[v] /\ ~p.myCheck BY <1>2, <1>3, <2>1
  <2>4. control \in Control("checkAsDon", p.alive \ {v})
    BY <1>1, <1>12, <2>1, <2>2, InControl
  <2>5. control \in SeatActions(p, v) BY <1>1, <2>1, <2>3, <2>4, OnSeat
  <2>6. control[2] = t BY <1>12
  <2>. QED BY <1>5, <2>5, <2>6
<1>13. ASSUME NEW t \in Seats, CanSheriffCheck(g, v, t), control = <<"checkAsSheriff", t>>
       PROVE control \in desk
  <2>1. /\ g.phase = "NIGHT_SHERIFF" /\ v \in g.alive /\ g.role[v] = "sheriff"
        /\ g.sheriffCheck = NoSeat /\ t # v
    BY <1>3, <1>13 DEF CanSheriffCheck
  <2>2. t \in g.alive BY <1>4, <1>13, InControl DEF NoButtonFor
  <2>3. MyRole(p, v) = g.role[v] /\ ~p.myCheck BY <1>2, <1>3, <2>1
  <2>4. control \in Control("checkAsSheriff", p.alive \ {v})
    BY <1>1, <1>13, <2>1, <2>2, InControl
  <2>5. control \in SeatActions(p, v) BY <1>1, <2>1, <2>3, <2>4, OnSeat
  <2>6. control[2] = t BY <1>13
  <2>. QED BY <1>5, <2>5, <2>6
<1>14. ASSUME NEW c \in Cards, CanPickCard(g, v, c), control = <<"pick", c>>
       PROVE control \in desk
  <2>1. control \in CardWall(p, v) BY <1>1, <1>14, InControl DEF CardWall, CanPickCard
  <2>. QED BY <2>1, OnDesk
<1>15. ASSUME CanSayOutOfTurn(g, v), control = <<"say", v>>
       PROVE control \in desk
  <2>1. /\ g.phase \in DayPhases /\ v \in g.alive /\ g.fouls[v] < FoulRemove
    BY <1>3, <1>15 DEF CanSayOutOfTurn, DayPhases, CourtPhases
  <2>2. v # g.speaker BY <1>4, <1>15, InControl DEF NoButtonFor
  <2>3. ~inActiveWindow
    <3>1. control \in Control("say", {v}) BY <1>15, InControl
    <3>. QED BY <1>4, <3>1 DEF WithheldByTheClock
  <2>4. control \in SelfMediaButtons(p, v, inActiveWindow)
    BY <1>1, <1>15, <2>1, <2>2, <2>3, InControl DEF SelfMediaButtons, MayAct
  <2>5. control[2] = v BY <1>15
  <2>. QED BY <1>5, <2>1, <2>4, <2>5
<1>16. \/ control \in Control("vote", {c \in Seats : CanCastVote(g, v, c)})
       \/ control \in Control("ballot", {s \in {v} : CanLiftAllVote(g, s)})
       \/ control \in Control("guess", {t \in Seats : CanGuess(g, v, {t})})
       \/ control \in Control("shoot", {t \in Seats : CanTarget(g, v, t)})
       \/ control \in Control("checkAsDon", {t \in Seats : CanDonCheck(g, v, t)})
       \/ control \in Control("checkAsSheriff", {t \in Seats : CanSheriffCheck(g, v, t)})
       \/ control \in Control("pick", {c \in Cards : CanPickCard(g, v, c)})
       \/ control \in Control("say", {s \in {v} : CanSayOutOfTurn(g, s)})
  BY <1>3, <1>4 DEF Accepted
<1>17. \/ \E c \in Seats : CanCastVote(g, v, c) /\ control = <<"vote", c>>
       \/ CanLiftAllVote(g, v) /\ control = <<"ballot", v>>
       \/ \E t \in Seats : \/ CanGuess(g, v, {t}) /\ control = <<"guess", t>>
                           \/ CanTarget(g, v, t) /\ control = <<"shoot", t>>
                           \/ CanDonCheck(g, v, t) /\ control = <<"checkAsDon", t>>
                           \/ CanSheriffCheck(g, v, t) /\ control = <<"checkAsSheriff", t>>
       \/ \E c \in Cards : CanPickCard(g, v, c) /\ control = <<"pick", c>>
       \/ CanSayOutOfTurn(g, v) /\ control = <<"say", v>>
  <2>1. \A kind, on : control \in Control(kind, on) => \E x \in on : control = <<kind, x>>
    BY InControl
  <2>. QED BY <1>16, <2>1
<1>. QED BY <1>8, <1>9, <1>10, <1>11, <1>12, <1>13, <1>14, <1>15, <1>17

-----------------------------------------------------------------------------
(* What a night hides.                                                     *)

\* Tables that differ in what a viewer is not shown are one screen to him.
LEMMA SameScreen ==
  ASSUME NEW g, NEW h, NEW v,
         h.phase = g.phase, h.finished = g.finished, h.winner = g.winner, h.day = g.day,
         h.role = g.role, h.alive = g.alive, h.removed = g.removed, h.fouls = g.fouls,
         h.spoken = g.spoken, h.speaker = g.speaker, h.nominator = g.nominator,
         h.nominations = g.nominations, h.votes = g.votes, h.round = g.round,
         h.victim = g.victim, h.farewell = g.farewell, h.lastWord = g.lastWord,
         h.lastWordIdx = g.lastWordIdx, h.tied = g.tied, h.lift = g.lift,
         h.bestMove = g.bestMove, h.picker = g.picker, h.cards = g.cards,
         h.pending = g.pending \/ ~ShowMafiaTarget(g, v),
         h.mafiaVotes = g.mafiaVotes \/ ~IsMafiaTeam(g, v),
         MyCheck(h, v) = MyCheck(g, v)
  PROVE ProjectFor(h, v) = ProjectFor(g, v)
<1>1. \A s : IsMafiaTeam(h, s) <=> IsMafiaTeam(g, s) BY DEF IsMafiaTeam
<1>2. \A s : ShouldRevealRole(h, s, v) <=> ShouldRevealRole(g, s, v)
  BY <1>1 DEF ShouldRevealRole
<1>3. /\ HideNominationList(h, v) <=> HideNominationList(g, v)
      /\ ShowMafiaTarget(h, v) <=> ShowMafiaTarget(g, v)
      /\ CurrentCandidate(h) = CurrentCandidate(g)
  BY <1>1 DEF HideNominationList, ShowMafiaTarget, CurrentCandidate
<1>4. ShownRound(h, v) = ShownRound(g, v) BY <1>3 DEF ShownRound
<1>5. [s \in Seats |-> IF ShouldRevealRole(h, s, v) THEN h.role[s] ELSE "hidden"]
        = [s \in Seats |-> IF ShouldRevealRole(g, s, v) THEN g.role[s] ELSE "hidden"]
  BY <1>2
<1>6. (IF ShowMafiaTarget(h, v) THEN h.pending ELSE NoSeat)
        = (IF ShowMafiaTarget(g, v) THEN g.pending ELSE NoSeat)
  BY <1>3
<1>7. (IF IsMafiaTeam(h, v) THEN h.mafiaVotes[v] ELSE NoSeat)
        = (IF IsMafiaTeam(g, v) THEN g.mafiaVotes[v] ELSE NoSeat)
  BY <1>1
<1>8. (IF HideNominationList(h, v) THEN CurrentCandidate(h) ELSE h.nominations)
        = (IF HideNominationList(g, v) THEN CurrentCandidate(g) ELSE g.nominations)
  BY <1>3
<1>. QED BY <1>4, <1>5, <1>6, <1>7, <1>8 DEF ProjectFor

\* Two tables that agree on everything but the night's moves.
SameTable(g, h) ==
  /\ h.phase = g.phase /\ h.finished = g.finished /\ h.winner = g.winner /\ h.day = g.day
  /\ h.role = g.role /\ h.alive = g.alive /\ h.removed = g.removed /\ h.fouls = g.fouls
  /\ h.spoken = g.spoken /\ h.speaker = g.speaker /\ h.nominator = g.nominator
  /\ h.nominations = g.nominations /\ h.votes = g.votes /\ h.round = g.round
  /\ h.victim = g.victim /\ h.farewell = g.farewell /\ h.lastWord = g.lastWord
  /\ h.lastWordIdx = g.lastWordIdx /\ h.tied = g.tied /\ h.lift = g.lift
  /\ h.bestMove = g.bestMove /\ h.picker = g.picker /\ h.cards = g.cards

LEMMA NightMovesTouchLittle ==
  ASSUME NEW g \in GameState, NEW a \in Seats, NEW t \in Seats
  PROVE /\ SameTable(g, ApplyMafiaTarget(g, a, t))
        /\ SameTable(g, ApplyDonCheck(g, a))
        /\ SameTable(g, ApplySheriffCheck(g, a))
<1>1. SameTable(g, ApplyMafiaTarget(g, a, t)) BY DEF SameTable, ApplyMafiaTarget, GameState
<1>2. SameTable(g, ApplyDonCheck(g, a)) BY DEF SameTable, ApplyDonCheck, GameState
<1>3. SameTable(g, ApplySheriffCheck(g, a)) BY DEF SameTable, ApplySheriffCheck, GameState
<1>. QED BY <1>1, <1>2, <1>3

LEMMA NightMovesStaySecret ==
  ASSUME TypeOK, FloorInv, NEW v \in Seats, NEW a \in Seats, NEW t \in Seats,
         a # v, game.role[v] \notin BlackRoles,
         ChooseMafiaTarget(a, t) \/ CheckAsDon(a, t) \/ CheckAsSheriff(a, t)
  PROVE ProjectFor(game', v) = ProjectFor(game, v)
<1>. DEFINE g == game
            h == game'
<1>1. game \in GameState /\ ~IsMafiaTeam(game, v) /\ v # Judge
  BY PlayersAreNoJudge DEF TypeOK, IsMafiaTeam
<1>2. h \in {ApplyMafiaTarget(g, a, t), ApplyDonCheck(g, a), ApplySheriffCheck(g, a)}
  BY DEF ChooseMafiaTarget, CheckAsDon, CheckAsSheriff
<1>3. SameTable(g, h) BY <1>1, <1>2, NightMovesTouchLittle
<1>4. h.pending = g.pending \/ ~ShowMafiaTarget(g, v)
  <2>1. CASE ChooseMafiaTarget(a, t)
    <3>1. g.phase = "NIGHT_MAFIA" BY <2>1 DEF ChooseMafiaTarget, CanTarget
    <3>2. ~g.finished BY <3>1 DEF FloorInv, Floor
    <3>. QED BY <1>1, <3>1, <3>2 DEF ShowMafiaTarget
  <2>2. CASE CheckAsDon(a, t) \/ CheckAsSheriff(a, t)
    BY <1>1, <2>2 DEF GameState, CheckAsDon, ApplyDonCheck, CheckAsSheriff, ApplySheriffCheck
  <2>. QED BY <2>1, <2>2
<1>5. MyCheck(h, v) = MyCheck(g, v)
  <2>1. CASE ChooseMafiaTarget(a, t)
    BY <1>1, <1>3, <2>1 DEF SameTable, MyCheck, ChooseMafiaTarget, ApplyMafiaTarget, GameState
  <2>2. CASE CheckAsDon(a, t)
    <3>1. g.role[v] # "don" BY DEF BlackRoles
    <3>2. h.sheriffCheck = g.sheriffCheck
      BY <1>1, <2>2 DEF CheckAsDon, ApplyDonCheck, GameState
    <3>. QED BY <1>3, <3>1, <3>2 DEF MyCheck, SameTable
  <2>3. CASE CheckAsSheriff(a, t)
    <3>1. g.sheriffCheck # v
      BY <1>1, <2>3 DEF CheckAsSheriff, CanSheriffCheck, Judge
    <3>2. h.sheriffCheck = a /\ h.donCheck = g.donCheck
      BY <1>1, <2>3 DEF CheckAsSheriff, ApplySheriffCheck, GameState
    <3>3. h.role = g.role BY <1>3 DEF SameTable
    <3>. QED BY <3>1, <3>2, <3>3 DEF MyCheck
  <2>. QED BY <2>1, <2>2, <2>3
<1>. HIDE DEF g, h
<1>6. h.mafiaVotes = g.mafiaVotes \/ ~IsMafiaTeam(g, v) BY <1>1 DEF g
<1>7. ProjectFor(h, v) = ProjectFor(g, v) BY <1>3, <1>4, <1>5, <1>6, SameScreen DEF SameTable
<1>. QED BY <1>7 DEF g, h

-----------------------------------------------------------------------------
(* The three promises.                                                     *)

\* Whatever the desktop offers to somebody still in the game, the service takes,
\* whatever the page's clock says, but for four kinds of buttons that are known to
\* be refused; any seats may hold any cards
\* (actionForSeat.ts, SelfMediaButtons.tsx, InfoTile.tsx, GamePage.tsx).
THEOREM ButtonsAreTaken == Spec => []ButtonsWork
<1>1. ASSUME TypeOK, CourtInv, NEW v \in Viewers \ Gone,
             NEW inActiveWindow \in BOOLEAN, NEW expired \in BOOLEAN
      PROVE DeskControls(ProjectFor(game, v), v, inActiveWindow, expired)
                \ (Steps \cup KnownRefusals(game, v))
              \subseteq Accepted(game, v)
  <2>1. game \in GameState /\ Lists(game) BY <1>1 DEF TypeOK, CourtInv, Court
  <2>. QED BY <2>1, JudgeButtonsWork, PlayerButtonsWork DEF Viewers, Gone
<1>2. TypeOK /\ CourtInv => ButtonsWork BY <1>1 DEF ButtonsWork
<1>. QED BY <1>2, CourtAlways, PTL

\* And whatever the service would take, some button on the desktop sends, but for
\* the moves no button is meant for and those the page withholds while one of its
\* clocks runs: the projection hides from nobody what he needs in order to move
\* (projection.ts:74-86).
THEOREM MovesHaveButtons == Spec => []LegalMoveHasButton
<1>1. ASSUME TypeOK, CourtInv, FloorInv, NEW v \in Viewers,
             NEW inActiveWindow \in BOOLEAN, NEW expired \in BOOLEAN
      PROVE (Accepted(game, v) \ NoButtonFor(game, v))
                \ WithheldByTheClock(v, inActiveWindow, expired)
              \subseteq DeskControls(ProjectFor(game, v), v, inActiveWindow, expired)
  <2>1. game \in GameState /\ Lists(game) /\ Floor(game)
    BY <1>1 DEF TypeOK, CourtInv, Court, FloorInv
  <2>2. CASE v = Judge BY <2>1, <2>2, JudgeHasButtons
  <2>3. CASE v \in Seats /\ v \notin game.removed BY <2>1, <2>3, PlayerHasButtons
  <2>4. CASE v \in Seats /\ v \in game.removed
    <3>1. Accepted(game, v) = {} BY <2>4, PlayersAreNoJudge DEF Accepted
    <3>. QED BY <3>1
  <2>. QED BY <2>2, <2>3, <2>4 DEF Viewers
<1>2. TypeOK /\ CourtInv /\ FloorInv => LegalMoveHasButton BY <1>1 DEF LegalMoveHasButton
<1>. QED BY <1>2, FloorAlways, PTL

\* The screen of a red player does not change when somebody else moves in the
\* night, a second sheriff included: neither the check nor the shot tells him
\* anything (projection.ts:42-51, 60-61, 91, 124).
THEOREM NightMovesAreSecret == Spec => NightMovesLeakNothing
<1>. DEFINE Secret == \A v \in Seats :
              (\E a, t \in Seats : /\ a # v /\ game.role[v] \notin BlackRoles
                                   /\ ChooseMafiaTarget(a, t) \/ CheckAsDon(a, t) \/ CheckAsSheriff(a, t))
                => ProjectFor(game', v) = ProjectFor(game, v)
<1>1. TypeOK /\ FloorInv => [Secret]_game BY NightMovesStaySecret
<1>. QED BY <1>1, FloorAlways, PTL DEF NightMovesLeakNothing
=============================================================================
