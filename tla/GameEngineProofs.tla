--------------------------- MODULE GameEngineProofs ---------------------------
(***************************************************************************)
(* Theorems about a running game, for a table of any size, any foul        *)
(* limits, any deals and any bounds: the engine's functions map a          *)
(* GameState to a GameState, the cancelled day takes nobody, the day's     *)
(* speakers are all heard, and none of the card ceremony's pickers is left *)
(* without a card.                                                         *)
(***************************************************************************)
EXTENDS GameProperties, TLAPS, WellFoundedInduction, FiniteSetTheorems, SequenceTheorems

-----------------------------------------------------------------------------
(* Constants.                                                              *)

LEMMA TableFacts ==
  /\ SeatCount \in Nat \ {0}
  /\ NoSeat \in SeatOrNone /\ Seats \subseteq SeatOrNone
  /\ NoVotes \in [Seats -> SeatOrNone] /\ NoBallots \in [Seats -> Ballots]
  /\ <<>> \in Seq(Seats)
  /\ IsFiniteSet(Seats)
<1>1. SeatCount \in Nat \ {0} BY RulesAssumption
<1>2. IsFiniteSet(Seats) BY <1>1, FS_Interval DEF Seats
<1>3. <<>> \in Seq(Seats) OBVIOUS
<1>. QED BY <1>1, <1>2, <1>3 DEF SeatOrNone, NoVotes, NoBallots, Ballots

-----------------------------------------------------------------------------
(* Seat order.                                                             *)

LEMMA LeastExists ==
  ASSUME NEW T, T \subseteq Nat, T # {}
  PROVE \E m \in T : \A n \in T : m <= n
<1>1. PICK m \in T : \A n \in T : ~(<<n, m>> \in OpToRel(<, Nat))
  BY NatLessThanWellFounded, WFMin
<1>2. \A n \in T : ~(n < m) BY <1>1, ZenonT(20) DEF OpToRel
<1>. QED BY <1>2

LEMMA ClockwiseNat ==
  ASSUME NEW s \in Seats, NEW from \in 1..(SeatCount + 1)
  PROVE Clockwise(from, s) \in Nat
<1>1. SeatCount \in Nat \ {0} BY RulesAssumption
<1>. QED BY <1>1 DEF Clockwise, Seats

\* Walking round the table from a seat finds a seat of the set, if there is one.
LEMMA FirstFromFinds ==
  ASSUME NEW S \in SUBSET Seats, NEW from \in 1..(SeatCount + 1)
  PROVE IF S = {} THEN FirstFrom(S, from) = NoSeat ELSE FirstFrom(S, from) \in S
<1>1. CASE S = {} BY <1>1 DEF FirstFrom
<1>2. CASE S # {}
  <2>. DEFINE D == {Clockwise(from, s) : s \in S}
  <2>1. D \subseteq Nat /\ D # {} BY <1>2, ClockwiseNat
  <2>2. PICK m \in D : \A n \in D : m <= n BY <2>1, LeastExists
  <2>3. \E s \in S : \A t \in S : Clockwise(from, s) <= Clockwise(from, t) BY <2>2
  <2>. QED BY <1>2, <2>3 DEF FirstFrom
<1>. QED BY <1>1, <1>2

Increasing(q, n) == \A i, j \in 1..n : i < j => q[i] < q[j]

\* Every set of seats has its ascending list: a smallest size without one would
\* have a largest seat to take away.
LEMMA AscendingExists ==
  ASSUME NEW S \in SUBSET Seats
  PROVE \E q \in [1..Cardinality(S) -> S] : Increasing(q, Cardinality(S))
<1>. DEFINE Listable(R) == \E q \in [1..Cardinality(R) -> R] : Increasing(q, Cardinality(R))
            Bad == {n \in Nat : \E R \in SUBSET Seats : Cardinality(R) = n /\ ~Listable(R)}
<1>1. \A R \in SUBSET Seats : IsFiniteSet(R) /\ Cardinality(R) \in Nat
  BY TableFacts, FS_Subset, FS_CardinalityType
<1>2. SUFFICES ASSUME Bad # {} PROVE FALSE
  BY <1>1
<1>3. PICK n \in Bad : \A k \in Bad : n <= k
  BY <1>2, LeastExists
<1>4. PICK R \in SUBSET Seats : Cardinality(R) = n /\ ~Listable(R)
  BY <1>3
<1>5. R # {}
  <2>1. SUFFICES ASSUME R = {} PROVE FALSE OBVIOUS
  <2>2. Cardinality(R) = 0 BY <2>1, FS_EmptySet
  <2>3. [i \in 1..0 |-> 1] \in [1..0 -> R] OBVIOUS
  <2>4. Increasing([i \in 1..0 |-> 1], 0) BY DEF Increasing
  <2>. QED BY <1>4, <2>2, <2>3, <2>4
<1>6. PICK m \in R : \A s \in R : s <= m
  <2>. DEFINE D == {SeatCount - s : s \in R}
  <2>1. D \subseteq Nat
    <3>1. \A s \in R : s \in Int /\ s <= SeatCount BY TableFacts DEF Seats
    <3>. QED BY <3>1, TableFacts
  <2>5. D # {} BY <1>5
  <2>2. PICK d \in D : \A e \in D : d <= e BY <2>1, <2>5, LeastExists
  <2>3. PICK m \in R : d = SeatCount - m BY <2>2
  <2>4. \A s \in R : SeatCount - m <= SeatCount - s BY <2>2, <2>3
  <2>6. \A s \in R : s <= m BY <2>4, TableFacts DEF Seats
  <2>. QED BY <2>6
<1>. DEFINE Q == R \ {m}
<1>7. Q \in SUBSET Seats /\ Cardinality(Q) = n - 1 /\ n - 1 \in Nat /\ n \in Nat
  <2>1. Cardinality(Q) = Cardinality(R) - 1 BY <1>1, <1>6, FS_RemoveElement
  <2>2. Cardinality(Q) \in Nat BY <1>1
  <2>. QED BY <1>3, <1>4, <2>1, <2>2
<1>8. Listable(Q)
  <2>1. n - 1 \notin Bad BY <1>3, <1>7
  <2>. QED BY <2>1, <1>7
<1>9. PICK q \in [1..(n - 1) -> Q] : Increasing(q, n - 1) BY <1>7, <1>8
<1>. DEFINE r == [i \in 1..n |-> IF i = n THEN m ELSE q[i]]
<1>10. r \in [1..n -> R] BY <1>6, <1>7, <1>9
<1>11. Increasing(r, n)
  <2>1. SUFFICES ASSUME NEW i \in 1..n, NEW j \in 1..n, i < j PROVE r[i] < r[j]
    BY DEF Increasing
  <2>2. i \in 1..(n - 1) /\ q[i] \in Q BY <1>7, <1>9, <2>1
  <2>3. CASE j = n
    <3>1. q[i] <= m /\ q[i] # m BY <1>6, <2>2
    <3>2. q[i] \in Int /\ m \in Int
      <4>1. q[i] \in Seats /\ m \in Seats BY <1>6, <1>7, <2>2
      <4>. QED BY <4>1 DEF Seats
    <3>3. q[i] < m BY <3>1, <3>2
    <3>4. r[i] = q[i] /\ r[j] = m BY <2>1, <2>2, <2>3, <1>7
    <3>. QED BY <3>3, <3>4
  <2>4. CASE j # n
    <3>1. j \in 1..(n - 1) BY <1>7, <2>4
    <3>2. q[i] < q[j] BY <1>9, <2>1, <2>2, <3>1 DEF Increasing
    <3>3. r[i] = q[i] /\ r[j] = q[j] BY <2>1, <2>2, <2>4, <1>7
    <3>. QED BY <3>2, <3>3
  <2>. QED BY <2>3, <2>4
<1>. QED BY <1>4, <1>10, <1>11

LEMMA AscendingTyped ==
  ASSUME NEW S \in SUBSET Seats
  PROVE /\ Ascending(S) \in Seq(S) /\ Len(Ascending(S)) = Cardinality(S)
        /\ Increasing(Ascending(S), Cardinality(S))
<1>1. Cardinality(S) \in Nat BY TableFacts, FS_Subset, FS_CardinalityType
<1>2. \E q \in [1..Cardinality(S) -> S] :
        \A i, j \in 1..Cardinality(S) : i < j => q[i] < q[j]
  BY AscendingExists DEF Increasing
<1>3. Ascending(S) \in [1..Cardinality(S) -> S] /\ Increasing(Ascending(S), Cardinality(S))
  BY <1>2 DEF Ascending, Increasing
<1>. QED BY <1>1, <1>3

-----------------------------------------------------------------------------
(* What the helpers return.                                                *)

LEMMA SpeakersTyped ==
  ASSUME NEW g \in GameState
  PROVE /\ DayStartSeat(g) \in SeatOrNone
        /\ \A from \in 1..(SeatCount + 1) : NextSpeakerSeat(g, from) \in SeatOrNone
<1>1. g.day \in Nat /\ g.alive \in SUBSET Seats BY DEF GameState
<1>2. (g.day % SeatCount) + 1 \in 1..(SeatCount + 1) BY <1>1, TableFacts
<1>3. Live(g) \in SUBSET Seats BY <1>1 DEF Live
<1>4. DayStartSeat(g) \in SeatOrNone
  BY <1>2, <1>3, FirstFromFinds, TableFacts DEF DayStartSeat
<1>5. ASSUME NEW from \in 1..(SeatCount + 1) PROVE NextSpeakerSeat(g, from) \in SeatOrNone
  BY <1>3, FirstFromFinds, TableFacts DEF NextSpeakerSeat
<1>. QED BY <1>4, <1>5

LEMMA PickersTyped ==
  ASSUME NEW g \in GameState
  PROVE /\ FirstRoleCardPicker(g) \in SeatOrNone
        /\ \A s \in Seats : NextRoleCardPicker(g, s) \in SeatOrNone
<1>1. 1 \in 1..(SeatCount + 1) /\ \A s \in Seats : s + 1 \in 1..(SeatCount + 1)
  BY TableFacts DEF Seats
<1>2. FirstRoleCardPicker(g) \in SeatOrNone
  BY <1>1, FirstFromFinds, TableFacts DEF FirstRoleCardPicker
<1>3. ASSUME NEW s \in Seats PROVE NextRoleCardPicker(g, s) \in SeatOrNone
  BY <1>1, FirstFromFinds, TableFacts DEF NextRoleCardPicker
<1>. QED BY <1>2, <1>3

LEMMA CountsTyped ==
  ASSUME NEW g \in GameState
  PROVE /\ ResolveVote(g) \in SeatOrNone
        /\ ResolveMafiaConsensus(g) \in SeatOrNone
        /\ FindTiedSeats(g) \in Seq(Seats)
        /\ CheckWinner(g) \in Winners
<1>1. Leaders(g) \in SUBSET Seats BY DEF Leaders, Voted, GameState, SeatOrNone
<1>2. FindTiedSeats(g) \in Seq(Seats) BY <1>1, AscendingTyped, TableFacts DEF FindTiedSeats
<1>3. ResolveVote(g) \in SeatOrNone BY TableFacts DEF ResolveVote
<1>4. ResolveMafiaConsensus(g) \in SeatOrNone BY TableFacts DEF ResolveMafiaConsensus
<1>. QED BY <1>2, <1>3, <1>4 DEF CheckWinner, Winners

\* Filtering a seat out of a list leaves a list of seats.
LEMMA WithoutTyped ==
  ASSUME NEW q \in Seq(Seats), NEW s \in Seats
  PROVE Without(q, s) \in Seq(Seats)
<1>1. CASE s \notin ToSet(q) BY <1>1 DEF Without
<1>2. CASE s \in ToSet(q)
  <2>1. ASSUME NEW i \in 1..Len(q) PROVE RemoveAt(q, i) \in Seq(Seats)
    <3>1. SubSeq(q, 1, i - 1) \in Seq(Seats)
      <4>1. \A j \in 1..(i - 1) : q[j] \in Seats OBVIOUS
      <4>. QED BY <4>1, SubSeqProperties
    <3>2. SubSeq(q, i + 1, Len(q)) \in Seq(Seats)
      <4>1. \A j \in (i + 1)..Len(q) : q[j] \in Seats OBVIOUS
      <4>. QED BY <4>1, SubSeqProperties
    <3>. QED BY <3>1, <3>2 DEF RemoveAt
  <2>2. \E j \in DOMAIN q : q[j] = s BY <1>2 DEF ToSet
  <2>3. (CHOOSE j \in DOMAIN q : q[j] = s) \in 1..Len(q) BY <2>2
  <2>. QED BY <1>2, <2>1, <2>3 DEF Without
<1>. QED BY <1>1, <1>2

-----------------------------------------------------------------------------
(* Leaving and entering a phase.                                           *)

LEMMA CondemnTyped ==
  ASSUME NEW g \in GameState, NEW queue \in Seq(Seats), queue # <<>>
  PROVE Condemn(g, queue) \in GameState
<1>1. queue[1] \in SeatOrNone BY TableFacts
<1>. QED BY <1>1 DEF Condemn, KillSeats, GameState

LEMMA AcquitTyped ==
  ASSUME NEW g \in GameState
  PROVE Acquit(g) \in GameState
BY TableFacts DEF Acquit, GameState

LEMMA OpenRunoffTyped ==
  ASSUME NEW g \in GameState, NEW tie \in Seq(Seats), tie # <<>>
  PROVE OpenRunoff(g, tie) \in GameState
<1>1. tie[1] \in SeatOrNone BY TableFacts
<1>. QED BY <1>1, TableFacts DEF OpenRunoff, GameState

LEMMA ClearedTyped ==
  ASSUME NEW g \in GameState
  PROVE /\ [g EXCEPT !.nominations = <<>>] \in GameState
        /\ [g EXCEPT !.votes = NoVotes, !.nominations = <<>>] \in GameState
        /\ [g EXCEPT !.nominations = <<>>, !.tied = <<>>] \in GameState
        /\ [g EXCEPT !.lift = NoBallots, !.tied = <<>>] \in GameState
        /\ [g EXCEPT !.shootoutIdx = 0] \in GameState
        /\ [g EXCEPT !.speaker = NoSeat, !.shootoutIdx = 0] \in GameState
        /\ [g EXCEPT !.lastWord = <<>>, !.lastWordIdx = 0, !.speaker = NoSeat] \in GameState
        /\ [g EXCEPT !.spoken = {}, !.speaker = NoSeat] \in GameState
BY TableFacts DEF GameState

LEMMA LeaveVoteTyped ==
  ASSUME NEW g \in GameState
  PROVE LeaveVote(g) \in GameState
<1>. DEFINE chosen == ResolveVote(g)
            tie == FindTiedSeats(g)
<1>1. chosen \in SeatOrNone /\ tie \in Seq(Seats) BY CountsTyped
<1>2. CASE g.disqualified BY <1>2, AcquitTyped DEF LeaveVote
<1>3. CASE ~g.disqualified /\ chosen # NoSeat
  <2>1. <<chosen>> \in Seq(Seats) /\ <<chosen>> # <<>> BY <1>1, <1>3 DEF SeatOrNone
  <2>2. Condemn(g, <<chosen>>) \in GameState BY <2>1, CondemnTyped
  <2>3. [Condemn(g, <<chosen>>) EXCEPT !.nominations = <<>>] \in GameState
    BY <2>2, ClearedTyped
  <2>. QED BY <1>3, <2>3 DEF LeaveVote
<1>4. CASE ~g.disqualified /\ chosen = NoSeat /\ tie # <<>>
  BY <1>1, <1>4, OpenRunoffTyped DEF LeaveVote
<1>5. CASE ~g.disqualified /\ chosen = NoSeat /\ tie = <<>>
  BY <1>5, ClearedTyped DEF LeaveVote
<1>. QED BY <1>2, <1>3, <1>4, <1>5 DEF GameState

LEMMA LeaveRevoteTyped ==
  ASSUME NEW g \in GameState
  PROVE LeaveRevote(g) \in GameState
<1>. DEFINE chosen == ResolveVote(g)
            tie == FindTiedSeats(g)
            counted == [g EXCEPT !.shootoutIdx = 0]
<1>1. chosen \in SeatOrNone /\ tie \in Seq(Seats) BY CountsTyped
<1>2. counted \in GameState /\ Acquit(counted) \in GameState BY ClearedTyped, AcquitTyped
<1>3. CASE ~g.disqualified /\ chosen # NoSeat
  <2>1. <<chosen>> \in Seq(Seats) /\ <<chosen>> # <<>> BY <1>1, <1>3 DEF SeatOrNone
  <2>2. Condemn(counted, <<chosen>>) \in GameState BY <1>2, <2>1, CondemnTyped
  <2>3. [Condemn(counted, <<chosen>>) EXCEPT !.nominations = <<>>, !.tied = <<>>] \in GameState
    BY <2>2, ClearedTyped
  <2>. QED BY <1>3, <2>3 DEF LeaveRevote
<1>4. CASE ~g.disqualified /\ chosen = NoSeat /\ tie # <<>>
  <2>1. [Acquit(counted) EXCEPT !.tied = tie, !.lift = NoBallots] \in GameState
    BY <1>1, <1>2, TableFacts DEF GameState
  <2>. QED BY <1>4, <2>1 DEF LeaveRevote
<1>5. CASE ~(~g.disqualified /\ chosen # NoSeat) /\ ~(~g.disqualified /\ chosen = NoSeat /\ tie # <<>>)
  BY <1>2, <1>5 DEF LeaveRevote
<1>. QED BY <1>3, <1>4, <1>5

LEMMA LeaveLiftVoteTyped ==
  ASSUME NEW g \in GameState
  PROVE LeaveLiftVote(g) \in GameState
<1>. DEFINE closed == [g EXCEPT !.lift = NoBallots, !.tied = <<>>]
<1>1. closed \in GameState BY ClearedTyped
<1>2. CASE ~g.disqualified /\ LiftPasses(g) /\ g.tied # <<>>
  <2>1. g.tied \in Seq(Seats) BY DEF GameState
  <2>2. Condemn(closed, g.tied) \in GameState BY <1>1, <1>2, <2>1, CondemnTyped
  <2>3. LiftForfeitsBestMove(g) \in BOOLEAN BY DEF LiftForfeitsBestMove
  <2>4. [Condemn(closed, g.tied) EXCEPT !.multiKill = @ \/ LiftForfeitsBestMove(g)] \in GameState
    BY <2>2, <2>3 DEF GameState
  <2>. QED BY <1>2, <2>4 DEF LeaveLiftVote
<1>3. CASE ~(~g.disqualified /\ LiftPasses(g) /\ g.tied # <<>>)
  BY <1>1, <1>3 DEF LeaveLiftVote
<1>. QED BY <1>2, <1>3

LEMMA LeaveTyped ==
  ASSUME NEW g \in GameState
  PROVE Leave(g) \in GameState
<1>1. LeaveSpeech(g) \in GameState BY ClearedTyped, AcquitTyped DEF LeaveSpeech
<1>2. LeaveNight(g) \in GameState BY CountsTyped DEF LeaveNight, KillSeats, GameState
<1>3. LeaveMorning(g) \in GameState
  <2>1. g.day + 1 \in Nat BY DEF GameState
  <2>. QED BY <2>1, TableFacts DEF LeaveMorning, GameState
<1>. QED
  BY <1>1, <1>2, <1>3, ClearedTyped, LeaveVoteTyped, LeaveRevoteTyped, LeaveLiftVoteTyped
  DEF Leave

LEMMA NextPhaseTyped ==
  ASSUME NEW g \in GameState
  PROVE /\ NextPhase(g) \in Phases
        /\ g.phase = "DAY_VOTE_INTRO" /\ NextPhase(g) = "DAY_LAST_WORD" => g.nominations # <<>>
<1>1. g.phase \in Phases /\ g.nominations \in Seq(Seats) BY DEF GameState
<1>2. NextPhase(g) \in Phases BY <1>1 DEF NextPhase, Phases
<1>3. ASSUME g.phase = "DAY_VOTE_INTRO", NextPhase(g) = "DAY_LAST_WORD"
      PROVE g.nominations # <<>>
  <2>1. Len(g.nominations) = 1 BY <1>3 DEF NextPhase
  <2>2. Len(<<>>) = 0 OBVIOUS
  <2>. QED BY <2>1, <2>2
<1>. QED BY <1>2, <1>3

LEMMA ResolveTyped ==
  ASSUME NEW g \in GameState
  PROVE Resolve(g) \in GameState
<1>. DEFINE left == Leave(g)
<1>1. left \in GameState BY LeaveTyped
<1>2. CASE g.phase = "DAY_VOTE_INTRO"
  <2>1. left = g BY <1>2 DEF Leave
  <2>2. CASE NextPhase(left) = "NIGHT_MAFIA" /\ left.nominations # <<>>
    BY <1>1, <1>2, <2>2, AcquitTyped DEF Resolve, SettleIntro
  <2>3. CASE NextPhase(left) = "DAY_LAST_WORD"
    <3>1. left.nominations # <<>> /\ left.nominations \in Seq(Seats)
      BY <1>1, <1>2, <2>1, <2>3, NextPhaseTyped DEF GameState
    <3>2. Condemn(left, left.nominations) \in GameState BY <1>1, <3>1, CondemnTyped
    <3>3. [Condemn(left, left.nominations) EXCEPT !.votes = NoVotes, !.nominations = <<>>]
            \in GameState
      BY <3>2, ClearedTyped
    <3>. QED BY <1>2, <2>3, <3>3 DEF Resolve, SettleIntro
  <2>4. CASE ~(NextPhase(left) = "NIGHT_MAFIA" /\ left.nominations # <<>>)
             /\ NextPhase(left) # "DAY_LAST_WORD"
    BY <1>1, <1>2, <2>4 DEF Resolve, SettleIntro
  <2>. QED BY <2>2, <2>3, <2>4
<1>. QED BY <1>1, <1>2 DEF Resolve

LEMMA EnterTyped ==
  ASSUME NEW before \in GameState, NEW g \in GameState, NEW to \in Phases
  PROVE Enter(before, g, to) \in GameState
<1>. DEFINE pick == IF to = "ROLE_DISTRIBUTION" THEN FirstRoleCardPicker(g)
                    ELSE IF before.phase = "ROLE_DISTRIBUTION" THEN NoSeat ELSE g.picker
            floor == IF to # "DAY_SPEECH" THEN g.speaker
                     ELSE IF before.victim # NoSeat THEN before.victim ELSE DayStartSeat(g)
            count == IF to \in BallotPhases THEN 0 ELSE g.round
            taken == IF to = "ROLE_DISTRIBUTION" THEN {} ELSE g.cards
            leaving == IF to = "DAY_SPEECH" THEN before.victim ELSE g.farewell
<1>1. pick \in SeatOrNone
  <2>1. g.picker \in SeatOrNone BY DEF GameState
  <2>. QED BY <2>1, PickersTyped, TableFacts
<1>2. floor \in SeatOrNone /\ leaving \in SeatOrNone
  <2>1. {g.speaker, g.farewell, before.victim} \subseteq SeatOrNone BY DEF GameState
  <2>. QED BY <2>1, SpeakersTyped
<1>3. count \in Nat /\ taken \in SUBSET Cards
  <2>1. g.round \in Nat /\ g.cards \in SUBSET Cards BY DEF GameState
  <2>. QED BY <2>1
<1>4. Enter(before, g, to) =
        [g EXCEPT !.phase = to, !.round = count, !.picker = pick, !.cards = taken,
                  !.farewell = leaving, !.speaker = floor]
  BY DEF Enter
<1>. HIDE DEF pick, floor, count, taken, leaving
<1>. DEFINE e == [g EXCEPT !.phase = to, !.round = count, !.picker = pick]
<1>5. e \in GameState BY <1>1, <1>3 DEF GameState
<1>6. Enter(before, g, to) = [e EXCEPT !.cards = taken, !.farewell = leaving, !.speaker = floor]
  BY <1>4 DEF GameState
<1>. HIDE DEF e
<1>. QED BY <1>2, <1>3, <1>5, <1>6 DEF GameState

LEMMA FinishTyped ==
  ASSUME NEW g \in GameState
  PROVE Finish(g) \in GameState
<1>1. CheckWinner(g) \in Winners BY CountsTyped
<1>. QED BY <1>1 DEF Finish, GameState, Phases

LEMMA AdvancePhaseTyped ==
  ASSUME NEW g \in GameState
  PROVE ApplyAdvancePhase(g) \in GameState
<1>. DEFINE next == Resolve(g)
            to == NextPhase(Leave(g))
<1>1. next \in GameState /\ to \in Phases BY ResolveTyped, LeaveTyped, NextPhaseTyped
<1>2. Finish(next) \in GameState BY <1>1, FinishTyped
<1>3. Enter(g, next, to) \in GameState BY <1>1, EnterTyped
<1>. HIDE DEF next, to
<1>. QED BY <1>2, <1>3 DEF ApplyAdvancePhase, next, to

-----------------------------------------------------------------------------
(* The stepper.                                                            *)

LEMMA AfterSpeechTyped ==
  ASSUME NEW g \in GameState, g.speaker # NoSeat
  PROVE AfterSpeech(g) \in SeatOrNone
<1>. DEFINE h == [g EXCEPT !.spoken = @ \cup {g.speaker}]
<1>1. g.speaker \in Seats BY DEF GameState, SeatOrNone
<1>2. h \in GameState BY <1>1 DEF GameState
<1>3. g.speaker + 1 \in 1..(SeatCount + 1) BY <1>1, TableFacts DEF Seats
<1>4. NextSpeakerSeat(h, g.speaker + 1) \in SeatOrNone BY <1>2, <1>3, SpeakersTyped
<1>. HIDE DEF h
<1>. QED BY <1>4, SpeakersTyped DEF AfterSpeech, h

LEMMA NextSpeakerTyped ==
  ASSUME NEW g \in GameState
  PROVE ApplyNextSpeaker(g) \in GameState
<1>1. CASE g.phase = "DAY_LAST_WORD"
  <2>1. CASE g.lastWordIdx + 1 < Len(g.lastWord)
    <3>1. g.lastWord[g.lastWordIdx + 2] \in SeatOrNone /\ g.lastWordIdx + 1 \in Nat
      <4>1. g.lastWord \in Seq(Seats) /\ g.lastWordIdx \in Nat BY DEF GameState
      <4>2. g.lastWordIdx + 2 \in 1..Len(g.lastWord) BY <4>1, <2>1
      <4>. QED BY <4>1, <4>2, TableFacts
    <3>2. [g EXCEPT !.lastWordIdx = @ + 1, !.speaker = g.lastWord[g.lastWordIdx + 2]] \in GameState
      BY <3>1 DEF GameState
    <3>. QED BY <1>1, <2>1, <3>2 DEF ApplyNextSpeaker, BallotPhases
  <2>2. CASE ~(g.lastWordIdx + 1 < Len(g.lastWord))
    BY <1>1, <2>2 DEF ApplyNextSpeaker, BallotPhases
  <2>. QED BY <2>1, <2>2
<1>2. CASE g.phase = "DAY_SHOOTOUT"
  <2>1. CASE g.shootoutIdx + 1 < Len(g.tied)
    <3>1. g.tied[g.shootoutIdx + 2] \in SeatOrNone /\ g.shootoutIdx + 1 \in Nat
      <4>1. g.tied \in Seq(Seats) /\ g.shootoutIdx \in Nat BY DEF GameState
      <4>2. g.shootoutIdx + 2 \in 1..Len(g.tied) BY <4>1, <2>1
      <4>. QED BY <4>1, <4>2, TableFacts
    <3>2. [g EXCEPT !.shootoutIdx = @ + 1, !.speaker = g.tied[g.shootoutIdx + 2]] \in GameState
      BY <3>1 DEF GameState
    <3>. QED BY <1>2, <2>1, <3>2 DEF ApplyNextSpeaker, BallotPhases
  <2>2. CASE ~(g.shootoutIdx + 1 < Len(g.tied))
    BY <1>2, <2>2 DEF ApplyNextSpeaker, BallotPhases
  <2>. QED BY <2>1, <2>2
<1>3. CASE g.phase \in BallotPhases
  <2>1. CASE g.round < Len(g.nominations)
    <3>. DEFINE urn == IF SpeechesDone(g) THEN AutoCast(g) ELSE g.votes
    <3>1. g.nominations \in Seq(Seats) /\ g.round \in Nat /\ g.votes \in [Seats -> SeatOrNone]
      BY DEF GameState
    <3>2. g.nominations[Len(g.nominations)] \in SeatOrNone
      <4>1. Len(g.nominations) \in 1..Len(g.nominations) BY <2>1, <3>1
      <4>. QED BY <3>1, <4>1, TableFacts
    <3>3. AutoCast(g) \in [Seats -> SeatOrNone] BY <3>1, <3>2 DEF AutoCast
    <3>4. urn \in [Seats -> SeatOrNone] /\ g.round + 1 \in Nat BY <3>1, <3>3
    <3>. HIDE DEF urn
    <3>5. [g EXCEPT !.votes = urn, !.round = @ + 1] \in GameState BY <3>4 DEF GameState
    <3>. QED BY <1>3, <2>1, <3>5 DEF ApplyNextSpeaker, BallotPhases, urn
  <2>2. CASE ~(g.round < Len(g.nominations))
    BY <1>3, <2>2 DEF ApplyNextSpeaker, BallotPhases
  <2>. QED BY <2>1, <2>2
<1>4. CASE g.phase = "DAY_SPEECH"
  <2>1. CASE g.speaker # NoSeat
    <3>. DEFINE heard == IF g.farewell = g.speaker THEN g.spoken ELSE g.spoken \cup {g.speaker}
                leaving == IF g.farewell = g.speaker THEN NoSeat ELSE g.farewell
    <3>1. heard \in SUBSET Seats BY <2>1 DEF GameState, SeatOrNone
    <3>2. leaving \in SeatOrNone BY TableFacts DEF GameState
    <3>3. AfterSpeech(g) \in SeatOrNone BY <2>1, AfterSpeechTyped
    <3>4. ApplyNextSpeaker(g) =
            [g EXCEPT !.spoken = heard, !.farewell = leaving, !.speaker = AfterSpeech(g),
                      !.nominator = NoSeat]
      BY <1>4, <2>1 DEF ApplyNextSpeaker, BallotPhases
    <3>. HIDE DEF heard, leaving
    <3>. DEFINE e == [g EXCEPT !.spoken = heard, !.farewell = leaving]
    <3>5. e \in GameState BY <3>1, <3>2 DEF GameState
    <3>6. ApplyNextSpeaker(g) = [e EXCEPT !.speaker = AfterSpeech(g), !.nominator = NoSeat]
      BY <3>4 DEF GameState
    <3>. HIDE DEF e
    <3>. QED BY <3>3, <3>5, <3>6, TableFacts DEF GameState
  <2>2. CASE g.speaker = NoSeat
    BY <1>4, <2>2 DEF ApplyNextSpeaker, BallotPhases
  <2>. QED BY <2>1, <2>2
<1>5. CASE g.phase \notin {"DAY_LAST_WORD", "DAY_SHOOTOUT", "DAY_SPEECH"} \cup BallotPhases
  BY <1>5 DEF ApplyNextSpeaker
<1>. QED BY <1>1, <1>2, <1>3, <1>4, <1>5

-----------------------------------------------------------------------------
(* What the players and the judge do within a phase.                       *)

LEMMA NominationsTyped ==
  ASSUME NEW g \in GameState, NEW t \in Seats
  PROVE ApplyNominate(g, t) \in GameState /\ ApplyJudgeUnnominate(g, t) \in GameState
<1>1. g.nominations \in Seq(Seats) /\ g.speaker \in SeatOrNone BY DEF GameState
<1>2. Append(g.nominations, t) \in Seq(Seats) /\ Without(g.nominations, t) \in Seq(Seats)
  BY <1>1, WithoutTyped
<1>. QED BY <1>1, <1>2, TableFacts DEF ApplyNominate, ApplyJudgeUnnominate, GameState

LEMMA BallotsTyped ==
  ASSUME NEW g \in GameState, NEW v \in Seats, NEW t \in Seats, NEW ballot \in {"yes", "no"}
  PROVE /\ ApplyCastVote(g, v, t) \in GameState
        /\ ApplyLiftAllVote(g, v, ballot) \in GameState
        /\ ApplyBestMoveGuess(g, v) \in GameState
<1>1. t \in SeatOrNone /\ ballot \in Ballots BY TableFacts DEF Ballots
<1>. QED BY <1>1 DEF ApplyCastVote, ApplyLiftAllVote, ApplyBestMoveGuess, GameState

LEMMA NightTyped ==
  ASSUME NEW g \in GameState, NEW v \in Seats, NEW t \in Seats
  PROVE /\ ApplyMafiaTarget(g, v, t) \in GameState
        /\ ApplyDonCheck(g, v) \in GameState
        /\ ApplySheriffCheck(g, v) \in GameState
<1>1. t \in SeatOrNone /\ v \in SeatOrNone BY TableFacts
<1>. QED BY <1>1 DEF ApplyMafiaTarget, ApplyDonCheck, ApplySheriffCheck, GameState

LEMMA CardPickTyped ==
  ASSUME NEW g \in GameState, NEW v \in Seats, NEW c \in Cards
  PROVE ApplyRoleCardPick(g, v, c) \in GameState
BY PickersTyped DEF ApplyRoleCardPick, GameState

-----------------------------------------------------------------------------
(* Discipline.                                                             *)

LEMMA StrikeOutTyped ==
  ASSUME NEW g \in GameState, NEW s \in Seats
  PROVE StrikeOut(g, s) \in GameState
<1>. DEFINE turn == PassTheTurn(g, s)
            floor == IF g.speaker = s THEN NoSeat ELSE g.speaker
            leaving == IF g.farewell = s THEN NoSeat ELSE g.farewell
            cancelled == g.disqualified \/ g.phase \in CourtPhases
            noms == Without(g.nominations, s)
            ties == Without(g.tied, s)
            words == Without(g.lastWord, s)
            urn == Purged(g.votes, s)
            shots == Purged(g.mafiaVotes, s)
<1>1. turn \in SeatOrNone
  <2>1. g.picker \in SeatOrNone BY DEF GameState
  <2>. QED BY <2>1, PickersTyped DEF PassTheTurn
<1>2. floor \in SeatOrNone /\ leaving \in SeatOrNone /\ cancelled \in BOOLEAN
  BY TableFacts DEF GameState
<1>3. noms \in Seq(Seats) /\ ties \in Seq(Seats) /\ words \in Seq(Seats)
  BY WithoutTyped DEF GameState
<1>4. urn \in [Seats -> SeatOrNone] /\ shots \in [Seats -> SeatOrNone]
  BY TableFacts DEF Purged, GameState
<1>5. "none" \in Ballots BY DEF Ballots
<1>6. StrikeOut(g, s) =
        [g EXCEPT !.alive = @ \ {s}, !.removed = @ \cup {s}, !.nominations = noms,
                  !.votes = urn, !.mafiaVotes = shots, !.tied = ties, !.lastWord = words,
                  !.lift[s] = "none", !.picker = turn, !.speaker = floor,
                  !.farewell = leaving, !.disqualified = cancelled]
  BY DEF StrikeOut
<1>. HIDE DEF turn, floor, leaving, cancelled, noms, ties, words, urn, shots
<1>. DEFINE e == [g EXCEPT !.alive = @ \ {s}, !.removed = @ \cup {s}, !.nominations = noms,
                           !.votes = urn]
            f == [e EXCEPT !.mafiaVotes = shots, !.tied = ties, !.lastWord = words,
                           !.lift[s] = "none"]
<1>7. e \in GameState BY <1>3, <1>4 DEF GameState
<1>8. StrikeOut(g, s) = [f EXCEPT !.picker = turn, !.speaker = floor,
                                  !.farewell = leaving, !.disqualified = cancelled]
  BY <1>6 DEF GameState
<1>. HIDE DEF e
<1>9. f \in GameState BY <1>3, <1>4, <1>5, <1>7 DEF GameState
<1>. HIDE DEF f
<1>10. [f EXCEPT !.picker = turn, !.speaker = floor] \in GameState BY <1>1, <1>2, <1>9 DEF GameState
<1>11. \A h \in GameState : [h EXCEPT !.farewell = leaving, !.disqualified = cancelled] \in GameState
  BY <1>2 DEF GameState
<1>12. StrikeOut(g, s) = [[f EXCEPT !.picker = turn, !.speaker = floor]
                            EXCEPT !.farewell = leaving, !.disqualified = cancelled]
  BY <1>8, <1>9 DEF GameState
<1>. QED BY <1>10, <1>11, <1>12

LEMMA RemoveTyped ==
  ASSUME NEW g \in GameState, NEW s \in Seats
  PROVE ApplyJudgeRemove(g, s) \in GameState
<1>1. StrikeOut(g, s) \in GameState BY StrikeOutTyped
<1>2. Finish(StrikeOut(g, s)) \in GameState BY <1>1, FinishTyped
<1>. QED BY <1>1, <1>2 DEF ApplyJudgeRemove

LEMMA FoulsTyped ==
  ASSUME NEW g \in GameState, NEW s \in Seats
  PROVE /\ g.fouls[s] < FoulRemove => AddFoul(g, s) \in GameState
        /\ CanUnfoul(g, s) => ApplyJudgeUnfoul(g, s) \in GameState
<1>. DEFINE fouled == [g EXCEPT !.fouls[s] = @ + 1]
<1>1. g.fouls \in [Seats -> 0..FoulRemove] /\ FoulRemove \in Nat
  BY RulesAssumption DEF GameState
<1>2. ASSUME g.fouls[s] < FoulRemove PROVE AddFoul(g, s) \in GameState
  <2>1. g.fouls[s] + 1 \in 0..FoulRemove BY <1>1, <1>2
  <2>2. fouled \in GameState BY <2>1 DEF GameState
  <2>. HIDE DEF fouled
  <2>3. ApplyJudgeRemove(fouled, s) \in GameState BY <2>2, RemoveTyped
  <2>. QED BY <2>2, <2>3 DEF AddFoul, fouled
<1>3. ASSUME CanUnfoul(g, s) PROVE ApplyJudgeUnfoul(g, s) \in GameState
  <2>1. g.fouls[s] - 1 \in 0..FoulRemove BY <1>1, <1>3 DEF CanUnfoul
  <2>. QED BY <2>1 DEF ApplyJudgeUnfoul, GameState
<1>. QED BY <1>2, <1>3

LEMMA EndGameTyped ==
  ASSUME NEW g \in GameState
  PROVE ApplyJudgeEndGame(g) \in GameState
BY DEF ApplyJudgeEndGame, GameState, Phases, Winners

LEMMA NewGameTyped ==
  ASSUME NEW deal \in [Seats -> Roles]
  PROVE NewGame(deal) \in GameState
<1>1. [s \in Seats |-> 0] \in [Seats -> 0..FoulRemove] BY RulesAssumption
<1>2. "PLAYER_INTRODUCTION" \in Phases /\ "none" \in Winners BY DEF Phases, Winners
<1>. QED BY <1>1, <1>2, TableFacts DEF NewGame, GameState

-----------------------------------------------------------------------------
(* Types.                                                                  *)

LEMMA InitTyped == Init => TypeOK
<1>1. SUFFICES ASSUME NEW deal \in Deals, game = NewGame(deal) PROVE TypeOK
  BY DEF Init
<1>2. deal \in [Seats -> Roles] BY EngineAssumption
<1>. QED BY <1>1, <1>2, NewGameTyped DEF TypeOK

LEMMA JudgeTyped == TypeOK /\ JudgeStep => TypeOK'
<1>. SUFFICES ASSUME TypeOK, JudgeStep PROVE TypeOK'
  OBVIOUS
<1>1. game \in GameState BY DEF TypeOK
<1>2. CASE JudgeAdvancePhase
  BY <1>1, <1>2, AdvancePhaseTyped DEF JudgeAdvancePhase, TypeOK
<1>3. CASE JudgeAdvanceSpeaker
  <2>1. ApplyNextSpeaker(game) \in GameState BY <1>1, NextSpeakerTyped
  <2>2. ApplyAdvancePhase(ApplyNextSpeaker(game)) \in GameState BY <2>1, AdvancePhaseTyped
  <2>. QED BY <1>3, <2>1, <2>2 DEF JudgeAdvanceSpeaker, TypeOK
<1>4. CASE JudgeLeave BY <1>1, <1>4, EndGameTyped DEF JudgeLeave, TypeOK
<1>5. ASSUME NEW s \in Seats,
             JudgeNominate(s) \/ JudgeUnnominate(s) \/ JudgeFoul(s) \/ JudgeUnfoul(s) \/ JudgeRemove(s)
      PROVE TypeOK'
  <2>1. CASE JudgeNominate(s)
    BY <1>1, <2>1, NominationsTyped DEF JudgeNominate, TypeOK
  <2>2. CASE JudgeUnnominate(s)
    BY <1>1, <2>2, NominationsTyped DEF JudgeUnnominate, TypeOK
  <2>3. CASE JudgeFoul(s)
    BY <1>1, <2>3, FoulsTyped DEF JudgeFoul, CanFoul, ApplyJudgeFoul, TypeOK
  <2>4. CASE JudgeUnfoul(s) BY <1>1, <2>4, FoulsTyped DEF JudgeUnfoul, TypeOK
  <2>5. CASE JudgeRemove(s) BY <1>1, <2>5, RemoveTyped DEF JudgeRemove, TypeOK
  <2>. QED BY <1>5, <2>1, <2>2, <2>3, <2>4, <2>5
<1>. QED BY <1>2, <1>3, <1>4, <1>5 DEF JudgeStep

LEMMA PlayerTyped ==
  ASSUME TypeOK, NEW s \in Seats, PlayerStep(s)
  PROVE TypeOK'
<1>1. game \in GameState BY DEF TypeOK
<1>2. CASE SayOutOfTurn(s)
  BY <1>1, <1>2, FoulsTyped DEF SayOutOfTurn, CanSayOutOfTurn, ApplyOutOfTurn, TypeOK
<1>3. CASE PlayerLeave(s) BY <1>1, <1>3, RemoveTyped DEF PlayerLeave, TypeOK
<1>4. ASSUME NEW ballot \in {"yes", "no"}, CastLiftAllVote(s, ballot) PROVE TypeOK'
  BY <1>1, <1>4, BallotsTyped DEF CastLiftAllVote, TypeOK
<1>5. ASSUME NEW guess \in SUBSET Seats, CastBestMoveGuess(s, guess) PROVE TypeOK'
  BY <1>1, <1>5, BallotsTyped DEF CastBestMoveGuess, TypeOK
<1>6. ASSUME NEW c \in Cards, PickRoleCard(s, c) PROVE TypeOK'
  BY <1>1, <1>6, CardPickTyped DEF PickRoleCard, TypeOK
<1>7. ASSUME NEW t \in Seats,
             CastVote(s, t) \/ ChooseMafiaTarget(s, t) \/ CheckAsDon(s, t) \/ CheckAsSheriff(s, t)
      PROVE TypeOK'
  <2>1. CASE CastVote(s, t) BY <1>1, <2>1, BallotsTyped DEF CastVote, TypeOK
  <2>2. CASE ChooseMafiaTarget(s, t) BY <1>1, <2>2, NightTyped DEF ChooseMafiaTarget, TypeOK
  <2>3. CASE CheckAsDon(s, t) BY <1>1, <2>3, NightTyped DEF CheckAsDon, TypeOK
  <2>4. CASE CheckAsSheriff(s, t) BY <1>1, <2>4, NightTyped DEF CheckAsSheriff, TypeOK
  <2>. QED BY <1>7, <2>1, <2>2, <2>3, <2>4
<1>. QED BY <1>2, <1>3, <1>4, <1>5, <1>6, <1>7 DEF PlayerStep

LEMMA NextTyped == TypeOK /\ [Next]_game => TypeOK'
<1>1. ASSUME TypeOK, UNCHANGED game PROVE TypeOK' BY <1>1 DEF TypeOK
<1>. QED BY <1>1, JudgeTyped, PlayerTyped DEF Next

\* The table the service keeps is always a well-formed GameState: every engine
\* function answers with one when it is given one (game.state.ts).
THEOREM TypeCorrect == Spec => []TypeOK
<1>. QED BY InitTyped, NextTyped, PTL DEF Spec

-----------------------------------------------------------------------------
(* A cancelled day.                                                        *)

\* Leaving a phase of a cancelled day takes nobody from the table.
LEMMA CancelledAdvanceSpares ==
  ASSUME NEW g \in GameState, g.disqualified, g.phase \in CourtPhases
  PROVE ApplyAdvancePhase(g).alive = g.alive
<1>. DEFINE left == Leave(g)
<1>1. left \in GameState /\ Resolve(g) \in GameState BY LeaveTyped, ResolveTyped
<1>2. left.alive = g.alive
  <2>1. CASE g.phase = "DAY_VOTE" BY <2>1 DEF Leave, LeaveVote, Acquit, GameState
  <2>2. CASE g.phase = "DAY_REVOTE"
    BY <2>2 DEF Leave, LeaveRevote, Acquit, GameState
  <2>3. CASE g.phase = "DAY_LIFT_VOTE" BY <2>3 DEF Leave, LeaveLiftVote, GameState
  <2>4. CASE g.phase = "DAY_SPEECH" BY <2>4 DEF Leave, LeaveSpeech, Acquit, GameState
  <2>5. CASE g.phase = "DAY_SHOOTOUT" BY <2>5 DEF Leave, GameState
  <2>6. CASE g.phase = "DAY_VOTE_INTRO" BY <2>6 DEF Leave, GameState
  <2>. QED BY <2>1, <2>2, <2>3, <2>4, <2>5, <2>6 DEF CourtPhases
<1>3. Resolve(g).alive = g.alive
  <2>1. CASE g.phase # "DAY_VOTE_INTRO" BY <1>2, <2>1 DEF Resolve
  <2>2. CASE g.phase = "DAY_VOTE_INTRO"
    <3>1. left = g BY <2>2 DEF Leave
    <3>2. NextPhase(left) = "NIGHT_MAFIA" BY <2>2, <3>1 DEF NextPhase
    <3>3. Resolve(g) = SettleIntro(g, "NIGHT_MAFIA") BY <2>2, <3>1, <3>2 DEF Resolve
    <3>4. Acquit(g).alive = g.alive BY DEF Acquit, GameState
    <3>. QED BY <3>3, <3>4 DEF SettleIntro
  <2>. QED BY <2>1, <2>2
<1>4. Finish(Resolve(g)).alive = g.alive BY <1>1, <1>3 DEF Finish, GameState
<1>5. \A to : Enter(g, Resolve(g), to).alive = g.alive BY <1>1, <1>3 DEF Enter, GameState
<1>. QED BY <1>3, <1>4, <1>5 DEF ApplyAdvancePhase

LEMMA StepperKeeps ==
  ASSUME NEW g \in GameState
  PROVE LET h == ApplyNextSpeaker(g)
        IN h.alive = g.alive /\ h.phase = g.phase /\ h.disqualified = g.disqualified
<1>1. CASE g.phase = "DAY_LAST_WORD"
  BY <1>1 DEF ApplyNextSpeaker, GameState, BallotPhases
<1>2. CASE g.phase = "DAY_SHOOTOUT" BY <1>2 DEF ApplyNextSpeaker, GameState, BallotPhases
<1>3. CASE g.phase \in BallotPhases BY <1>3 DEF ApplyNextSpeaker, GameState, BallotPhases
<1>4. CASE g.phase = "DAY_SPEECH" BY <1>4 DEF ApplyNextSpeaker, GameState, BallotPhases
<1>5. CASE g.phase \notin {"DAY_LAST_WORD", "DAY_SHOOTOUT", "DAY_SPEECH"} \cup BallotPhases
  BY <1>5 DEF ApplyNextSpeaker
<1>. QED BY <1>1, <1>2, <1>3, <1>4, <1>5

\* Whoever a removal takes from the table is on the list of the removed.
LEMMA RemovalIsRecorded ==
  ASSUME NEW g \in GameState, NEW s \in Seats
  PROVE g.alive \ ApplyJudgeRemove(g, s).alive \subseteq ApplyJudgeRemove(g, s).removed
<1>. DEFINE h == StrikeOut(g, s)
<1>1. h \in GameState BY StrikeOutTyped
<1>2. h.alive = g.alive \ {s} /\ h.removed = g.removed \cup {s} BY DEF StrikeOut, GameState
<1>. HIDE DEF h
<1>3. Finish(h).alive = h.alive /\ Finish(h).removed = h.removed BY <1>1 DEF Finish, GameState
<1>. QED BY <1>2, <1>3 DEF ApplyJudgeRemove, h

LEMMA FoulIsRecorded ==
  ASSUME NEW g \in GameState, NEW s \in Seats, g.fouls[s] < FoulRemove
  PROVE g.alive \ AddFoul(g, s).alive \subseteq AddFoul(g, s).removed
<1>. DEFINE fouled == [g EXCEPT !.fouls[s] = @ + 1]
<1>1. fouled.alive = g.alive BY DEF GameState
<1>2. fouled \in GameState
  <2>1. g.fouls[s] + 1 \in 0..FoulRemove BY RulesAssumption DEF GameState
  <2>. QED BY <2>1 DEF GameState
<1>. HIDE DEF fouled
<1>3. fouled.alive \ ApplyJudgeRemove(fouled, s).alive \subseteq ApplyJudgeRemove(fouled, s).removed
  BY <1>2, RemovalIsRecorded
<1>. QED BY <1>1, <1>3 DEF AddFoul, fouled

CancelledStepSpares ==
  game.disqualified /\ game.phase \in CourtPhases =>
    game.alive \ game'.alive \subseteq game'.removed

LEMMA CancelledStep == TypeOK /\ [Next]_game => CancelledStepSpares
<1>. SUFFICES ASSUME TypeOK, [Next]_game, game.disqualified, game.phase \in CourtPhases
              PROVE game.alive \ game'.alive \subseteq game'.removed
  BY DEF CancelledStepSpares
<1>1. game \in GameState BY DEF TypeOK
<1>2. CASE UNCHANGED game BY <1>2
<1>3. CASE JudgeAdvancePhase
  BY <1>1, <1>3, CancelledAdvanceSpares DEF JudgeAdvancePhase
<1>4. CASE JudgeAdvanceSpeaker
  <2>. DEFINE h == ApplyNextSpeaker(game)
  <2>1. h \in GameState BY <1>1, NextSpeakerTyped
  <2>2. h.alive = game.alive /\ h.phase = game.phase /\ h.disqualified = game.disqualified
    BY <1>1, StepperKeeps
  <2>3. ApplyAdvancePhase(h).alive = h.alive BY <2>1, <2>2, CancelledAdvanceSpares
  <2>4. game' = h \/ game' = ApplyAdvancePhase(h) BY <1>4 DEF JudgeAdvanceSpeaker
  <2>. QED BY <2>2, <2>3, <2>4
<1>5. CASE JudgeLeave BY <1>1, <1>5 DEF JudgeLeave, ApplyJudgeEndGame, GameState
<1>6. ASSUME NEW s \in Seats, JudgeFoul(s) \/ SayOutOfTurn(s)
      PROVE game.alive \ game'.alive \subseteq game'.removed
  <2>1. game.fouls[s] < FoulRemove /\ game' = AddFoul(game, s)
    BY <1>6 DEF JudgeFoul, CanFoul, ApplyJudgeFoul, SayOutOfTurn, CanSayOutOfTurn, ApplyOutOfTurn
  <2>. QED BY <1>1, <2>1, FoulIsRecorded
<1>7. ASSUME NEW s \in Seats, JudgeRemove(s) \/ PlayerLeave(s)
      PROVE game.alive \ game'.alive \subseteq game'.removed
  BY <1>1, <1>7, RemovalIsRecorded DEF JudgeRemove, PlayerLeave
<1>8. ASSUME NEW s \in Seats, JudgeNominate(s) \/ JudgeUnnominate(s) \/ JudgeUnfoul(s)
      PROVE game'.alive = game.alive
  BY <1>1, <1>8 DEF JudgeNominate, ApplyNominate, JudgeUnnominate, ApplyJudgeUnnominate,
                    JudgeUnfoul, ApplyJudgeUnfoul, GameState
<1>9. ASSUME NEW s \in Seats, NEW t \in Seats,
             CastVote(s, t) \/ ChooseMafiaTarget(s, t) \/ CheckAsDon(s, t) \/ CheckAsSheriff(s, t)
      PROVE game'.alive = game.alive
  BY <1>1, <1>9 DEF CastVote, ApplyCastVote, ChooseMafiaTarget, ApplyMafiaTarget, CheckAsDon,
                    ApplyDonCheck, CheckAsSheriff, ApplySheriffCheck, GameState
<1>10. ASSUME NEW s \in Seats,
              \/ \E ballot \in {"yes", "no"} : CastLiftAllVote(s, ballot)
              \/ \E guess \in SUBSET Seats : CastBestMoveGuess(s, guess)
              \/ \E c \in Cards : PickRoleCard(s, c)
       PROVE game'.alive = game.alive
  BY <1>1, <1>10 DEF CastLiftAllVote, ApplyLiftAllVote, CastBestMoveGuess, ApplyBestMoveGuess,
                     PickRoleCard, ApplyRoleCardPick, GameState
<1>. QED
  BY <1>2, <1>3, <1>4, <1>5, <1>6, <1>7, <1>8, <1>9, <1>10 DEF Next, JudgeStep, PlayerStep

\* Once a removal has cancelled the day, nothing that was voted, before or
\* after it, takes another seat before night falls (judge.ts:188-200).
THEOREM CancelledDay == Spec => CancelledDayKillsNobody
<1>1. TypeOK /\ [Next]_game =>
        [game.disqualified /\ game.phase \in CourtPhases =>
           game.alive \ game'.alive \subseteq game'.removed]_game
  BY CancelledStep DEF CancelledStepSpares
<1>. QED BY <1>1, TypeCorrect, PTL DEF Spec, CancelledDayKillsNobody

-----------------------------------------------------------------------------
(* The speeches.                                                           *)

LEMMA NobodyLeftToSpeak ==
  ASSUME NEW g \in GameState, g.phase = "DAY_SPEECH", SpeechesDone(g)
  PROVE \A s \in Live(g) : s \in g.spoken \cup {g.speaker} \/ g.fouls[s] >= FoulMute
<1>1. g.speaker \in Seats /\ AfterSpeech(g) = NoSeat
  BY DEF SpeechesDone, BallotPhases, GameState, SeatOrNone
<1>2. Live(g) \in SUBSET Seats BY DEF Live, GameState
<1>3. CASE g.farewell = g.speaker
  <2>1. FirstFrom(Live(g), (g.day % SeatCount) + 1) = NoSeat
    BY <1>1, <1>3 DEF AfterSpeech, DayStartSeat
  <2>2. (g.day % SeatCount) + 1 \in 1..(SeatCount + 1)
    <3>1. g.day \in Nat /\ SeatCount \in Nat \ {0} BY RulesAssumption DEF GameState
    <3>. QED BY <3>1
  <2>3. Live(g) # {} => NoSeat \in Live(g) BY <1>2, <2>1, <2>2, FirstFromFinds
  <2>4. NoSeat \notin Live(g) BY <1>2 DEF Seats, NoSeat
  <2>. QED BY <2>3, <2>4
<1>4. CASE g.farewell # g.speaker
  <2>. DEFINE h == [g EXCEPT !.spoken = @ \cup {g.speaker}]
              quiet == {s \in Live(h) \ h.spoken : h.fouls[s] < FoulMute}
  <2>1. /\ Live(h) = Live(g) /\ h.fouls = g.fouls
        /\ h.spoken = g.spoken \cup {g.speaker}
    BY DEF Live, GameState
  <2>2. NextSpeakerSeat(h, g.speaker + 1) = NoSeat BY <1>1, <1>4 DEF AfterSpeech
  <2>. HIDE DEF h
  <2>3. FirstFrom(quiet, g.speaker + 1) = NoSeat BY <2>2 DEF NextSpeakerSeat
  <2>4. quiet \in SUBSET Seats BY <1>2, <2>1
  <2>5. g.speaker + 1 \in 1..(SeatCount + 1) BY <1>1, TableFacts DEF Seats
  <2>. HIDE DEF quiet
  <2>6. quiet = {}
    <3>1. quiet # {} => NoSeat \in quiet BY <2>3, <2>4, <2>5, FirstFromFinds
    <3>2. NoSeat \notin quiet BY <2>4 DEF Seats, NoSeat
    <3>. QED BY <3>1, <3>2
  <2>7. SUFFICES ASSUME NEW s \in Live(g), s \notin g.spoken \cup {g.speaker}
                 PROVE g.fouls[s] >= FoulMute
    OBVIOUS
  <2>8. ~(g.fouls[s] < FoulMute) BY <2>1, <2>6, <2>7 DEF quiet
  <2>9. g.fouls[s] \in Int /\ FoulMute \in Int BY <1>2, RulesAssumption DEF GameState
  <2>. QED BY <2>8, <2>9
<1>. QED BY <1>3, <1>4

\* The speeches are not over while somebody in play, and not muted, has not been
\* heard: nextSpeakerSeat walks the whole table, whoever was removed, fouled or
\* forgiven meanwhile (applyNextSpeaker, phase.ts).
THEOREM EveryoneIsHeard == Spec => EveryoneHeard
<1>1. ASSUME TypeOK, JudgeAdvanceSpeaker, game.phase = "DAY_SPEECH", game'.phase # "DAY_SPEECH"
      PROVE \A s \in Live(game) : s \in game.spoken \cup {game.speaker}
                                  \/ game.fouls[s] >= FoulMute
  <2>1. game \in GameState BY <1>1 DEF TypeOK
  <2>2. ApplyNextSpeaker(game).phase = "DAY_SPEECH" BY <1>1, <2>1, StepperKeeps
  <2>3. SpeechesDone(game) BY <1>1, <2>2 DEF JudgeAdvanceSpeaker
  <2>. QED BY <1>1, <2>1, <2>3, NobodyLeftToSpeak
<1>2. TypeOK /\ [Next]_game =>
        [JudgeAdvanceSpeaker /\ game.phase = "DAY_SPEECH" /\ game'.phase # "DAY_SPEECH" =>
           \A s \in Live(game) : s \in game.spoken \cup {game.speaker}
                                 \/ game.fouls[s] >= FoulMute]_game
  BY <1>1
<1>. QED BY <1>2, TypeCorrect, PTL DEF Spec, EveryoneHeard

-----------------------------------------------------------------------------
(* The card ceremony.                                                      *)

\* PickerCanPick, of a table g.
PickGoesOn(g) ==
  PicksPending(g) => g.picker \notin g.removed /\ Cardinality(g.cards) < g.picker

\* Tables with the same ceremony.
SameTurn(g, h) ==
  h.phase = g.phase /\ h.picker = g.picker /\ h.cards = g.cards /\ h.removed = g.removed

LEMMA PickOfSame ==
  ASSUME NEW g, NEW h, SameTurn(g, h), PickGoesOn(g)
  PROVE PickGoesOn(h)
BY DEF SameTurn, PickGoesOn, PicksPending

\* The turn passes to a seat further on that is still in the game.
LEMMA TurnMovesOn ==
  ASSUME NEW g \in GameState, NEW s \in Seats, NextRoleCardPicker(g, s) # NoSeat
  PROVE /\ NextRoleCardPicker(g, s) \in Seats \ g.removed
        /\ NextRoleCardPicker(g, s) > s
<1>. DEFINE S == {t \in Seats \ g.removed : t > s}
<1>1. S \in SUBSET Seats /\ s + 1 \in 1..(SeatCount + 1) BY TableFacts DEF Seats
<1>2. NextRoleCardPicker(g, s) = FirstFrom(S, s + 1) BY DEF NextRoleCardPicker
<1>. HIDE DEF S
<1>3. NextRoleCardPicker(g, s) \in S BY <1>1, <1>2, FirstFromFinds
<1>. QED BY <1>3 DEF S

LEMMA CardsAreFinite ==
  ASSUME NEW g \in GameState
  PROVE IsFiniteSet(g.cards) /\ Cardinality(g.cards) \in Nat
<1>1. IsFiniteSet(g.cards) BY RulesAssumption, FS_Subset DEF GameState
<1>. QED BY <1>1, FS_CardinalityType

LEMMA CardPickGoesOn ==
  ASSUME NEW g \in GameState, NEW v \in Seats, NEW c \in Cards, CanPickCard(g, v, c),
         PickGoesOn(g)
  PROVE PickGoesOn(ApplyRoleCardPick(g, v, c))
<1>. DEFINE h == ApplyRoleCardPick(g, v, c)
            n == NextRoleCardPicker(g, v)
<1>1. /\ h.phase = g.phase /\ h.removed = g.removed /\ h.picker = n
      /\ h.cards = g.cards \cup {c}
  BY DEF ApplyRoleCardPick, GameState
<1>. HIDE DEF h, n
<1>2. v # NoSeat /\ v \in Nat BY TableFacts DEF Seats, NoSeat
<1>3. Cardinality(g.cards) < v BY <1>2 DEF CanPickCard, PickGoesOn, PicksPending
<1>4. Cardinality(h.cards) = Cardinality(g.cards) + 1
  BY <1>1, CardsAreFinite, FS_AddElement DEF CanPickCard
<1>5. ASSUME n # NoSeat PROVE n \in Seats \ g.removed /\ n > v BY <1>5, TurnMovesOn DEF n
<1>6. ASSUME n # NoSeat PROVE Cardinality(h.cards) < n
  <2>1. n \in Nat /\ Cardinality(g.cards) \in Nat
    BY <1>5, <1>6, CardsAreFinite, TableFacts DEF Seats
  <2>. QED BY <1>2, <1>3, <1>4, <1>5, <1>6, <2>1
<1>7. PickGoesOn(h) BY <1>1, <1>5, <1>6 DEF PickGoesOn, PicksPending
<1>. QED BY <1>7 DEF h

LEMMA StrikeGoesOn ==
  ASSUME NEW g \in GameState, NEW s \in Seats, PickGoesOn(g)
  PROVE PickGoesOn(StrikeOut(g, s))
<1>. DEFINE h == StrikeOut(g, s)
            n == NextRoleCardPicker(g, s)
<1>1. /\ h.phase = g.phase /\ h.removed = g.removed \cup {s}
      /\ h.picker = PassTheTurn(g, s) /\ h.cards = g.cards
  BY DEF StrikeOut, GameState
<1>. HIDE DEF h, n
<1>2. CASE g.phase = "ROLE_DISTRIBUTION" /\ g.picker = s
  <2>1. h.picker = n BY <1>1, <1>2 DEF PassTheTurn, n
  <2>2. s # NoSeat /\ s \in Nat BY TableFacts DEF Seats, NoSeat
  <2>3. Cardinality(g.cards) < s BY <1>2, <2>2 DEF PickGoesOn, PicksPending
  <2>4. ASSUME n # NoSeat PROVE n \in Seats \ g.removed /\ n > s BY <2>4, TurnMovesOn DEF n
  <2>5. ASSUME n # NoSeat PROVE n \notin h.removed /\ Cardinality(h.cards) < n
    <3>1. n \in Nat /\ Cardinality(g.cards) \in Nat
      BY <2>4, <2>5, CardsAreFinite, TableFacts DEF Seats
    <3>2. n # s BY <2>2, <2>4, <2>5, <3>1
    <3>. QED BY <1>1, <2>2, <2>3, <2>4, <2>5, <3>1, <3>2
  <2>6. PickGoesOn(h) BY <2>1, <2>5 DEF PickGoesOn, PicksPending
  <2>. QED BY <2>6 DEF h
<1>3. CASE ~(g.phase = "ROLE_DISTRIBUTION" /\ g.picker = s)
  <2>1. h.picker = g.picker BY <1>1, <1>3 DEF PassTheTurn
  <2>2. PickGoesOn(h) BY <1>1, <1>3, <2>1 DEF PickGoesOn, PicksPending
  <2>. QED BY <2>2 DEF h
<1>. QED BY <1>2, <1>3

LEMMA RemovalGoesOn ==
  ASSUME NEW g \in GameState, NEW s \in Seats, PickGoesOn(g)
  PROVE PickGoesOn(ApplyJudgeRemove(g, s))
<1>. DEFINE h == StrikeOut(g, s)
<1>1. h \in GameState /\ PickGoesOn(h) BY StrikeOutTyped, StrikeGoesOn
<1>. HIDE DEF h
<1>2. Finish(h).phase = "GAME_OVER" BY <1>1 DEF Finish, GameState
<1>3. PickGoesOn(Finish(h)) BY <1>2 DEF PickGoesOn, PicksPending
<1>. QED BY <1>1, <1>3 DEF ApplyJudgeRemove, h

LEMMA FoulGoesOn ==
  ASSUME NEW g \in GameState, NEW s \in Seats, g.fouls[s] < FoulRemove, PickGoesOn(g)
  PROVE PickGoesOn(AddFoul(g, s))
<1>. DEFINE fouled == [g EXCEPT !.fouls[s] = @ + 1]
<1>1. fouled \in GameState
  <2>1. g.fouls[s] + 1 \in 0..FoulRemove BY RulesAssumption DEF GameState
  <2>. QED BY <2>1 DEF GameState
<1>2. SameTurn(g, fouled) BY DEF SameTurn, GameState
<1>. HIDE DEF fouled
<1>3. PickGoesOn(fouled) BY <1>2, PickOfSame
<1>. QED BY <1>1, <1>3, RemovalGoesOn DEF AddFoul, fouled

\* The ceremony opens with the first seat in the game and no card taken.
LEMMA EnterGoesOn ==
  ASSUME NEW before \in GameState, NEW h \in GameState, NEW to
  PROVE PickGoesOn(Enter(before, h, to))
<1>. DEFINE e == Enter(before, h, to)
<1>1. /\ e.phase = to /\ e.removed = h.removed
      /\ to = "ROLE_DISTRIBUTION" => e.picker = FirstRoleCardPicker(h) /\ e.cards = {}
  BY DEF Enter, GameState
<1>. HIDE DEF e
<1>2. CASE to # "ROLE_DISTRIBUTION"
  <2>1. ~PicksPending(e) BY <1>1, <1>2 DEF PicksPending
  <2>2. PickGoesOn(e) BY <2>1 DEF PickGoesOn
  <2>. QED BY <2>2 DEF e
<1>3. CASE to = "ROLE_DISTRIBUTION"
  <2>1. Seats \ h.removed \in SUBSET Seats /\ 1 \in 1..(SeatCount + 1) BY TableFacts
  <2>2. e.picker # NoSeat => e.picker \in Seats \ h.removed
    BY <1>1, <1>3, <2>1, FirstFromFinds DEF FirstRoleCardPicker
  <2>3. Cardinality(e.cards) = 0 BY <1>1, <1>3, FS_EmptySet
  <2>4. e.picker # NoSeat => Cardinality(e.cards) < e.picker
    BY <2>2, <2>3, TableFacts DEF Seats
  <2>5. PickGoesOn(e) BY <1>1, <2>2, <2>4 DEF PickGoesOn, PicksPending
  <2>. QED BY <2>5 DEF e
<1>. QED BY <1>2, <1>3

LEMMA AdvanceGoesOn ==
  ASSUME NEW g \in GameState, PickGoesOn(g)
  PROVE PickGoesOn(ApplyAdvancePhase(g))
<1>. DEFINE h == Resolve(g)
            to == NextPhase(Leave(g))
<1>1. h \in GameState BY ResolveTyped
<1>2. Finish(h).phase = "GAME_OVER" BY <1>1 DEF Finish, GameState
<1>3. PickGoesOn(Finish(h)) BY <1>2 DEF PickGoesOn, PicksPending
<1>4. PickGoesOn(Enter(g, h, to)) BY <1>1, EnterGoesOn
<1>. HIDE DEF h, to
<1>. QED BY <1>3, <1>4 DEF ApplyAdvancePhase, h, to

LEMMA StepperSameTurn ==
  ASSUME NEW g \in GameState
  PROVE SameTurn(g, ApplyNextSpeaker(g))
<1>1. CASE g.phase = "DAY_LAST_WORD"
  BY <1>1 DEF ApplyNextSpeaker, GameState, BallotPhases, SameTurn
<1>2. CASE g.phase = "DAY_SHOOTOUT"
  BY <1>2 DEF ApplyNextSpeaker, GameState, BallotPhases, SameTurn
<1>3. CASE g.phase \in BallotPhases
  BY <1>3 DEF ApplyNextSpeaker, GameState, BallotPhases, SameTurn
<1>4. CASE g.phase = "DAY_SPEECH"
  BY <1>4 DEF ApplyNextSpeaker, GameState, BallotPhases, SameTurn
<1>5. CASE g.phase \notin {"DAY_LAST_WORD", "DAY_SHOOTOUT", "DAY_SPEECH"} \cup BallotPhases
  BY <1>5 DEF ApplyNextSpeaker, SameTurn
<1>. QED BY <1>1, <1>2, <1>3, <1>4, <1>5

LEMMA PickStep ==
  ASSUME TypeOK, PickGoesOn(game), [Next]_game
  PROVE PickGoesOn(game')
<1>1. game \in GameState BY DEF TypeOK
<1>2. CASE UNCHANGED game BY <1>2
<1>3. CASE JudgeAdvancePhase BY <1>1, <1>3, AdvanceGoesOn DEF JudgeAdvancePhase
<1>4. CASE JudgeAdvanceSpeaker
  <2>. DEFINE h == ApplyNextSpeaker(game)
  <2>1. h \in GameState /\ PickGoesOn(h)
    BY <1>1, NextSpeakerTyped, StepperSameTurn, PickOfSame
  <2>2. game' = h \/ game' = ApplyAdvancePhase(h) BY <1>4 DEF JudgeAdvanceSpeaker
  <2>. HIDE DEF h
  <2>. QED BY <2>1, <2>2, AdvanceGoesOn
<1>5. CASE JudgeLeave
  <2>1. game'.phase = "GAME_OVER" BY <1>1, <1>5 DEF JudgeLeave, ApplyJudgeEndGame, GameState
  <2>. QED BY <2>1 DEF PickGoesOn, PicksPending
<1>6. ASSUME NEW s \in Seats, JudgeFoul(s) \/ SayOutOfTurn(s) PROVE PickGoesOn(game')
  <2>1. game.fouls[s] < FoulRemove /\ game' = AddFoul(game, s)
    BY <1>6 DEF JudgeFoul, CanFoul, ApplyJudgeFoul, SayOutOfTurn, CanSayOutOfTurn, ApplyOutOfTurn
  <2>. QED BY <1>1, <2>1, FoulGoesOn
<1>7. ASSUME NEW s \in Seats, JudgeRemove(s) \/ PlayerLeave(s) PROVE PickGoesOn(game')
  BY <1>1, <1>7, RemovalGoesOn DEF JudgeRemove, PlayerLeave
<1>8. ASSUME NEW s \in Seats, JudgeNominate(s) \/ JudgeUnnominate(s) \/ JudgeUnfoul(s)
      PROVE PickGoesOn(game')
  <2>1. SameTurn(game, game')
    BY <1>1, <1>8 DEF JudgeNominate, ApplyNominate, JudgeUnnominate, ApplyJudgeUnnominate,
                      JudgeUnfoul, ApplyJudgeUnfoul, GameState, SameTurn
  <2>. QED BY <2>1, PickOfSame
<1>9. ASSUME NEW s \in Seats, NEW t \in Seats,
             CastVote(s, t) \/ ChooseMafiaTarget(s, t) \/ CheckAsDon(s, t) \/ CheckAsSheriff(s, t)
      PROVE PickGoesOn(game')
  <2>1. SameTurn(game, game')
    BY <1>1, <1>9 DEF CastVote, ApplyCastVote, ChooseMafiaTarget, ApplyMafiaTarget, CheckAsDon,
                      ApplyDonCheck, CheckAsSheriff, ApplySheriffCheck, GameState, SameTurn
  <2>. QED BY <2>1, PickOfSame
<1>10. ASSUME NEW s \in Seats,
              \/ \E ballot \in {"yes", "no"} : CastLiftAllVote(s, ballot)
              \/ \E guess \in SUBSET Seats : CastBestMoveGuess(s, guess)
       PROVE PickGoesOn(game')
  <2>1. SameTurn(game, game')
    BY <1>1, <1>10 DEF CastLiftAllVote, ApplyLiftAllVote, CastBestMoveGuess,
                       ApplyBestMoveGuess, GameState, SameTurn
  <2>. QED BY <2>1, PickOfSame
<1>11. ASSUME NEW s \in Seats, NEW c \in Cards, PickRoleCard(s, c) PROVE PickGoesOn(game')
  BY <1>1, <1>11, CardPickGoesOn DEF PickRoleCard
<1>. QED
  BY <1>2, <1>3, <1>4, <1>5, <1>6, <1>7, <1>8, <1>9, <1>10, <1>11
  DEF Next, JudgeStep, PlayerStep

\* Whoever the ceremony waits for is in the game and finds a card: a picker has
\* fewer cards taken before than seats in front, so the ten cards, and the turn,
\* never run out early, whoever leaves in the middle (judge.ts:135-140).
THEOREM PickersFindCards == Spec => []PickerCanPick
<1>1. Init => PickGoesOn(game)
  BY DEF Init, NewGame, PickGoesOn, PicksPending
<1>2. TypeOK /\ PickGoesOn(game) /\ [Next]_game => PickGoesOn(game)'
  BY PickStep
<1>3. PickGoesOn(game) => PickerCanPick BY DEF PickGoesOn, PickerCanPick, Gone
<1>. QED BY <1>1, <1>2, <1>3, TypeCorrect, PTL DEF Spec

=============================================================================
