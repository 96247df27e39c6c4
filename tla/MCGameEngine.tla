---------------------------- MODULE MCGameEngine ----------------------------
(***************************************************************************)
(* Small tables for TLC, from the start of a game or from a point in it    *)
(* that the engine's own operations reach.                                 *)
(***************************************************************************)
EXTENDS ViewProperties, TLC

FourSeats == {<<"civilian", "don", "sheriff", "civilian">>}
FiveSeats == {<<"civilian", "don", "civilian", "sheriff", "civilian">>}
SixSeats == {<<"mafia", "civilian", "sheriff", "don", "civilian", "civilian">>}

Symmetry == Permutations(Cards)

\* A table with fouls is followed through the first speeches, up to their ballot.
FoulsEarly ==
  (\E s \in Seats : game'.fouls[s] > 0) =>
    /\ game'.phase \in {"ROLE_DISTRIBUTION", "DAY_SPEECH", "DAY_VOTE_INTRO"}
    /\ Len(game'.nominations) <= 1 /\ Cardinality(game'.removed) <= MaxRemoved

\* The first day's opening, every card picked and nobody gone.
FirstDay(deal) ==
  LET ceremony == ApplyAdvancePhase(NewGame(deal))
      dealt == [ceremony EXCEPT !.picker = NoSeat, !.cards = Cards]
  IN ApplyAdvancePhase(ApplyAdvancePhase(dealt))

\* preassignRole can deal a second sheriff.
TwoSheriffs(deal) == [deal EXCEPT ![SeatCount] = "sheriff"]

\* The first dusk, after a day without nominations.
FirstDusk(deal) == ApplyAdvancePhase(FirstDay(deal))

\* The first day's ballot, two or three seats nominated by the first speakers; or
\* the dusk of a table with two sheriffs.
BallotInit ==
  \/ \E deal \in Deals : game = FirstDusk(TwoSheriffs(deal))
  \/ \E deal \in Deals, q \in {<<1, 2>>, <<4, 1, 3>>} :
       LET spoken == [FirstDay(deal) EXCEPT !.nominations = q, !.speaker = SeatCount,
                                            !.nominator = NoSeat]
       IN game = ApplyAdvancePhase(ApplyAdvancePhase(spoken))

BallotSpec == BallotInit /\ [][Next]_game
FairBallotSpec == BallotSpec /\ Fairness
=============================================================================
