------------------------------ MODULE MCGameLog ------------------------------
(***************************************************************************)
(* Short stretches of an evening for TLC, with everything that may happen  *)
(* to their log: three events of the first speeches, of the last one, or   *)
(* two more after the server came up in the ceremony, a ballot, a tie put  *)
(* to the question, the night or the morning.                              *)
(***************************************************************************)
EXTENDS GameLog, MCGameEngine

Fresh(g) == [table |-> g, log |-> <<>>]
Entered(g) == [table |-> g, log |-> <<PhaseChanged>>]

\* Seats 1 and 2 are nominated, and the last seat is speaking.
LastSpeech(deal) ==
  [FirstDay(deal) EXCEPT !.nominations = <<1, 2>>, !.speaker = SeatCount, !.nominator = NoSeat,
                         !.spoken = 1..(SeatCount - 1)]

VoteIntro(deal) == ApplyAdvancePhase(LastSpeech(deal))

\* Both nominees have two votes each.
Split(g) == [g EXCEPT !.votes = <<2, 1, 1, 2>>, !.round = 1]

SplitTwice(deal) ==
  LET tied == ApplyAdvancePhase(Split(ApplyAdvancePhase(VoteIntro(deal))))
  IN Split(ApplyAdvancePhase(tied))

\* The don has shot seat 1, and the checks are done.
NightIsOver(deal) ==
  ApplyAdvancePhase(ApplyAdvancePhase(
    ApplyMafiaTarget(ApplyAdvancePhase(FirstDay(deal)), 2, 1)))

Stretches ==
  UNION {{Fresh(FirstDay(deal)), Fresh(LastSpeech(deal))} \cup
         {Entered(g) : g \in {NewGame(deal), VoteIntro(deal), SplitTwice(deal),
                              FirstDay(deal), NightIsOver(deal)}} : deal \in FourSeats}
=============================================================================
