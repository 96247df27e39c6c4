----------------------------- MODULE CardCeremony -----------------------------
(***************************************************************************)
(* The card ceremony of ROLE_DISTRIBUTION with its clock: every picker has *)
(* ten seconds, after which the server picks (game.role-distribution.ts).  *)
(* The timer's callback reads the table first and takes the game's lock    *)
(* only afterwards, so clicks, fouls and removals come in between.         *)
(* The evening is followed from the introductions to the first night.      *)
(***************************************************************************)
EXTENDS GameProperties

CONSTANT MaxAutoPicks    (* bound: automatic picks waiting for the lock at once *)

ASSUME CeremonyAssumption == MaxAutoPicks \in Nat

VARIABLES
  timer,    \* pickTimers: the seat the pending timeout is for, or NoSeat
  auto      \* automatic picks on their way to the lock

clock == <<game, timer, auto>>

AutoPicks == [seat : Seats, card : Cards]

ClockInit == Init /\ timer = NoSeat /\ auto = {}

-----------------------------------------------------------------------------

\* Mutant: entering the ceremony does not start the clock.
AfterAdvance_Unarmed(before, after) == IF after.finished THEN NoSeat ELSE timer

\* The timer once judgeAdvancePhase is done: a click that is refused because
\* picks are pending restarts the picker's ten seconds.
AfterAdvance(before, after) ==
  CASE after.finished -> NoSeat
    [] ~after.finished /\ PicksPending(after) -> after.picker
    [] ~after.finished /\ ~PicksPending(after) ->
         IF before.phase = "ROLE_DISTRIBUTION" THEN NoSeat ELSE timer

\* Every other operation: commit drops the timer of a finished game.
AfterCommit(after) == IF after.finished THEN NoSeat ELSE timer

Advance ==
  /\ game.phase \in {"PLAYER_INTRODUCTION", "ROLE_DISTRIBUTION"}
  /\ JudgeAdvancePhase
  /\ timer' = AfterAdvance(game, game') /\ UNCHANGED auto

Click(s, c) ==
  PickRoleCard(s, c) /\ timer' = game'.picker /\ UNCHANGED auto

Discipline ==
  /\ JudgeLeave \/ \E s \in Seats : \/ JudgeFoul(s) \/ JudgeUnfoul(s)
                                    \/ JudgeRemove(s) \/ PlayerLeave(s)
  /\ timer' = AfterCommit(game') /\ UNCHANGED auto

\* The timeout: it looks at the table and chooses a card, a bot's at random.
TimerFires ==
  /\ Cardinality(auto) < MaxAutoPicks
  /\ timer # NoSeat /\ timer' = NoSeat
  /\ IF game.phase = "ROLE_DISTRIBUTION" /\ game.picker = timer /\ Cards \ game.cards # {}
     THEN \E c \in Cards \ game.cards : auto' = auto \cup {[seat |-> timer, card |-> c]}
     ELSE UNCHANGED auto
  /\ UNCHANGED game

\* Then it asks for the pick like any player, under the lock.
AutoPickLands(a) ==
  /\ auto' = auto \ {a}
  /\ IF a.seat \notin game.removed /\ CanPickCard(game, a.seat, a.card)
     THEN game' = ApplyRoleCardPick(game, a.seat, a.card) /\ timer' = game'.picker
     ELSE UNCHANGED <<game, timer>>

ClockNext ==
  \/ Advance \/ Discipline \/ TimerFires
  \/ \E s \in Seats, c \in Cards : Click(s, c)
  \/ \E a \in auto : AutoPickLands(a)

\* Only the server's own timer is bound to act; nobody has to click.
ClockSpec ==
  /\ ClockInit /\ [][ClockNext]_clock
  /\ WF_clock(TimerFires) /\ WF_clock(\E a \in auto : AutoPickLands(a))

-----------------------------------------------------------------------------

\* As long as everybody stays, the ceremony ends by the server's clock alone, whoever
\* sleeps through it: no click by the judge, no foul and no late answer disarms the
\* clock or leaves the turn with nobody (schedulePickTimer, role-distribution.ts:26-27;
\* service.internal.ts:181-183).  A removal may disarm it (actions.ts:393).
FullCeremonyEnds ==
  (game.phase = "ROLE_DISTRIBUTION") ~>
     (game.picker = NoSeat \/ game.finished \/ Gone # {})

\* A late automatic pick never takes another seat's turn.
LateAutoPickIsVoid ==
  [][\A a \in auto \ auto' : game'.cards # game.cards => a.seat = game.picker]_clock
=============================================================================
