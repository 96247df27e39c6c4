---------------------------- MODULE ViewProperties ----------------------------
(***************************************************************************)
(* What the browsers of a running game must agree on with its service:     *)
(* the buttons they offer, whom they let be heard, and what a night hides. *)
(***************************************************************************)
EXTENDS GameProperties, TableView

-----------------------------------------------------------------------------
(* Buttons.                                                                *)

\* What the service takes from viewer v: the refusals of loadGameForUser,
\* requireJudge and of the engine.
Accepted(g, v) ==
  IF v = Judge
  THEN Control("nominate", {t \in Seats : CanNominate(g, t)})
         \cup Control("unnominate", {t \in Seats : CanUnnominate(g, t)})
         \cup Control("foul", {s \in Seats : CanFoul(g, s)})
         \cup Control("unfoul", {s \in Seats : CanUnfoul(g, s)})
         \cup Control("remove", Seats)
  ELSE IF v \in g.removed THEN {}
  ELSE Control("vote", {c \in Seats : CanCastVote(g, v, c)})
         \cup Control("ballot", {s \in {v} : CanLiftAllVote(g, s)})
         \cup Control("guess", {t \in Seats : CanGuess(g, v, {t})})
         \cup Control("shoot", {t \in Seats : CanTarget(g, v, t)})
         \cup Control("checkAsDon", {t \in Seats : CanDonCheck(g, v, t)})
         \cup Control("checkAsSheriff", {t \in Seats : CanSheriffCheck(g, v, t)})
         \cup Control("pick", {c \in Cards : CanPickCard(g, v, c)})
         \cup Control("say", {s \in {v} : CanSayOutOfTurn(g, s)})

\* Buttons the desktop shows v and the service is known to refuse: a shot at one's
\* own side, the form of a best move that is forfeited, a cry out of turn during
\* the ballots, and a check when another seat of the same card has made the night's.
KnownRefusals(g, v) ==
  Control("shoot", {t \in Seats : g.role[t] \in BlackRoles})
    \cup (IF g.multiKill THEN Control("guess", Seats) ELSE {})
    \cup (IF g.phase \in {"DAY_SPEECH", "DAY_SHOOTOUT", "DAY_LAST_WORD"} THEN {}
          ELSE Control("say", Seats))
    \cup (IF g.donCheck \in {NoSeat, v} THEN {} ELSE Control("checkAsDon", Seats))
    \cup (IF g.sheriffCheck \in {NoSeat, v} THEN {} ELSE Control("checkAsSheriff", Seats))

\* Moves the service takes and no desktop button sends: discipline on a tile
\* drawn as a skull, a check of a dead seat, a second shot, a cry by the speaker.
NoButtonFor(g, v) ==
  Control("foul", Seats \ g.alive) \cup Control("unfoul", Seats \ g.alive)
    \cup Control("remove", Seats \ g.alive)
    \cup Control("checkAsDon", Seats \ g.alive) \cup Control("checkAsSheriff", Seats \ g.alive)
    \cup (IF v \in Seats /\ g.mafiaVotes[v] # NoSeat THEN Control("shoot", Seats) ELSE {})
    \cup Control("say", {g.speaker})

\* Moves the service takes and the desktop withholds by its own clock, which the
\* service does not keep: another cry within the five seconds of the last, and a
\* ballot past its deadline.
WithheldByTheClock(v, inActiveWindow, expired) ==
  (IF inActiveWindow THEN Control("say", {v}) ELSE {})
    \cup (IF expired THEN Control("vote", Seats) \cup Control("ballot", {v}) ELSE {})

Steps == Control("nextSpeaker", {Judge}) \cup Control("nextPhase", {Judge})

\* Every button on the desktop screen of somebody still in the game, if it shows
\* the present table, is one the service would take, but for the four kinds of
\* KnownRefusals: what the projection hides never makes a button lie, whatever
\* the page's clock says.
ButtonsWork ==
  \A v \in Viewers \ Gone :
    LET p == ProjectFor(game, v)
        answered == Steps \cup KnownRefusals(game, v) \cup Accepted(game, v)
    IN \A inActiveWindow, expired \in BOOLEAN :
         DeskControls(p, v, inActiveWindow, expired) \subseteq answered

\* And whatever the service would take of a viewer, his desktop has a button for,
\* but for the moves of NoButtonFor and, while the page's clock says so, those of
\* WithheldByTheClock: the projection hides nothing that a player needs in order
\* to move (projection.ts:74-86).
LegalMoveHasButton ==
  \A v \in Viewers :
    LET p == ProjectFor(game, v)
        moves == Accepted(game, v) \ NoButtonFor(game, v)
    IN \A inActiveWindow, expired \in BOOLEAN :
         moves \ WithheldByTheClock(v, inActiveWindow, expired)
           \subseteq DeskControls(p, v, inActiveWindow, expired)

-----------------------------------------------------------------------------
(* Voices and faces.                                                       *)

\* By day, with nobody speaking out of turn, everyone alive hears whoever has the
\* minute of the speeches or of the tie, and nobody while the table votes.  The
\* one exception is a farewell left standing by a judge who skipped the speeches
\* of the morning (media-visibility.ts:211-218).
OneVoiceByDay ==
  game.phase \in CourtPhases /\ game.farewell \in {NoSeat, game.speaker} =>
    \A v \in Live(game) :
      Heard(game, v, FALSE, NoSeat, FALSE) =
        (IF game.phase \in {"DAY_SPEECH", "DAY_SHOOTOUT"}
         THEN {game.speaker} \ (Gone \cup {NoSeat, v}) ELSE {})

\* While the table sleeps or picks cards no player alive hears anybody, not even
\* in the seconds of a cry that began by day; and nobody sees a face but his own
\* and, in the first night, that of his own side (media-visibility.ts:125-142,
\* 220-226).  A farewell left standing is the exception again.
TheNightIsDark ==
  game.phase \in NightPhases \cup {"ROLE_DISTRIBUTION"} =>
    \A v \in Live(game) :
      /\ \A aside \in SeatOrNone : Heard(game, v, FALSE, aside, FALSE) \subseteq {game.farewell}
      /\ Seen(game, v, FALSE) \ {v, game.farewell} \subseteq
           (IF game.phase = "NIGHT_ZERO" /\ v \in LiveBlack(game) THEN LiveBlack(game) ELSE {})

\* "Last-word speaker (just eliminated by day vote ...)": whoever the vote has
\* condemned is heard by the table while it is his turn to say a last word
\* (media-visibility.ts:105-118, 194-199).
CondemnedIsHeard ==
  game.phase = "DAY_LAST_WORD" /\ game.speaker # NoSeat =>
    \A v \in Live(game) : game.speaker \in Heard(game, v, FALSE, NoSeat, FALSE)

-----------------------------------------------------------------------------
(* Steps.                                                                  *)

\* A shot or a check changes nothing on the screen of any red player but the one
\* who made it: neither who shot at whom, nor that the night's move was made, nor,
\* at a table dealt two sheriffs, that the other has checked (projection.ts:42-51,
\* 60-61, 91, 124).
NightMovesLeakNothing ==
  [][\A v \in Seats :
       (\E a, t \in Seats : /\ a # v /\ game.role[v] \notin BlackRoles
                            /\ ChooseMafiaTarget(a, t) \/ CheckAsDon(a, t) \/ CheckAsSheriff(a, t))
         => ProjectFor(game', v) = ProjectFor(game, v)]_game
=============================================================================
