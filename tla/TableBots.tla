------------------------------ MODULE TableBots ------------------------------
(***************************************************************************)
(* A table some of whose seats are played by the server (game.bots.ts).    *)
(*                                                                         *)
(* Every second and a half a tick goes through the bots of a game in seat  *)
(* order.  It reads the table once, before the first of them, and waits    *)
(* for each bot's move to be done before it turns to the next one, so the  *)
(* others decide on a table that judge and players have since changed.  A  *)
(* move may be refused, and the tick goes on; one whose write fails would  *)
(* end it (game.bots.ts:27), which is left out.                            *)
(***************************************************************************)
EXTENDS GameProperties

CONSTANT BotTables   (* the sets of seats that bots may take                *)

ASSUME BotsAssumption == BotTables \subseteq SUBSET Seats

VARIABLES
  bots,   \* the seats with isBot
  pass    \* of the tick under way: the moves each bot ahead may choose from

botVars == <<game, bots, pass>>

NoPass == [b \in {} |-> {}]
AtWork == DOMAIN pass

-----------------------------------------------------------------------------
(* decideAction.                                                           *)

AlivePlayers(g) == g.alive \ g.removed

\* The one who chooses for the side: the don, or else its first seat.
Initiator(g) ==
  LET dons == {s \in LiveBlack(g) : g.role[s] = "don"}
  IN FirstFrom(IF dons # {} THEN dons ELSE LiveBlack(g), 1)

\* Mutant: whoever is alive and not himself will do.
PickRandomLivingSeat_Anyone(g, b, roles) == AlivePlayers(g) \ {b}

PickRandomLivingSeat(g, b, roles) ==
  {t \in AlivePlayers(g) : t # b /\ g.role[t] \notin roles}

\* Mutant: every bot chooses for itself.
Shots_Alone(g, b) == PickRandomLivingSeat(g, b, BlackRoles)

\* The others of the side follow the shot that was made last.
Shots(g, b) ==
  IF b = Initiator(g) THEN PickRandomLivingSeat(g, b, BlackRoles) ELSE {g.pending} \ {NoSeat}

\* What b may choose to do: pairs of a move and its target.
DecideAction(g, b) ==
  CASE g.phase = "NIGHT_MAFIA" /\ g.role[b] \in BlackRoles /\ g.mafiaVotes[b] = NoSeat ->
         {"shoot"} \X Shots(g, b)
    [] g.phase = "NIGHT_DON" /\ g.role[b] = "don" /\ g.donCheck = NoSeat ->
         {"checkAsDon"} \X PickRandomLivingSeat(g, b, BlackRoles)
    [] g.phase = "NIGHT_SHERIFF" /\ g.role[b] = "sheriff" /\ g.sheriffCheck = NoSeat ->
         {"checkAsSheriff"} \X PickRandomLivingSeat(g, b, {})
    [] OTHER -> {}

\* The bots with something to do.
Busy(g) == {b \in bots \cap AlivePlayers(g) : DecideAction(g, b) # {}}

-----------------------------------------------------------------------------
(* tick: at most one at a time; a move takes far less than a second.       *)

Tick ==
  /\ AtWork = {} /\ Busy(game) # {}
  /\ ~game.finished
  /\ pass' = [b \in Busy(game) |-> DecideAction(game, b)]
  /\ UNCHANGED <<game, bots>>

\* The service performs the move, or would.
Moves(b, move) ==
  \/ move[1] = "shoot" /\ ChooseMafiaTarget(b, move[2])
  \/ move[1] = "checkAsDon" /\ CheckAsDon(b, move[2])
  \/ move[1] = "checkAsSheriff" /\ CheckAsSheriff(b, move[2])

Legal(g, b, move) ==
  \/ move[1] = "shoot" /\ CanTarget(g, b, move[2])
  \/ move[1] = "checkAsDon" /\ CanDonCheck(g, b, move[2])
  \/ move[1] = "checkAsSheriff" /\ CanSheriffCheck(g, b, move[2])

\* The bot whose turn it is; a refusal changes nothing.
BotMoves ==
  \E b \in AtWork :
    /\ \A other \in AtWork : b <= other
    /\ \E move \in pass[b] :
         Moves(b, move) \/ (~Legal(game, b, move) /\ UNCHANGED game)
    /\ pass' = [other \in AtWork \ {b} |-> pass[other]]
    /\ UNCHANGED bots

\* A bot clicks nothing of itself; that its seat leaves the game is the judge's doing.
BotsNext ==
  \/ Tick \/ BotMoves
  \/ UNCHANGED <<bots, pass>> /\ (JudgeStep \/ \E s \in Seats \ bots : PlayerStep(s))

BotsSitDown == bots \in BotTables /\ pass = NoPass

\* The interval fires, and promises settle.
BotsFairness == WF_botVars(Tick) /\ WF_botVars(BotMoves)

BotsSpec == Init /\ BotsSitDown /\ [][BotsNext]_botVars /\ BotsFairness

-----------------------------------------------------------------------------

\* What a bot decides on the table as it is now, the service takes: no bot shoots
\* at its own side or at the dead.  The one refusal is a seat that follows a shot
\* at somebody who has left the game since (game.bots.ts:90-124).
BotsDecideLegally ==
  \A b \in Busy(game) : \A move \in DecideAction(game, b) :
    Legal(game, b, move) \/ move[2] \in Gone

\* A side of bots hits: from a night that begins without a tick under way either
\* the whole side comes to have shot at one seat, whoever is removed meanwhile, or
\* the judge has closed the mafia's phase (game.bots.ts:88-98).
BotsAgree ==
  game.phase = "NIGHT_MAFIA" /\ AtWork = {} /\ game.mafiaVotes = NoVotes
      /\ LiveBlack(game) \subseteq bots
    ~> game.phase # "NIGHT_MAFIA" \/ ResolveMafiaConsensus(game) # NoSeat
=============================================================================
