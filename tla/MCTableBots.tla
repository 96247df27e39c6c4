----------------------------- MODULE MCTableBots -----------------------------
(* Nights of six seats, with the side of the mafia, or only one of it and    *)
(* the sheriff, played by the server; or with two sheriffs and no bots.      *)
EXTENDS MCGameEngine, TableBots

Tables == {{1, 4}, {3, 4}}

DuskInit ==
  \E deal \in Deals :
    \/ game = FirstDusk(deal) /\ BotsSitDown
    \/ game = FirstDusk(TwoSheriffs(deal)) /\ bots = {} /\ pass = NoPass

DuskSpec == DuskInit /\ [][BotsNext]_botVars /\ BotsFairness
=============================================================================
