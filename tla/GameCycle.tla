------------------------------ MODULE GameCycle ------------------------------
(***************************************************************************)
(* The evening as its players know it, without phases, ballots or buttons: *)
(* a court that may condemn once a day and never after a removal, a night  *)
(* that takes at most one red player, a verdict that follows the table.    *)
(* GameEngine implements it.                                               *)
(***************************************************************************)
EXTENDS Naturals, FiniteSets

CONSTANT Table          (* the seats                                       *)

VARIABLES
  black,                \* the seats dealt a black card
  inPlay,               \* neither dead nor removed
  stage,
  cancelled,            \* somebody was removed during this day's court
  verdict               \* "none" until the table has decided, or for good

vars == <<black, inPlay, stage, cancelled, verdict>>

Stages == {"setup", "court", "lastWord", "night", "dawn", "over"}

\* checkWinner, of the seats P.
Decision(P) ==
  LET dark == Cardinality(P \cap black)
  IN IF dark = 0 THEN "red"
     ELSE IF dark >= Cardinality(P \ black) THEN "black" ELSE "none"

Init ==
  /\ black \subseteq Table /\ inPlay = Table
  /\ stage = "setup" /\ cancelled = FALSE /\ verdict = "none"

\* The first speeches after the cards, or a new day after the night.
Convene ==
  /\ stage \in {"setup", "dawn"}
  /\ stage = "setup" => Decision(inPlay) = "none"
  /\ stage' = "court" /\ cancelled' = FALSE
  /\ UNCHANGED <<black, inPlay, verdict>>

\* The court sends S out: once a day, and never on a cancelled day.
Condemn(S) ==
  /\ stage = "court" /\ ~cancelled
  /\ S # {} /\ S \subseteq inPlay
  /\ inPlay' = inPlay \ S /\ stage' = "lastWord"
  /\ UNCHANGED <<black, cancelled, verdict>>

\* The table sleeps only if nothing is decided.
Sleep ==
  /\ stage \in {"court", "lastWord"} /\ Decision(inPlay) = "none"
  /\ stage' = "night"
  /\ UNCHANGED <<black, inPlay, cancelled, verdict>>

\* S is the victim, or nobody.
Wake(S) ==
  /\ stage = "night"
  /\ S \subseteq inPlay \ black /\ \A s, t \in S : s = t
  /\ inPlay' = inPlay \ S /\ stage' = "dawn"
  /\ UNCHANGED <<black, cancelled, verdict>>

\* Removal, for fouls, by the judge or by leaving, is possible at any time:
\* it cancels the court's day and ends the game at once if it decides it.
Strike(s) ==
  /\ inPlay' = inPlay \ {s}
  /\ cancelled' = (cancelled \/ stage = "court")
  /\ IF Decision(inPlay') = "none" THEN UNCHANGED <<stage, verdict>>
     ELSE stage' = "over" /\ verdict' = Decision(inPlay')
  /\ UNCHANGED black

\* The verdict, once the victim has been heard.
Conclude ==
  /\ stage \in {"setup", "court", "lastWord", "over"} /\ Decision(inPlay) # "none"
  /\ stage' = "over" /\ verdict' = Decision(inPlay)
  /\ UNCHANGED <<black, inPlay, cancelled>>

\* The judge leaves, and with the judge the game.
Abandon ==
  /\ stage' = "over" /\ verdict' = "none"
  /\ UNCHANGED <<black, inPlay, cancelled>>

Next ==
  \/ Convene \/ Sleep \/ Conclude \/ Abandon
  \/ \E S \in SUBSET Table : Condemn(S) \/ Wake(S)
  \/ \E s \in Table : Strike(s)

Spec == Init /\ [][Next]_vars
=============================================================================
