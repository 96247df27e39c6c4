------------------------------ MODULE MCLobby ------------------------------
(***************************************************************************)
(* Two lobbies from three moments of an evening: a table whose second seat *)
(* was filled by a bot, ready to start; two tables waiting, the first one  *)
(* ready to start; and a host alone in his room, with browsers online.     *)
(* In the first two no page is open.                                       *)
(***************************************************************************)
EXTENDS LobbyPages, TLC

CONSTANTS h, a, z, l1, l2, b1

CONSTANT UnderWay    \* bound: broadcasts and details on their way

VARIABLE online    \* whether it is the third

Row(l, u, s, ready) == [lobby |-> l, user |-> u, seat |-> s, ready |-> ready]

Waiting(hosts) ==
  lobby = [l \in Lobbies |-> [status |-> IF hosts[l] = Nobody THEN "NONE" ELSE "WAITING",
                              host |-> hosts[l], old |-> FALSE]]

OneTable ==
  /\ Waiting(l1 :> h @@ l2 :> Nobody)
  /\ members = {Row(l1, h, Judge, FALSE), Row(l1, b1, 1, TRUE)}
  /\ bot = (b1 :> "row")
  /\ crashes = 0

TwoTables ==
  /\ Waiting(l1 :> h @@ l2 :> z)
  /\ members = {Row(l1, h, Judge, FALSE), Row(l1, a, 1, TRUE), Row(l2, z, 1, FALSE)}
  /\ bot = (b1 :> "unborn")
  /\ crashes = MaxCrashes

OneRoom ==
  /\ Waiting(l1 :> h @@ l2 :> Nobody)
  /\ members = {Row(l1, h, Judge, FALSE)}
  /\ bot = (b1 :> "unborn")
  /\ crashes = MaxCrashes

Home == [Blank EXCEPT !.at = "room", !.of = l1, !.shown = Details(l1), !.line = "up",
                      !.inside = TRUE]

MCInit ==
  /\ online \in BOOLEAN
  /\ IF online THEN OneRoom ELSE OneTable \/ TwoTables
  /\ calls = [c \in Calls |-> Idle]
  /\ game = [l \in Lobbies |-> NoGame]
  /\ deleted = {}
  /\ sweep = Asleep
  /\ page = [u \in Browsers |-> IF online /\ u = h THEN Home ELSE Blank]
  /\ casts = {} /\ unready = {} /\ told = {}
  /\ visits = 0 /\ drops = 0

\* The host keeps his connection and stays until he leaves, closes or starts.
Bounded ==
  /\ Cardinality(casts') + Cardinality({u \in Browsers : page'[u].get # Unknown}) <= UnderWay
  /\ page'[h].line = "up"
  /\ page'[h].at = "list" /\ page[h].at = "room" => page'[h] # To(page[h], "list")

MCNext ==
  /\ IF online THEN PagesNext /\ Bounded ELSE Next /\ UNCHANGED pageVars
  /\ UNCHANGED online

MCSpec == MCInit /\ [][MCNext]_<<vars, pageVars, online>>

Symmetry == Permutations(Calls)
=============================================================================
