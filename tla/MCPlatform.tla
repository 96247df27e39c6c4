----------------------------- MODULE MCPlatform -----------------------------
(***************************************************************************)
(* Accounts and clubs together, from two moments.  The clubs' evening: two *)
(* clubs of three people, with requests to join; nobody signs in again, no *)
(* socket is opened.  The accounts' evening: no club is left; somebody has *)
(* an account with a password and may have a second one when it is         *)
(* deleted; an administrator stays signed in on another device.            *)
(***************************************************************************)
EXTENDS Clubs, TLC

CONSTANTS h, a, b,      \* accounts and the people they belong to
          d1, d2, d3,   \* their devices
          k1, k2, k3    \* clubs

VARIABLE evening        \* which moment it began with

Owned(p, admin) == [NewRow(p) EXCEPT !.password = TRUE, !.admin = admin]

ClubsEvening ==
  /\ evening = "clubs"
  /\ user = [u \in Users |-> Owned(u, FALSE)]
  /\ cookie = (d1 :> [u |-> h, v |-> 0] @@ d2 :> [u |-> a, v |-> 0] @@ d3 :> [u |-> b, v |-> 0])
  /\ club = (k1 :> [st |-> "live", head |-> h, members |-> <<h, a>>, asking |-> {b}]
          @@ k2 :> [st |-> "live", head |-> b, members |-> <<b, a>>, asking |-> {h}]
          @@ k3 :> NoClub)
  /\ primary = [u \in Users |-> IF u = a THEN k1 ELSE Nobody]

AccountsEvening ==
  /\ evening = "accounts"
  /\ user = (h :> Owned(h, FALSE) @@ a :> Owned(a, TRUE) @@ b :> NoRow)
  /\ cookie = (d1 :> [u |-> h, v |-> 0] @@ d2 :> [u |-> a, v |-> 0] @@ d3 :> NoToken)
  /\ club = [k \in Clubs |-> Gone]
  /\ primary = [u \in Users |-> Nobody]

MCInit ==
  /\ ClubsEvening \/ AccountsEvening
  /\ socket = [d \in Devices |-> Down]
  /\ calls = [c \in Calls |-> Idle]
  /\ synced = TRUE
  /\ overlapped = {}

Deletions == \/ \E c \in Calls, d \in Devices, u \in Users : DeleteReads(c, d, u)
             \/ \E c \in Calls : Anonymise(c)

\* The administrator's account and device, and d3, stay as they are; b's own address
\* is not used, b is the id of a second account of the first person.
Steady == /\ user'[a] = user[a] /\ user'[b].email # b
          /\ \A d \in {d2, d3} : cookie'[d] = cookie[d] /\ socket'[d] = Down
          /\ cookie'[d1].u # a
          /\ \A c \in Calls : calls'[c].by # b \/ user[b].made

MCNext ==
  /\ IF evening = "clubs" THEN ClubsNext \/ (Deletions /\ UNCHANGED clubVars)
     ELSE Next /\ Steady
  /\ Observed
  /\ UNCHANGED evening

MCSpec == MCInit /\ [][MCNext]_<<vars, evening>> /\ Fairness
=============================================================================
