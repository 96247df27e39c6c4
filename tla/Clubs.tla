-------------------------------- MODULE Clubs --------------------------------
(***************************************************************************)
(* Clubs: Club, ClubMember and ClubJoinRequest rows, the primary club of   *)
(* an account, and what the deletion of an account does with the clubs it  *)
(* heads.  Reads, then writes, are calls in flight (Accounts).  The two    *)
(* serializable transactions are one step each: they count and write in    *)
(* some serial order, and one that is aborted answers "limit reached".     *)
(* Names, and so renameClub, are left out.                                 *)
(***************************************************************************)
EXTENDS Accounts, SequencesExt

CONSTANTS Clubs,      \* ids of Club rows
          MaxClubs    \* MAX_CLUBS_PER_USER

ASSUME ClubsAssumption == MaxClubs \in Nat \ {0} /\ Nobody \notin Clubs

VARIABLES club,       \* a Club row with its members and requests
          primary,    \* primaryClubId of an account
          overlapped  \* history: clubs two requests in flight were about at once
clubVars == <<club, primary>>
vars == <<accountVars, clubVars, overlapped>>

ClubRow == [st : {"none", "live", "gone"}, head : Users \cup {Nobody},
            members : Seq(Users), asking : SUBSET Users]   \* members: by joinedAt
NoClub == [st |-> "none", head |-> Nobody, members |-> <<>>, asking |-> {}]
Gone == [NoClub EXCEPT !.st = "gone"]

Exists(k) == club[k].st = "live"
Members(k) == ToSet(club[k].members)
UserMembershipCount(u) == Cardinality({k \in Clubs : u \in Members(k)})
\* An account is in the list once (the unique index of ClubMember).
Others(q, u) == IF u \in ToSet(q) THEN RemoveAt(q, CHOOSE i \in DOMAIN q : q[i] = u) ELSE q

Successor_Oldest(k, u) == Head(club[k].members)
Successor(k, u) ==
  LET others == Others(club[k].members, u) IN IF others = <<>> THEN Nobody ELSE Head(others)

\* The clubs routes: the gate, and the first read of the service, which answers
\* whether the club exists and who heads it.
Asks(c, op, u, gate, on, k) ==
  /\ Admits(u, gate) /\ Exists(k)
  /\ Send(c, op, u, on, k, {})
  /\ UNCHANGED <<user, cookie, socket, synced, clubVars>>
HeadAsks(c, op, u, gate, on, k) == club[k].head = u /\ Asks(c, op, u, gate, on, k)

\* Writes that go by a club's id fail when it is gone: foreign keys, P2025.
ClubIsThere_Assumed(k) == TRUE
ClubIsThere(k) == Exists(k)

Answers(c) == Ends(c) /\ UNCHANGED <<user, cookie, socket, synced>>

\* A club is deleted with its members and requests; it is nobody's primary any more.
Delete(k) ==
  /\ club' = [club EXCEPT ![k] = Gone]
  /\ primary' = [u \in Users |-> IF primary[u] = k THEN Nobody ELSE primary[u]]

\* The member's row, and the primary club it may have been.
Without(k, u) == [club[k] EXCEPT !.members = Others(@, u)]
NotPrimary(k, u) == primary' = [primary EXCEPT ![u] = IF @ = k THEN Nobody ELSE @]
-----------------------------------------------------------------------------
(* Requests to join. *)

SubmitReads(c, u, k) ==
  /\ UserMembershipCount(u) < MaxClubs
  /\ u \notin Members(k)
  /\ Asks(c, "submit", u, {"edit_profile"}, Nobody, k)

SubmitCreates(c) ==
  LET call == calls[c] IN
  /\ call.op = "submit"
  /\ club' = IF ClubIsThere(call.at) THEN [club EXCEPT ![call.at].asking = @ \cup {call.by}]
             ELSE club
  /\ Answers(c) /\ UNCHANGED primary

\* The only write is the delete of the row itself.
CancelJoinRequest(u, k) ==
  /\ Admits(u, {}) /\ u \in club[k].asking
  /\ club' = [club EXCEPT ![k].asking = @ \ {u}]
  /\ UNCHANGED <<primary, accountVars>>

RejectReads(c, h, u, k) == HeadAsks(c, "reject", h, {}, u, k)

RejectCommits(c) ==
  LET call == calls[c] IN
  /\ call.op = "reject"
  /\ club' = [club EXCEPT ![call.at].asking = @ \ {call.on}]
  /\ Answers(c) /\ UNCHANGED primary

ApproveReads(c, h, u, k) ==
  /\ UserMembershipCount(u) < MaxClubs
  /\ HeadAsks(c, "approve", h, {}, u, k)

\* The count is taken again inside the transaction.
RoomForOneMore_Assumed(u) == TRUE
RoomForOneMore(u) == UserMembershipCount(u) < MaxClubs

ApproveCommits(c) ==
  LET call == calls[c]
      k == call.at
      u == call.on
  IN /\ call.op = "approve"
     /\ club' = IF RoomForOneMore(u) /\ u \in club[k].asking /\ u \notin Members(k)
                THEN [club EXCEPT ![k].asking = @ \ {u}, ![k].members = Append(@, u)]
                ELSE club
     /\ Answers(c) /\ UNCHANGED primary
-----------------------------------------------------------------------------
(* Clubs come and go. *)

\* The name is moderated after the first count.
CreateReads(c, u) ==
  /\ UserMembershipCount(u) < MaxClubs
  /\ Admits(u, {"edit_profile"})
  /\ Send(c, "found", u, Nobody, Nobody, {})
  /\ UNCHANGED <<user, cookie, socket, synced, clubVars>>

CreateCommits(c) ==
  LET u == calls[c].by IN
  /\ calls[c].op = "found"
  /\ IF RoomForOneMore(u)
     THEN \E k \in Clubs :
            /\ club[k].st = "none"
            /\ club' = [club EXCEPT ![k] = [st |-> "live", head |-> u, members |-> <<u>>,
                                            asking |-> {}]]
     ELSE UNCHANGED club
  /\ Answers(c) /\ UNCHANGED primary

DisbandReads(c, h, k) == HeadAsks(c, "disband", h, {"edit_profile"}, Nobody, k)

\* Disbanding, and a head who leaves a club in which he was alone.
DisbandCommits(c) ==
  LET k == calls[c].at IN
  /\ calls[c].op = "disband"
  /\ IF Exists(k) THEN Delete(k) ELSE UNCHANGED clubVars
  /\ Answers(c)
-----------------------------------------------------------------------------
(* Members. *)

KickReads(c, h, u, k) == u # h /\ HeadAsks(c, "kick", h, {}, u, k)

KickCommits(c) ==
  LET call == calls[c] IN
  /\ call.op = "kick"
  /\ IF call.on \in Members(call.at)
     THEN /\ club' = [club EXCEPT ![call.at] = Without(call.at, call.on)]
          /\ NotPrimary(call.at, call.on)
     ELSE UNCHANGED clubVars
  /\ Answers(c)

\* One read tells the leaver's part and the successor.
LeaveReads(c, u, k) ==
  LET heir == Successor(k, u) IN
  /\ u \in Members(k)
  /\ IF club[k].head # u THEN Asks(c, "leave", u, {}, Nobody, k)
     ELSE IF heir = Nobody THEN Asks(c, "disband", u, {}, Nobody, k)
     ELSE Asks(c, "leave", u, {}, heir, k)

LeaveCommits(c) ==
  LET call == calls[c]
      k == call.at
      heir == call.on
  IN /\ call.op = "leave"
     /\ IF call.by \in Members(k)
        THEN /\ club' = [club EXCEPT ![k] =
                  [Without(k, call.by) EXCEPT !.head = IF heir = Nobody THEN @ ELSE heir]]
             /\ NotPrimary(k, call.by)
        ELSE UNCHANGED clubVars
     /\ Answers(c)

TransferReads(c, h, u, k) ==
  /\ u # h /\ u \in Members(k)
  /\ HeadAsks(c, "transfer", h, {}, u, k)

TransferCommits(c) ==
  LET call == calls[c] IN
  /\ call.op = "transfer"
  /\ club' = IF ClubIsThere(call.at) THEN [club EXCEPT ![call.at].head = call.on] ELSE club
  /\ Answers(c) /\ UNCHANGED primary

SetPrimaryReads(c, u, k) ==
  /\ u \in Members(k)
  /\ Asks(c, "primary", u, {}, Nobody, k)

\* A club that is gone is refused by the foreign key.
SetPrimaryCommits(c) ==
  LET call == calls[c] IN
  /\ call.op = "primary"
  /\ primary' = IF ClubIsThere(call.at) THEN [primary EXCEPT ![call.by] = call.at] ELSE primary
  /\ Answers(c) /\ UNCHANGED club

ClearPrimary(u) ==
  /\ Admits(u, {}) /\ primary[u] # Nobody
  /\ primary' = [primary EXCEPT ![u] = Nobody]
  /\ UNCHANGED <<club, accountVars>>
-----------------------------------------------------------------------------
(* handOffOrDisbandHeadClubs, for an account about to be anonymised. *)

\* Every club it heads, with the successor as read.
HandOffReads(c) ==
  LET u == calls[c].on
      headed == {k \in Clubs : club[k].head = u}
  IN /\ calls[c].op = "handoff"
     /\ calls' = [calls EXCEPT ![c].op = "handing",
                               ![c].seen = {<<k, Successor(k, u)>> : k \in headed}]
     /\ UNCHANGED <<user, cookie, socket, synced, clubVars>>

\* One club after the other; a club that is gone meanwhile fails the whole request.
HandOffOne(c) ==
  LET call == calls[c] IN
  /\ call.op = "handing"
  /\ \E pair \in call.seen :
       LET k == pair[1]
           heir == pair[2]
       IN IF ~ClubIsThere(k) THEN Ends(c) /\ UNCHANGED clubVars
          ELSE /\ calls' = [calls EXCEPT ![c].seen = @ \ {pair}]
               /\ IF heir = Nobody THEN Delete(k)
                  ELSE club' = [club EXCEPT ![k].head = heir] /\ UNCHANGED primary
  /\ UNCHANGED <<user, cookie, socket, synced>>

HandOffDone(c) ==
  /\ calls[c].op = "handing" /\ calls[c].seen = {}
  /\ Goes(c, "anonymise")
  /\ UNCHANGED <<user, cookie, socket, synced, clubVars>>
-----------------------------------------------------------------------------
ClubsNext ==
  \/ \E c \in Calls, u \in Users, k \in Clubs :
       \/ SubmitReads(c, u, k) \/ DisbandReads(c, u, k)
       \/ LeaveReads(c, u, k) \/ SetPrimaryReads(c, u, k)
  \/ \E c \in Calls, h, u \in Users, k \in Clubs :
       \/ RejectReads(c, h, u, k) \/ ApproveReads(c, h, u, k)
       \/ KickReads(c, h, u, k) \/ TransferReads(c, h, u, k)
  \/ \E c \in Calls, u \in Users : CreateReads(c, u)
  \/ \E u \in Users, k \in Clubs : CancelJoinRequest(u, k)
  \/ \E u \in Users : ClearPrimary(u)
  \/ \E c \in Calls :
       \/ SubmitCreates(c) \/ RejectCommits(c) \/ ApproveCommits(c) \/ CreateCommits(c)
       \/ DisbandCommits(c) \/ KickCommits(c) \/ LeaveCommits(c) \/ TransferCommits(c)
       \/ SetPrimaryCommits(c) \/ HandOffReads(c) \/ HandOffOne(c) \/ HandOffDone(c)

\* A database nobody has used yet, and a server that has just started.
Init ==
  /\ user = [u \in Users |-> NoRow] /\ cookie = [d \in Devices |-> NoToken]
  /\ socket = [d \in Devices |-> Down] /\ calls = [c \in Calls |-> Idle] /\ synced = FALSE
  /\ club = [k \in Clubs |-> NoClub] /\ primary = [u \in Users |-> Nobody]
  /\ overlapped = {}

\* The clubs a request in flight is about.
About(call) == (Clubs \cap {call.at}) \cup {pair[1] : pair \in call.seen}

Observed ==
  overlapped' = overlapped \cup
    {k \in Clubs : \E c, d \in Calls : c # d /\ k \in About(calls'[c]) \cap About(calls'[d])}

Next == ClubsNext \/ (AccountsNext /\ UNCHANGED clubVars)

Spec == Init /\ [][Next /\ Observed]_vars

\* The server rechecks its sockets every five minutes.
Fairness == \A d \in Devices : WF_accountVars(Recheck(d))
-----------------------------------------------------------------------------
(* What must hold. *)

\* Types; a club that is gone has left no row behind.
ClubsTypeOK ==
  /\ \A k \in Clubs : /\ club[k].head \in Users \cup {Nobody} /\ Members(k) \subseteq Users
                      /\ IsInjective(club[k].members)
                      /\ ~Exists(k) => club[k] = [NoClub EXCEPT !.st = club[k].st]
  /\ \A u \in Users : primary[u] # Nobody => Exists(primary[u])

\* Rows of accounts and of clubs keep their types, their unique indexes and their
\* foreign keys (schema.prisma).
PlatformTypeOK == AccountsTypeOK /\ ClubsTypeOK

\* Nobody is a member of more clubs than allowed, however many heads accept him and
\* whatever he founds at the same time (approveJoinRequest, createClub).
MembershipCap == \A u \in Users : UserMembershipCount(u) <= MaxClubs

\* A club's head is one of its members (schema.prisma:255-257), who has it as primary
\* club is a member, and no member still asks to join (leaveClub, transferLeadership,
\* kickMember, handOffOrDisbandHeadClubs).
InOrder(k) ==
  Exists(k) => /\ club[k].head \in Members(k)
               /\ \A u \in Users : primary[u] = k => u \in Members(k)
               /\ Members(k) \cap club[k].asking = {}

\* As long as no two requests about it overlapped, a club is in order, whatever was
\* asked and done before (schema.prisma:255-257).
ClubsInOrder == \A k \in Clubs \ overlapped : InOrder(k)
=============================================================================
