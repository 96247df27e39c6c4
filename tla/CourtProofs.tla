----------------------------- MODULE CourtProofs -----------------------------
(***************************************************************************)
(* The day's court: what its lists and its ballot box hold, in every phase *)
(* of a running game, for a table of any size, any foul limits, any deals  *)
(* and any bounds.                                                         *)
(***************************************************************************)
EXTENDS GameEngineProofs

-----------------------------------------------------------------------------
(* Lists of seats and ballots.                                             *)

Among(q, S) == \A i \in DOMAIN q : q[i] \in S
Distinct(q) == \A i, j \in DOMAIN q : q[i] = q[j] => i = j
Ordered(q) == \A i, j \in DOMAIN q : i < j => q[i] < q[j]

\* The seats of R have cast no ballot, and nobody has cast one for them.
Unmarked(ballots, R) ==
  \A v \in Seats : ballots[v] \notin R /\ (v \in R => ballots[v] = NoSeat)

LEMMA EmptyList ==
  \A S : Among(<<>>, S) /\ Distinct(<<>>) /\ Ordered(<<>>)
BY DEF Among, Distinct, Ordered

LEMMA OneSeatList ==
  ASSUME NEW s \in Seats
  PROVE /\ \A S : s \in S => Among(<<s>>, S)
        /\ Distinct(<<s>>) /\ <<s>> # <<>> /\ <<s>> \in Seq(Seats)
        /\ ToSet(<<s>>) = {s}
BY DEF Among, Distinct, ToSet

\* Taking one element out moves the later ones up by one.
LEMMA RemoveAtShifts ==
  ASSUME NEW q \in Seq(Seats), NEW k \in 1..Len(q)
  PROVE /\ RemoveAt(q, k) \in Seq(Seats) /\ Len(RemoveAt(q, k)) = Len(q) - 1
        /\ \A i \in 1..(Len(q) - 1) : RemoveAt(q, k)[i] = IF i < k THEN q[i] ELSE q[i + 1]
<1>. DEFINE a == SubSeq(q, 1, k - 1)
            b == SubSeq(q, k + 1, Len(q))
<1>1. a \in Seq(Seats) /\ Len(a) = k - 1 /\ \A i \in 1..(k - 1) : a[i] = q[i]
  <2>1. \A i \in 1..(k - 1) : q[i] \in Seats OBVIOUS
  <2>. QED BY <2>1, SubSeqProperties
<1>2. /\ b \in Seq(Seats) /\ Len(b) = Len(q) - k
      /\ \A i \in 1..(Len(q) - k) : b[i] = q[k + i]
  <2>1. \A i \in (k + 1)..Len(q) : q[i] \in Seats OBVIOUS
  <2>2. /\ b \in Seq(Seats)
        /\ Len(b) = IF k + 1 <= Len(q) THEN Len(q) - (k + 1) + 1 ELSE 0
        /\ \A i \in 1..(Len(q) - (k + 1) + 1) : b[i] = q[(k + 1) + i - 1]
    BY <2>1, SubSeqProperties
  <2>. QED BY <2>2
<1>3. RemoveAt(q, k) = a \o b BY DEF RemoveAt
<1>. HIDE DEF a, b
<1>4. /\ a \o b \in Seq(Seats) /\ Len(a \o b) = Len(a) + Len(b)
      /\ \A i \in 1..(Len(a) + Len(b)) :
           (a \o b)[i] = IF i <= Len(a) THEN a[i] ELSE b[i - Len(a)]
  BY <1>1, <1>2, ConcatProperties
<1>. QED BY <1>1, <1>2, <1>3, <1>4

LEMMA WithoutShifts ==
  ASSUME NEW q \in Seq(Seats), NEW s \in Seats, s \in ToSet(q)
  PROVE \E k \in 1..Len(q) : q[k] = s /\ Without(q, s) = RemoveAt(q, k)
<1>. DEFINE k == CHOOSE i \in DOMAIN q : q[i] = s
<1>1. \E i \in DOMAIN q : q[i] = s BY DEF ToSet
<1>2. k \in 1..Len(q) /\ q[k] = s BY <1>1
<1>3. Without(q, s) = RemoveAt(q, k) BY DEF Without
<1>. HIDE DEF k
<1>. QED BY <1>2, <1>3

\* Filtering a seat out takes that seat out, nothing else, and keeps the order.
LEMMA WithoutTakesOne ==
  ASSUME NEW q \in Seq(Seats), NEW s \in Seats, Distinct(q)
  PROVE /\ Without(q, s) \in Seq(Seats) /\ Distinct(Without(q, s))
        /\ ToSet(Without(q, s)) = ToSet(q) \ {s}
        /\ Ordered(q) => Ordered(Without(q, s))
<1>1. CASE s \notin ToSet(q) BY <1>1 DEF Without
<1>2. CASE s \in ToSet(q)
  <2>1. PICK k \in 1..Len(q) : q[k] = s /\ Without(q, s) = RemoveAt(q, k) BY <1>2, WithoutShifts
  <2>. DEFINE r == Without(q, s)
  <2>2. /\ r \in Seq(Seats) /\ Len(r) = Len(q) - 1
        /\ \A i \in 1..(Len(q) - 1) : r[i] = IF i < k THEN q[i] ELSE q[i + 1]
    BY <2>1, RemoveAtShifts
  <2>. HIDE DEF r
  <2>3. \A i, j \in 1..Len(q) : q[i] = q[j] => i = j BY DEF Distinct
  <2>4. Distinct(r)
    <3>1. SUFFICES ASSUME NEW i \in 1..(Len(q) - 1), NEW j \in 1..(Len(q) - 1), r[i] = r[j]
                   PROVE i = j
      BY <2>2 DEF Distinct
    <3>2. i \in 1..Len(q) /\ j \in 1..Len(q) /\ i + 1 \in 1..Len(q) /\ j + 1 \in 1..Len(q)
      OBVIOUS
    <3>. QED BY <2>2, <2>3, <3>1, <3>2
  <2>5. ToSet(r) = ToSet(q) \ {s}
    <3>1. ASSUME NEW i \in 1..Len(r) PROVE r[i] \in ToSet(q) \ {s}
      <4>1. i \in 1..(Len(q) - 1) /\ i \in 1..Len(q) /\ i + 1 \in 1..Len(q) BY <2>2
      <4>2. r[i] = IF i < k THEN q[i] ELSE q[i + 1] BY <2>2, <4>1
      <4>3. \E j \in 1..Len(q) : j # k /\ r[i] = q[j] BY <4>1, <4>2
      <4>. QED BY <2>1, <2>3, <4>3 DEF ToSet
    <3>2. ASSUME NEW j \in 1..Len(q), q[j] # s PROVE q[j] \in ToSet(r)
      <4>1. j # k BY <2>1, <3>2
      <4>2. CASE j < k
        <5>1. j \in 1..Len(r) /\ r[j] = q[j] BY <2>2, <4>2
        <5>. QED BY <5>1 DEF ToSet
      <4>3. CASE j > k
        <5>1. j - 1 \in 1..Len(r) /\ r[j - 1] = q[(j - 1) + 1] BY <2>2, <4>3
        <5>2. (j - 1) + 1 = j OBVIOUS
        <5>. QED BY <5>1, <5>2 DEF ToSet
      <4>. QED BY <4>1, <4>2, <4>3
    <3>. QED BY <2>2, <3>1, <3>2 DEF ToSet
  <2>6. ASSUME Ordered(q) PROVE Ordered(r)
    <3>1. SUFFICES ASSUME NEW i \in 1..(Len(q) - 1), NEW j \in 1..(Len(q) - 1), i < j
                   PROVE r[i] < r[j]
      BY <2>2 DEF Ordered
    <3>2. i \in 1..Len(q) /\ j \in 1..Len(q) /\ i + 1 \in 1..Len(q) /\ j + 1 \in 1..Len(q)
      OBVIOUS
    <3>3. \A m, n \in 1..Len(q) : m < n => q[m] < q[n] BY <2>6 DEF Ordered
    <3>. QED BY <2>2, <3>1, <3>2, <3>3
  <2>. QED BY <2>2, <2>4, <2>5, <2>6 DEF r
<1>. QED BY <1>1, <1>2

LEMMA OrderedIsDistinct ==
  ASSUME NEW q \in Seq(Seats), Ordered(q)
  PROVE Distinct(q)
<1>1. SUFFICES ASSUME NEW i \in 1..Len(q), NEW j \in 1..Len(q), q[i] = q[j], i # j PROVE FALSE
  BY DEF Distinct
<1>2. q[i] \in Int /\ q[j] \in Int
  <2>1. q[i] \in Seats /\ q[j] \in Seats OBVIOUS
  <2>. QED BY <2>1, TableFacts DEF Seats
<1>3. i < j \/ j < i BY <1>1
<1>4. q[i] < q[j] \/ q[j] < q[i] BY <1>3 DEF Ordered
<1>. QED BY <1>1, <1>2, <1>4

LEMMA AmongIsToSet ==
  ASSUME NEW q \in Seq(Seats), NEW S
  PROVE Among(q, S) <=> ToSet(q) \subseteq S
BY DEF Among, ToSet

\* A list that never repeats a seat is as long as its set of seats is large.
LEMMA DistinctCounts ==
  ASSUME NEW q \in Seq(Seats), Distinct(q)
  PROVE Cardinality(ToSet(q)) = Len(q)
<1>1. q \in [1..Len(q) -> ToSet(q)] BY DEF ToSet
<1>2. q \in Surjection(1..Len(q), ToSet(q)) BY <1>1 DEF Surjection, ToSet
<1>3. q \in Injection(1..Len(q), ToSet(q)) BY <1>1 DEF Injection, IsInjective, Distinct
<1>4. IsFiniteSet(1..Len(q)) /\ Cardinality(1..Len(q)) = Len(q)
  <2>1. Len(q) \in Nat /\ 1 \in Int OBVIOUS
  <2>. HIDE DEF ToSet
  <2>2. Cardinality(1..Len(q)) = IF 1 > Len(q) THEN 0 ELSE Len(q) - 1 + 1 BY <2>1, FS_Interval
  <2>. QED BY <2>1, <2>2, FS_Interval
<1>. QED BY <1>2, <1>3, <1>4, FS_Surjection

LEMMA PurgedUnmarks ==
  ASSUME NEW b \in [Seats -> SeatOrNone], NEW s \in Seats, NEW R \in SUBSET Seats,
         Unmarked(b, R)
  PROVE Unmarked(Purged(b, s), R \cup {s})
<1>1. NoSeat \notin Seats BY DEF Seats, NoSeat
<1>2. \A v \in Seats : Purged(b, s)[v] = IF v = s \/ b[v] = s THEN NoSeat ELSE b[v]
  BY DEF Purged
<1>. QED BY <1>1, <1>2 DEF Unmarked

-----------------------------------------------------------------------------
(* The invariant.                                                          *)

NominationPhases == (CourtPhases \ {"DAY_LIFT_VOTE"}) \cup {"GAME_OVER"}
TiePhases == {"DAY_SHOOTOUT", "DAY_REVOTE", "DAY_LIFT_VOTE", "GAME_OVER"}
UnvotedPhases == {"PLAYER_INTRODUCTION", "ROLE_DISTRIBUTION", "NIGHT_ZERO",
                  "DAY_SPEECH", "DAY_VOTE_INTRO", "DAY_SHOOTOUT"}

\* What holds of the lists and the ballots in any phase.
Lists(g) ==
  /\ g.alive \cap g.removed = {}
  /\ Among(g.nominations, Live(g)) /\ Distinct(g.nominations)
  /\ Among(g.tied, Live(g)) /\ Ordered(g.tied)
  /\ Among(g.lastWord, Seats \ g.removed) /\ Distinct(g.lastWord)
  /\ Unmarked(g.votes, g.removed) /\ Unmarked(g.mafiaVotes, g.removed)
  /\ \A s \in g.removed : g.lift[s] = "none"

BallotsAreFair(g) ==
  \A v \in Seats : g.votes[v] # NoSeat =>
    v \in Live(g) /\ v # g.votes[v] /\ g.votes[v] \in Nominees(g)

\* The table g is one that phase p may have.
Court(g, p) ==
  /\ Lists(g)
  /\ g.nominations # <<>> => p \in NominationPhases
  /\ g.tied # <<>> => p \in TiePhases
  /\ g.lastWord # <<>> => p \in {"DAY_LAST_WORD", "GAME_OVER"}
  /\ p \in {"DAY_SHOOTOUT", "DAY_REVOTE"} => g.nominations = g.tied
  /\ p \in UnvotedPhases => g.votes = NoVotes
  /\ p \in BallotPhases => BallotsAreFair(g)

CourtInv == Court(game, game.phase)

\* Tables that no list and no ballot tells apart.
SameCourt(g, h) ==
  /\ h.alive = g.alive /\ h.removed = g.removed /\ h.nominations = g.nominations
  /\ h.tied = g.tied /\ h.lastWord = g.lastWord /\ h.votes = g.votes
  /\ h.mafiaVotes = g.mafiaVotes /\ h.lift = g.lift

LEMMA CourtOfSame ==
  ASSUME NEW g, NEW h, NEW p, SameCourt(g, h), Court(g, p)
  PROVE Court(h, p)
<1>1. Live(h) = Live(g) /\ Nominees(h) = Nominees(g) BY DEF SameCourt, Live, Nominees
<1>2. Lists(h) BY <1>1 DEF SameCourt, Court, Lists
<1>3. BallotsAreFair(g) => BallotsAreFair(h) BY <1>1 DEF SameCourt, BallotsAreFair
<1>. QED BY <1>2, <1>3 DEF SameCourt, Court

LEMMA CourtOver ==
  ASSUME NEW g, NEW p, Court(g, p)
  PROVE Court(g, "GAME_OVER")
BY DEF Court, NominationPhases, TiePhases, UnvotedPhases, BallotPhases

\* With nothing pending a table may go to any phase of the night.
LEMMA CourtAtNight ==
  ASSUME NEW g, Lists(g), g.nominations = <<>>, g.tied = <<>>, g.lastWord = <<>>,
         NEW p \in {"NIGHT_MAFIA", "NIGHT_DON", "NIGHT_SHERIFF", "MORNING_ANNOUNCEMENT"}
  PROVE Court(g, p)
BY DEF Court, UnvotedPhases, BallotPhases

LEMMA NoVotesAreFair ==
  /\ \A g : g.votes = NoVotes => BallotsAreFair(g)
  /\ \A R \in SUBSET Seats : Unmarked(NoVotes, R)
<1>1. NoSeat \notin Seats BY DEF NoSeat, Seats
<1>. QED BY <1>1 DEF BallotsAreFair, NoVotes, Unmarked

-----------------------------------------------------------------------------
(* Counting.                                                               *)

LEMMA CountedWereVoted ==
  ASSUME NEW g \in GameState
  PROVE /\ ResolveVote(g) # NoSeat => ResolveVote(g) \in Seats /\ ResolveVote(g) \in Voted(g)
        /\ FindTiedSeats(g) \in Seq(Seats) /\ Ordered(FindTiedSeats(g))
        /\ Among(FindTiedSeats(g), Voted(g))
        /\ FindTiedSeats(g) # <<>> => Len(FindTiedSeats(g)) >= 2
<1>. DEFINE L == Leaders(g)
<1>1. L \subseteq Voted(g) /\ L \in SUBSET Seats BY DEF Leaders, Voted, GameState, SeatOrNone
<1>2. ASSUME ResolveVote(g) # NoSeat
      PROVE ResolveVote(g) \in Seats /\ ResolveVote(g) \in Voted(g)
  <2>1. \E c \in Seats : L = {c} BY <1>2 DEF ResolveVote
  <2>2. ResolveVote(g) = CHOOSE c \in Seats : L = {c} BY <2>1 DEF ResolveVote
  <2>3. ResolveVote(g) \in Seats /\ L = {ResolveVote(g)} BY <2>1, <2>2
  <2>. QED BY <1>1, <2>3
<1>3. CASE Cardinality(L) >= 2
  <2>1. FindTiedSeats(g) = Ascending(L) BY <1>3 DEF FindTiedSeats
  <2>. DEFINE q == Ascending(L)
  <2>2. q \in Seq(L) /\ Len(q) = Cardinality(L) /\ Increasing(q, Cardinality(L))
    BY <1>1, AscendingTyped
  <2>. HIDE DEF q, L
  <2>3. Ordered(q) BY <2>2 DEF Ordered, Increasing
  <2>4. Among(q, Voted(g)) /\ q \in Seq(Seats)
    <3>1. \A i \in 1..Len(q) : q[i] \in L BY <2>2
    <3>2. q \in [1..Len(q) -> Seats] /\ Len(q) \in Nat BY <1>1, <2>2, <3>1
    <3>. QED BY <1>1, <2>2, <3>1, <3>2 DEF Among
  <2>. QED BY <1>2, <1>3, <2>1, <2>2, <2>3, <2>4 DEF q
<1>4. CASE ~(Cardinality(L) >= 2)
  <2>1. FindTiedSeats(g) = <<>> BY <1>4 DEF FindTiedSeats
  <2>. QED BY <1>2, <2>1, EmptyList
<1>. QED BY <1>3, <1>4

\* While a ballot is open, whoever has votes is in play.
LEMMA VotedStand ==
  ASSUME NEW g \in GameState, NEW p \in BallotPhases, Court(g, p)
  PROVE Voted(g) \subseteq Live(g)
<1>1. BallotsAreFair(g) /\ Among(g.nominations, Live(g)) BY DEF Court, Lists
<1>2. Nominees(g) \subseteq Live(g) BY <1>1, AmongIsToSet DEF Nominees, GameState
<1>. QED BY <1>1, <1>2 DEF Voted, BallotsAreFair

-----------------------------------------------------------------------------
(* What leaving a phase does to the lists.                                 *)

LEMMA AcquitFields ==
  ASSUME NEW g \in GameState
  PROVE LET h == Acquit(g)
        IN /\ h.alive = g.alive /\ h.removed = g.removed /\ h.nominations = <<>>
           /\ h.tied = <<>> /\ h.lastWord = g.lastWord /\ h.votes = NoVotes
           /\ h.mafiaVotes = g.mafiaVotes /\ h.lift = g.lift
           /\ h.phase = g.phase /\ h.disqualified = g.disqualified
BY DEF Acquit, GameState

LEMMA CondemnFields ==
  ASSUME NEW g \in GameState, NEW queue
  PROVE LET h == Condemn(g, queue)
        IN /\ h.alive = g.alive \ ToSet(queue) /\ h.removed = g.removed
           /\ h.nominations = g.nominations
           /\ h.tied = g.tied /\ h.lastWord = queue /\ h.votes = g.votes
           /\ h.mafiaVotes = g.mafiaVotes /\ h.lift = g.lift
           /\ h.phase = g.phase
BY DEF Condemn, KillSeats, GameState

\* Closing the court without a sentence.
LEMMA AcquittedLists ==
  ASSUME NEW g \in GameState, NEW h, Lists(g),
         h.alive = g.alive, h.removed = g.removed, h.lastWord = g.lastWord,
         h.mafiaVotes = g.mafiaVotes,
         h.lift = g.lift \/ h.lift = NoBallots,
         h.nominations = <<>>, h.tied = <<>>, h.votes = NoVotes
  PROVE Lists(h)
<1>1. g.removed \in SUBSET Seats BY DEF GameState
<1>2. Live(h) = Live(g) BY DEF Live
<1>3. Unmarked(h.votes, h.removed) BY <1>1, NoVotesAreFair
<1>4. \A s \in h.removed : h.lift[s] = "none" BY <1>1 DEF Lists, NoBallots
<1>. QED BY <1>2, <1>3, <1>4, EmptyList DEF Lists

\* Closing it with one: the condemned leave the table and queue for a last word.
LEMMA CondemnedCourt ==
  ASSUME NEW g \in GameState, NEW h, Lists(g), NEW queue \in Seq(Seats),
         Distinct(queue), Among(queue, Seats \ g.removed),
         h.alive = g.alive \ ToSet(queue), h.removed = g.removed, h.lastWord = queue,
         h.mafiaVotes = g.mafiaVotes, h.lift = g.lift \/ h.lift = NoBallots,
         h.votes = g.votes \/ h.votes = NoVotes,
         h.nominations = <<>>, h.tied = <<>>
  PROVE Court(h, "DAY_LAST_WORD")
<1>1. g.removed \in SUBSET Seats BY DEF GameState
<1>2. Unmarked(h.votes, h.removed) BY <1>1, NoVotesAreFair DEF Lists
<1>3. \A s \in h.removed : h.lift[s] = "none" BY <1>1 DEF Lists, NoBallots
<1>4. Lists(h) BY <1>2, <1>3, EmptyList DEF Lists
<1>. QED BY <1>4 DEF Court, UnvotedPhases, BallotPhases

LEMMA LeaveVoteCourt ==
  ASSUME NEW g \in GameState, g.phase = "DAY_VOTE", Court(g, g.phase)
  PROVE Court(LeaveVote(g), NextPhase(LeaveVote(g)))
<1>. DEFINE chosen == ResolveVote(g)
            tie == FindTiedSeats(g)
            h == LeaveVote(g)
<1>1. Lists(g) /\ g.tied = <<>> /\ g.lastWord = <<>>
  BY DEF Court, TiePhases
<1>2. Voted(g) \subseteq Live(g) BY VotedStand DEF BallotPhases
<1>3. CASE g.disqualified
  <2>1. h = Acquit(g) BY <1>3 DEF LeaveVote
  <2>. HIDE DEF h
  <2>2. /\ h.alive = g.alive /\ h.removed = g.removed /\ h.nominations = <<>>
        /\ h.tied = <<>> /\ h.lastWord = g.lastWord /\ h.votes = NoVotes
        /\ h.mafiaVotes = g.mafiaVotes /\ h.lift = g.lift /\ h.phase = g.phase
    BY <2>1, AcquitFields
  <2>3. Lists(h) BY <1>1, <2>2, AcquittedLists
  <2>4. NextPhase(h) = "NIGHT_MAFIA" BY <1>1, <2>2 DEF NextPhase
  <2>. QED BY <1>1, <2>2, <2>3, <2>4, CourtAtNight DEF h
<1>4. CASE ~g.disqualified /\ chosen # NoSeat
  <2>. DEFINE c == Condemn(g, <<chosen>>)
  <2>1. h = [c EXCEPT !.nominations = <<>>] BY <1>4 DEF LeaveVote
  <2>2. chosen \in Seats /\ chosen \in Live(g) BY <1>2, <1>4, CountedWereVoted
  <2>3. <<chosen>> \in Seq(Seats) /\ Distinct(<<chosen>>) /\ <<chosen>> # <<>>
        /\ Among(<<chosen>>, Seats \ g.removed)
    BY <2>2, OneSeatList DEF Live
  <2>4. /\ c.alive = g.alive \ ToSet(<<chosen>>) /\ c.removed = g.removed
        /\ c.tied = g.tied /\ c.lastWord = <<chosen>> /\ c.votes = g.votes
        /\ c.mafiaVotes = g.mafiaVotes /\ c.lift = g.lift /\ c.phase = g.phase
    BY CondemnFields
  <2>5. c \in GameState BY <2>3, CondemnTyped
  <2>. HIDE DEF h, c, chosen
  <2>6. /\ h.alive = g.alive \ ToSet(<<chosen>>) /\ h.removed = g.removed
        /\ h.nominations = <<>>
        /\ h.tied = <<>> /\ h.lastWord = <<chosen>> /\ h.votes = g.votes
        /\ h.mafiaVotes = g.mafiaVotes /\ h.lift = g.lift /\ h.phase = g.phase
    BY <1>1, <2>1, <2>4, <2>5 DEF GameState
  <2>7. NextPhase(h) = "DAY_LAST_WORD" BY <2>3, <2>6 DEF NextPhase
  <2>8. Court(h, "DAY_LAST_WORD") BY <1>1, <2>3, <2>6, CondemnedCourt
  <2>. QED BY <2>7, <2>8 DEF h
<1>5. CASE ~g.disqualified /\ chosen = NoSeat /\ tie # <<>>
  <2>1. h = OpenRunoff(g, tie) BY <1>5 DEF LeaveVote
  <2>2. tie \in Seq(Seats) /\ Ordered(tie) /\ Among(tie, Voted(g)) /\ Len(tie) >= 2
    BY <1>5, CountedWereVoted
  <2>. HIDE DEF h, tie
  <2>3. /\ h.alive = g.alive /\ h.removed = g.removed /\ h.nominations = tie
        /\ h.tied = tie /\ h.lastWord = <<>> /\ h.votes = NoVotes
        /\ h.mafiaVotes = g.mafiaVotes /\ h.lift = g.lift /\ h.phase = g.phase
    BY <1>1, <2>1 DEF OpenRunoff, GameState
  <2>4. NextPhase(h) = "DAY_SHOOTOUT" BY <2>2, <2>3 DEF NextPhase
  <2>5. Distinct(tie) BY <2>2, OrderedIsDistinct
  <2>6. Among(tie, Live(h)) BY <1>2, <2>2, <2>3 DEF Among, Live
  <2>7. Unmarked(h.votes, h.removed) BY <2>3, NoVotesAreFair DEF GameState
  <2>8. Lists(h) BY <1>1, <2>2, <2>3, <2>5, <2>6, <2>7 DEF Lists
  <2>9. Court(h, "DAY_SHOOTOUT")
    BY <2>3, <2>8 DEF Court, NominationPhases, CourtPhases, TiePhases, BallotPhases
  <2>. QED BY <2>4, <2>9 DEF h
<1>6. CASE ~g.disqualified /\ chosen = NoSeat /\ tie = <<>>
  <2>1. h = [g EXCEPT !.votes = NoVotes, !.nominations = <<>>] BY <1>6 DEF LeaveVote
  <2>. HIDE DEF h
  <2>2. /\ h.alive = g.alive /\ h.removed = g.removed /\ h.nominations = <<>>
        /\ h.tied = <<>> /\ h.lastWord = g.lastWord /\ h.votes = NoVotes
        /\ h.mafiaVotes = g.mafiaVotes /\ h.lift = g.lift /\ h.phase = g.phase
    BY <1>1, <2>1 DEF GameState
  <2>3. Lists(h) BY <1>1, <2>2, AcquittedLists
  <2>4. NextPhase(h) = "NIGHT_MAFIA" BY <1>1, <2>2 DEF NextPhase
  <2>. QED BY <1>1, <2>2, <2>3, <2>4, CourtAtNight DEF h
<1>. QED BY <1>3, <1>4, <1>5, <1>6 DEF GameState

LEMMA LeaveRevoteCourt ==
  ASSUME NEW g \in GameState, g.phase = "DAY_REVOTE", Court(g, g.phase)
  PROVE Court(LeaveRevote(g), NextPhase(LeaveRevote(g)))
<1>. DEFINE chosen == ResolveVote(g)
            tie == FindTiedSeats(g)
            counted == [g EXCEPT !.shootoutIdx = 0]
            h == LeaveRevote(g)
<1>1. Lists(g) /\ g.lastWord = <<>> BY DEF Court
<1>2. Voted(g) \subseteq Live(g) BY VotedStand DEF BallotPhases
<1>3. counted \in GameState BY ClearedTyped
<1>4. /\ counted.alive = g.alive /\ counted.removed = g.removed
      /\ counted.lastWord = <<>> /\ counted.votes = g.votes
      /\ counted.mafiaVotes = g.mafiaVotes /\ counted.lift = g.lift /\ counted.phase = g.phase
  BY <1>1 DEF GameState
<1>5. CASE ~g.disqualified /\ chosen # NoSeat
  <2>. DEFINE c == Condemn(counted, <<chosen>>)
  <2>1. h = [c EXCEPT !.nominations = <<>>, !.tied = <<>>] BY <1>5 DEF LeaveRevote
  <2>2. chosen \in Seats /\ chosen \in Live(g) BY <1>2, <1>5, CountedWereVoted
  <2>3. <<chosen>> \in Seq(Seats) /\ Distinct(<<chosen>>) /\ <<chosen>> # <<>>
        /\ Among(<<chosen>>, Seats \ g.removed)
    BY <2>2, OneSeatList DEF Live
  <2>. HIDE DEF counted, chosen
  <2>4. /\ c.alive = counted.alive \ ToSet(<<chosen>>) /\ c.removed = counted.removed
        /\ c.lastWord = <<chosen>> /\ c.votes = counted.votes
        /\ c.mafiaVotes = counted.mafiaVotes /\ c.lift = counted.lift /\ c.phase = counted.phase
    BY <1>3, CondemnFields
  <2>5. c \in GameState BY <1>3, <2>3, CondemnTyped
  <2>. HIDE DEF h, c
  <2>6. /\ h.alive = g.alive \ ToSet(<<chosen>>) /\ h.removed = g.removed
        /\ h.nominations = <<>>
        /\ h.tied = <<>> /\ h.lastWord = <<chosen>> /\ h.votes = g.votes
        /\ h.mafiaVotes = g.mafiaVotes /\ h.lift = g.lift /\ h.phase = g.phase
    BY <1>4, <2>1, <2>4, <2>5 DEF GameState
  <2>7. NextPhase(h) = "DAY_LAST_WORD" BY <2>3, <2>6 DEF NextPhase
  <2>8. Court(h, "DAY_LAST_WORD") BY <1>1, <2>3, <2>6, CondemnedCourt
  <2>. QED BY <2>7, <2>8 DEF h
<1>6. CASE ~g.disqualified /\ chosen = NoSeat /\ tie # <<>>
  <2>. DEFINE a == Acquit(counted)
  <2>1. h = [a EXCEPT !.tied = tie, !.lift = NoBallots] BY <1>6 DEF LeaveRevote
  <2>2. tie \in Seq(Seats) /\ Ordered(tie) /\ Among(tie, Voted(g)) /\ Len(tie) >= 2
    BY <1>6, CountedWereVoted
  <2>3. a \in GameState BY <1>3, AcquitTyped
  <2>. HIDE DEF h, tie, counted
  <2>4. /\ a.alive = g.alive /\ a.removed = g.removed /\ a.nominations = <<>>
        /\ a.lastWord = <<>> /\ a.votes = NoVotes
        /\ a.mafiaVotes = g.mafiaVotes /\ a.phase = g.phase
    BY <1>3, <1>4, AcquitFields
  <2>. HIDE DEF a
  <2>5. /\ h.alive = g.alive /\ h.removed = g.removed /\ h.nominations = <<>>
        /\ h.tied = tie /\ h.lastWord = <<>> /\ h.votes = NoVotes
        /\ h.mafiaVotes = g.mafiaVotes /\ h.lift = NoBallots /\ h.phase = g.phase
    BY <2>1, <2>3, <2>4 DEF GameState
  <2>6. NextPhase(h) = "DAY_LIFT_VOTE" BY <2>2, <2>5 DEF NextPhase
  <2>7. Among(tie, Live(h)) BY <1>2, <2>2, <2>5 DEF Among, Live
  <2>8. Unmarked(h.votes, h.removed) BY <2>5, NoVotesAreFair DEF GameState
  <2>9. \A s \in h.removed : h.lift[s] = "none" BY <2>5 DEF NoBallots, GameState
  <2>10. Lists(h) BY <1>1, <2>2, <2>5, <2>7, <2>8, <2>9, EmptyList DEF Lists
  <2>11. Court(h, "DAY_LIFT_VOTE")
    BY <2>5, <2>10 DEF Court, TiePhases, UnvotedPhases, BallotPhases
  <2>. QED BY <2>6, <2>11 DEF h
<1>7. CASE ~(~g.disqualified /\ chosen # NoSeat) /\ ~(~g.disqualified /\ chosen = NoSeat /\ tie # <<>>)
  <2>1. h = Acquit(counted) BY <1>7 DEF LeaveRevote
  <2>. HIDE DEF h, counted
  <2>2. /\ h.alive = g.alive /\ h.removed = g.removed /\ h.nominations = <<>>
        /\ h.tied = <<>> /\ h.lastWord = g.lastWord /\ h.votes = NoVotes
        /\ h.mafiaVotes = g.mafiaVotes /\ h.lift = g.lift /\ h.phase = g.phase
    BY <1>1, <1>3, <1>4, <2>1, AcquitFields
  <2>3. Lists(h) BY <1>1, <2>2, AcquittedLists
  <2>4. NextPhase(h) = "NIGHT_MAFIA" BY <1>1, <2>2 DEF NextPhase
  <2>. QED BY <1>1, <2>2, <2>3, <2>4, CourtAtNight DEF h
<1>. QED BY <1>5, <1>6, <1>7

LEMMA LeaveLiftVoteCourt ==
  ASSUME NEW g \in GameState, g.phase = "DAY_LIFT_VOTE", Court(g, g.phase)
  PROVE Court(LeaveLiftVote(g), NextPhase(LeaveLiftVote(g)))
<1>. DEFINE closed == [g EXCEPT !.lift = NoBallots, !.tied = <<>>]
            h == LeaveLiftVote(g)
<1>1. Lists(g) /\ g.nominations = <<>> /\ g.lastWord = <<>>
  BY DEF Court, NominationPhases, CourtPhases
<1>2. closed \in GameState BY ClearedTyped
<1>3. /\ closed.alive = g.alive /\ closed.removed = g.removed /\ closed.nominations = <<>>
      /\ closed.tied = <<>> /\ closed.lastWord = <<>> /\ closed.votes = g.votes
      /\ closed.mafiaVotes = g.mafiaVotes /\ closed.lift = NoBallots
      /\ closed.phase = "DAY_LIFT_VOTE"
  BY <1>1 DEF GameState
<1>4. CASE ~g.disqualified /\ LiftPasses(g) /\ g.tied # <<>>
  <2>. DEFINE c == Condemn(closed, g.tied)
  <2>1. h = [c EXCEPT !.multiKill = @ \/ LiftForfeitsBestMove(g)] BY <1>4 DEF LeaveLiftVote
  <2>2. g.tied \in Seq(Seats) BY DEF GameState
  <2>3. Distinct(g.tied) /\ Among(g.tied, Seats \ g.removed)
    BY <1>1, <2>2, OrderedIsDistinct DEF Lists, Among, Live
  <2>. HIDE DEF closed
  <2>4. c \in GameState BY <1>2, <1>4, <2>2, CondemnTyped
  <2>5. /\ c.alive = g.alive \ ToSet(g.tied) /\ c.removed = g.removed
        /\ c.nominations = <<>> /\ c.tied = <<>> /\ c.lastWord = g.tied /\ c.votes = g.votes
        /\ c.mafiaVotes = g.mafiaVotes /\ c.lift = NoBallots /\ c.phase = "DAY_LIFT_VOTE"
    BY <1>2, <1>3, CondemnFields
  <2>. HIDE DEF h, c
  <2>6. /\ h.alive = g.alive \ ToSet(g.tied) /\ h.removed = g.removed
        /\ h.nominations = <<>> /\ h.tied = <<>> /\ h.lastWord = g.tied /\ h.votes = g.votes
        /\ h.mafiaVotes = g.mafiaVotes /\ h.lift = NoBallots /\ h.phase = "DAY_LIFT_VOTE"
    BY <2>1, <2>4, <2>5 DEF GameState
  <2>7. NextPhase(h) = "DAY_LAST_WORD" BY <1>4, <2>6 DEF NextPhase
  <2>8. Court(h, "DAY_LAST_WORD") BY <1>1, <2>2, <2>3, <2>6, CondemnedCourt
  <2>. QED BY <2>7, <2>8 DEF h
<1>5. CASE ~(~g.disqualified /\ LiftPasses(g) /\ g.tied # <<>>)
  <2>1. h = closed BY <1>5 DEF LeaveLiftVote
  <2>. HIDE DEF h, closed
  <2>2. \A s \in h.removed : h.lift[s] = "none"
    BY <1>2, <1>3, <2>1 DEF NoBallots, GameState
  <2>3. Lists(h) BY <1>1, <1>3, <2>1, <2>2, EmptyList DEF Lists, Live
  <2>4. NextPhase(h) = "NIGHT_MAFIA" BY <1>3, <2>1 DEF NextPhase
  <2>. QED BY <1>3, <2>1, <2>3, <2>4, CourtAtNight DEF h
<1>. QED BY <1>4, <1>5

LEMMA LeaveSpeechCourt ==
  ASSUME NEW g \in GameState, g.phase = "DAY_SPEECH", Court(g, g.phase)
  PROVE Court(LeaveSpeech(g), NextPhase(LeaveSpeech(g)))
<1>. DEFINE quiet == [g EXCEPT !.spoken = {}, !.speaker = NoSeat]
            h == LeaveSpeech(g)
<1>1. Lists(g) /\ g.tied = <<>> /\ g.lastWord = <<>> /\ g.votes = NoVotes
  BY DEF Court, TiePhases, UnvotedPhases
<1>2. quiet \in GameState BY ClearedTyped
<1>3. /\ quiet.alive = g.alive /\ quiet.removed = g.removed
      /\ quiet.nominations = g.nominations
      /\ quiet.tied = <<>> /\ quiet.lastWord = <<>> /\ quiet.votes = NoVotes
      /\ quiet.mafiaVotes = g.mafiaVotes /\ quiet.lift = g.lift
      /\ quiet.phase = "DAY_SPEECH" /\ quiet.disqualified = g.disqualified
  BY <1>1 DEF GameState
<1>4. CASE g.disqualified
  <2>1. h = Acquit(quiet) BY <1>4 DEF LeaveSpeech
  <2>. HIDE DEF h, quiet
  <2>2. /\ h.alive = g.alive /\ h.removed = g.removed /\ h.nominations = <<>>
        /\ h.tied = <<>> /\ h.lastWord = <<>> /\ h.votes = NoVotes
        /\ h.mafiaVotes = g.mafiaVotes /\ h.lift = g.lift
        /\ h.phase = "DAY_SPEECH" /\ h.disqualified = g.disqualified
    BY <1>2, <1>3, <2>1, AcquitFields
  <2>3. Lists(h) BY <1>1, <2>2, AcquittedLists
  <2>4. NextPhase(h) = "NIGHT_MAFIA" BY <1>4, <2>2 DEF NextPhase
  <2>. QED BY <2>2, <2>3, <2>4, CourtAtNight DEF h
<1>5. CASE ~g.disqualified
  <2>1. h = quiet BY <1>5 DEF LeaveSpeech
  <2>. HIDE DEF h, quiet
  <2>2. Lists(h) BY <1>1, <1>3, <2>1 DEF Lists, Live
  <2>3. CASE g.nominations = <<>>
    <3>1. NextPhase(h) = "NIGHT_MAFIA" BY <1>3, <2>1, <2>3 DEF NextPhase
    <3>. QED BY <1>3, <2>1, <2>2, <2>3, <3>1, CourtAtNight DEF h
  <2>4. CASE g.nominations # <<>>
    <3>1. NextPhase(h) = "DAY_VOTE_INTRO" BY <1>3, <1>5, <2>1, <2>4 DEF NextPhase
    <3>2. Court(h, "DAY_VOTE_INTRO")
      BY <1>3, <2>1, <2>2 DEF Court, NominationPhases, CourtPhases, BallotPhases
    <3>. QED BY <3>1, <3>2 DEF h
  <2>. QED BY <2>3, <2>4
<1>. QED BY <1>4, <1>5 DEF GameState

\* The night takes a seat; the lists are empty by then.
LEMMA LeaveNightCourt ==
  ASSUME NEW g \in GameState, g.phase = "NIGHT_SHERIFF", Court(g, g.phase)
  PROVE Court(LeaveNight(g), "MORNING_ANNOUNCEMENT")
<1>. DEFINE h == LeaveNight(g)
<1>1. /\ Lists(g) /\ g.nominations = <<>> /\ g.tied = <<>> /\ g.lastWord = <<>>
  BY DEF Court, NominationPhases, CourtPhases, TiePhases
<1>2. /\ h.alive \subseteq g.alive /\ h.removed = g.removed /\ h.nominations = <<>>
      /\ h.tied = <<>> /\ h.lastWord = <<>> /\ h.votes = g.votes
      /\ h.mafiaVotes = g.mafiaVotes /\ h.lift = g.lift
  BY <1>1 DEF LeaveNight, KillSeats, GameState
<1>. HIDE DEF h
<1>3. Lists(h) BY <1>1, <1>2, EmptyList DEF Lists
<1>. QED BY <1>2, <1>3, CourtAtNight DEF h

LEMMA LeaveMorningCourt ==
  ASSUME NEW g \in GameState, g.phase = "MORNING_ANNOUNCEMENT", Court(g, g.phase)
  PROVE Court(LeaveMorning(g), "DAY_SPEECH")
<1>. DEFINE h == LeaveMorning(g)
<1>1. /\ Lists(g) /\ g.nominations = <<>> /\ g.tied = <<>> /\ g.lastWord = <<>>
  BY DEF Court, NominationPhases, CourtPhases, TiePhases
<1>2. /\ h.alive = g.alive /\ h.removed = g.removed /\ h.nominations = <<>>
      /\ h.tied = <<>> /\ h.lastWord = <<>> /\ h.votes = NoVotes
      /\ h.mafiaVotes = NoVotes /\ h.lift = g.lift
  BY <1>1 DEF LeaveMorning, GameState
<1>. HIDE DEF h
<1>3. Unmarked(NoVotes, h.removed) BY <1>2, NoVotesAreFair DEF GameState
<1>4. Lists(h) BY <1>1, <1>2, <1>3, EmptyList DEF Lists
<1>5. Court(h, "DAY_SPEECH") BY <1>2, <1>4 DEF Court, BallotPhases
<1>. QED BY <1>5 DEF h

LEMMA ResolveIntroCourt ==
  ASSUME NEW g \in GameState, g.phase = "DAY_VOTE_INTRO", Court(g, g.phase)
  PROVE Court(SettleIntro(g, NextPhase(g)), NextPhase(g))
<1>. DEFINE to == NextPhase(g)
            h == SettleIntro(g, to)
<1>1. Lists(g) /\ g.tied = <<>> /\ g.lastWord = <<>> /\ g.votes = NoVotes
  BY DEF Court, TiePhases, UnvotedPhases
<1>2. to \in {"NIGHT_MAFIA", "DAY_LAST_WORD", "DAY_VOTE"}
      /\ (to = "DAY_LAST_WORD" => g.nominations # <<>>)
  BY NextPhaseTyped DEF NextPhase
<1>. HIDE DEF to
<1>3. CASE to = "NIGHT_MAFIA" /\ g.nominations # <<>>
  <2>1. h = Acquit(g) BY <1>3 DEF SettleIntro
  <2>. HIDE DEF h
  <2>2. /\ h.alive = g.alive /\ h.removed = g.removed /\ h.nominations = <<>>
        /\ h.tied = <<>> /\ h.lastWord = g.lastWord /\ h.votes = NoVotes
        /\ h.mafiaVotes = g.mafiaVotes /\ h.lift = g.lift
    BY <2>1, AcquitFields
  <2>3. Lists(h) BY <1>1, <2>2, AcquittedLists
  <2>. QED BY <1>1, <1>3, <2>2, <2>3, CourtAtNight DEF h, to
<1>4. CASE to = "NIGHT_MAFIA" /\ g.nominations = <<>>
  <2>1. h = g BY <1>4 DEF SettleIntro
  <2>. QED BY <1>1, <1>4, <2>1, CourtAtNight DEF to
<1>5. CASE to = "DAY_LAST_WORD"
  <2>. DEFINE c == Condemn(g, g.nominations)
  <2>1. h = [c EXCEPT !.votes = NoVotes, !.nominations = <<>>] BY <1>5 DEF SettleIntro
  <2>2. g.nominations \in Seq(Seats) BY DEF GameState
  <2>3. Distinct(g.nominations) /\ Among(g.nominations, Seats \ g.removed)
    BY <1>1, <2>2 DEF Lists, Among, Live
  <2>4. c \in GameState BY <1>2, <1>5, <2>2, CondemnTyped
  <2>5. /\ c.alive = g.alive \ ToSet(g.nominations) /\ c.removed = g.removed
        /\ c.tied = <<>> /\ c.lastWord = g.nominations
        /\ c.mafiaVotes = g.mafiaVotes /\ c.lift = g.lift
    BY <1>1, CondemnFields
  <2>. HIDE DEF h, c
  <2>6. /\ h.alive = g.alive \ ToSet(g.nominations) /\ h.removed = g.removed
        /\ h.nominations = <<>> /\ h.tied = <<>> /\ h.lastWord = g.nominations
        /\ h.votes = NoVotes /\ h.mafiaVotes = g.mafiaVotes /\ h.lift = g.lift
    BY <2>1, <2>4, <2>5 DEF GameState
  <2>7. Court(h, "DAY_LAST_WORD") BY <1>1, <2>2, <2>3, <2>6, CondemnedCourt
  <2>. QED BY <1>5, <2>7 DEF h, to
<1>6. CASE to = "DAY_VOTE"
  <2>1. h = g BY <1>6 DEF SettleIntro
  <2>2. Court(g, "DAY_VOTE")
    BY <1>1, NoVotesAreFair DEF Court, NominationPhases, CourtPhases, UnvotedPhases
  <2>. QED BY <1>6, <2>1, <2>2 DEF to
<1>. QED BY <1>2, <1>3, <1>4, <1>5, <1>6

\* The resolved table is one the phase it goes to may have.
LEMMA ResolveCourt ==
  ASSUME NEW g \in GameState, Court(g, g.phase)
  PROVE Court(Resolve(g), NextPhase(Leave(g)))
<1>1. CASE g.phase = "DAY_VOTE_INTRO"
  BY <1>1, ResolveIntroCourt DEF Resolve, Leave
<1>2. CASE g.phase = "DAY_VOTE" BY <1>2, LeaveVoteCourt DEF Resolve, Leave
<1>3. CASE g.phase = "DAY_REVOTE" BY <1>3, LeaveRevoteCourt DEF Resolve, Leave
<1>4. CASE g.phase = "DAY_LIFT_VOTE" BY <1>4, LeaveLiftVoteCourt DEF Resolve, Leave
<1>5. CASE g.phase = "DAY_SPEECH" BY <1>5, LeaveSpeechCourt DEF Resolve, Leave
<1>6. CASE g.phase = "NIGHT_SHERIFF"
  <2>1. Leave(g) = LeaveNight(g) /\ Resolve(g) = LeaveNight(g) BY <1>6 DEF Resolve, Leave
  <2>2. LeaveNight(g).phase = "NIGHT_SHERIFF" BY <1>6 DEF LeaveNight, KillSeats, GameState
  <2>3. NextPhase(LeaveNight(g)) = "MORNING_ANNOUNCEMENT" BY <2>2 DEF NextPhase
  <2>. QED BY <1>6, <2>1, <2>3, LeaveNightCourt
<1>7. CASE g.phase = "MORNING_ANNOUNCEMENT"
  <2>1. Leave(g) = LeaveMorning(g) /\ Resolve(g) = LeaveMorning(g) BY <1>7 DEF Resolve, Leave
  <2>2. LeaveMorning(g).phase = "MORNING_ANNOUNCEMENT" BY <1>7 DEF LeaveMorning, GameState
  <2>3. NextPhase(LeaveMorning(g)) = "DAY_SPEECH" BY <2>2 DEF NextPhase
  <2>. QED BY <1>7, <2>1, <2>3, LeaveMorningCourt
<1>8. CASE g.phase = "DAY_SHOOTOUT"
  <2>. DEFINE h == [g EXCEPT !.speaker = NoSeat, !.shootoutIdx = 0]
  <2>1. Leave(g) = h /\ Resolve(g) = h BY <1>8 DEF Resolve, Leave
  <2>2. SameCourt(g, h) /\ h.phase = "DAY_SHOOTOUT" BY <1>8 DEF SameCourt, GameState
  <2>. HIDE DEF h
  <2>3. NextPhase(h) = "DAY_REVOTE" BY <2>2 DEF NextPhase
  <2>4. g.votes = NoVotes BY <1>8 DEF Court, UnvotedPhases
  <2>5. Court(g, "DAY_REVOTE")
    BY <1>8, <2>4, NoVotesAreFair
    DEF Court, NominationPhases, CourtPhases, TiePhases, UnvotedPhases
  <2>. QED BY <2>1, <2>2, <2>3, <2>5, CourtOfSame
<1>9. CASE g.phase = "DAY_LAST_WORD"
  <2>. DEFINE h == [g EXCEPT !.lastWord = <<>>, !.lastWordIdx = 0, !.speaker = NoSeat]
  <2>1. Leave(g) = h /\ Resolve(g) = h BY <1>9 DEF Resolve, Leave
  <2>2. /\ Lists(g) /\ g.nominations = <<>> /\ g.tied = <<>>
    BY <1>9 DEF Court, NominationPhases, CourtPhases, TiePhases
  <2>3. /\ h.alive = g.alive /\ h.removed = g.removed /\ h.nominations = <<>>
        /\ h.tied = <<>> /\ h.lastWord = <<>> /\ h.votes = g.votes
        /\ h.mafiaVotes = g.mafiaVotes /\ h.lift = g.lift /\ h.phase = "DAY_LAST_WORD"
    BY <1>9, <2>2 DEF GameState
  <2>. HIDE DEF h
  <2>4. NextPhase(h) = "NIGHT_MAFIA" BY <2>3 DEF NextPhase
  <2>5. Lists(h) BY <2>2, <2>3, EmptyList DEF Lists
  <2>. QED BY <2>1, <2>3, <2>4, <2>5, CourtAtNight
<1>10. CASE g.phase \in {"PLAYER_INTRODUCTION", "ROLE_DISTRIBUTION", "NIGHT_ZERO"}
  <2>1. Leave(g) = g /\ Resolve(g) = g BY <1>10 DEF Resolve, Leave
  <2>2. NextPhase(g) \in {"ROLE_DISTRIBUTION", "NIGHT_ZERO", "DAY_SPEECH"}
    BY <1>10 DEF NextPhase
  <2>3. /\ Lists(g) /\ g.nominations = <<>> /\ g.tied = <<>> /\ g.lastWord = <<>>
        /\ g.votes = NoVotes
    BY <1>10 DEF Court, NominationPhases, CourtPhases, TiePhases, UnvotedPhases
  <2>4. Court(g, NextPhase(g)) BY <2>2, <2>3 DEF Court, BallotPhases
  <2>. QED BY <2>1, <2>4
<1>11. CASE g.phase \in {"NIGHT_MAFIA", "NIGHT_DON"}
  <2>1. Leave(g) = g /\ Resolve(g) = g BY <1>11 DEF Resolve, Leave
  <2>2. NextPhase(g) \in {"NIGHT_DON", "NIGHT_SHERIFF"} BY <1>11 DEF NextPhase
  <2>3. /\ Lists(g) /\ g.nominations = <<>> /\ g.tied = <<>> /\ g.lastWord = <<>>
    BY <1>11 DEF Court, NominationPhases, CourtPhases, TiePhases
  <2>. QED BY <2>1, <2>2, <2>3, CourtAtNight
<1>12. CASE g.phase = "GAME_OVER"
  <2>1. Leave(g) = g /\ Resolve(g) = g /\ NextPhase(g) = "GAME_OVER"
    BY <1>12 DEF Resolve, Leave, NextPhase
  <2>. QED BY <1>12, <2>1
<1>. QED
  BY <1>1, <1>2, <1>3, <1>4, <1>5, <1>6, <1>7, <1>8, <1>9, <1>10, <1>11, <1>12
  DEF GameState, Phases

LEMMA AdvanceCourt ==
  ASSUME NEW g \in GameState, Court(g, g.phase)
  PROVE Court(ApplyAdvancePhase(g), ApplyAdvancePhase(g).phase)
<1>. DEFINE h == Resolve(g)
            to == NextPhase(Leave(g))
<1>1. h \in GameState /\ Court(h, to) BY ResolveTyped, ResolveCourt
<1>. HIDE DEF h, to
<1>2. SameCourt(h, Finish(h)) /\ Finish(h).phase = "GAME_OVER"
  BY <1>1 DEF SameCourt, Finish, GameState
<1>3. SameCourt(h, Enter(g, h, to)) /\ Enter(g, h, to).phase = to
  BY <1>1 DEF SameCourt, Enter, GameState
<1>4. Court(Finish(h), "GAME_OVER") BY <1>1, <1>2, CourtOver, CourtOfSame
<1>5. Court(Enter(g, h, to), to) BY <1>1, <1>3, CourtOfSame
<1>. QED BY <1>2, <1>3, <1>4, <1>5 DEF ApplyAdvancePhase, h, to

-----------------------------------------------------------------------------
(* What happens within a phase.                                            *)

\* The votes cast for the silent are votes for a nominee, by seats in play.
LEMMA AutoCastIsFair ==
  ASSUME NEW g \in GameState, NEW h \in GameState, g.phase \in BallotPhases,
         Court(g, g.phase), g.nominations # <<>>,
         h.alive = g.alive, h.removed = g.removed, h.nominations = g.nominations,
         h.tied = g.tied, h.lastWord = g.lastWord, h.votes = AutoCast(g),
         h.mafiaVotes = g.mafiaVotes, h.lift = g.lift
  PROVE Court(h, g.phase)
<1>. DEFINE last == g.nominations[Len(g.nominations)]
<1>1. Lists(g) /\ BallotsAreFair(g) /\ g.nominations \in Seq(Seats) BY DEF Court, GameState
<1>2. last \in Nominees(g) /\ last \in Live(g)
  <2>1. Len(g.nominations) \in DOMAIN g.nominations BY <1>1
  <2>. QED BY <1>1, <2>1 DEF Nominees, ToSet, Lists, Among
<1>3. Live(h) = Live(g) /\ Nominees(h) = Nominees(g) BY DEF Live, Nominees
<1>4. \A v \in Seats : \/ h.votes[v] = g.votes[v]
                       \/ v \in Live(g) /\ v \notin Nominees(g) /\ h.votes[v] = last
  BY DEF AutoCast
<1>. HIDE DEF last
<1>5. BallotsAreFair(h)
  <2>1. SUFFICES ASSUME NEW v \in Seats, h.votes[v] # NoSeat
                 PROVE v \in Live(g) /\ v # h.votes[v] /\ h.votes[v] \in Nominees(g)
    BY <1>3 DEF BallotsAreFair
  <2>. QED BY <1>1, <1>2, <1>4, <2>1 DEF BallotsAreFair
<1>6. Unmarked(h.votes, h.removed)
  <2>1. SUFFICES ASSUME NEW v \in Seats
                 PROVE h.votes[v] \notin g.removed /\ (v \in g.removed => h.votes[v] = NoSeat)
    BY DEF Unmarked
  <2>. QED BY <1>1, <1>2, <1>4 DEF Unmarked, Lists, Live
<1>7. Lists(h) BY <1>1, <1>3, <1>6 DEF Lists
<1>. QED BY <1>5, <1>7 DEF Court, BallotPhases, UnvotedPhases

LEMMA StepperCourt ==
  ASSUME NEW g \in GameState, Court(g, g.phase)
  PROVE Court(ApplyNextSpeaker(g), g.phase)
<1>. DEFINE h == ApplyNextSpeaker(g)
<1>1. h \in GameState BY NextSpeakerTyped
<1>2. CASE g.phase \in BallotPhases
  <2>1. CASE g.round < Len(g.nominations)
    <3>1. h = [g EXCEPT !.votes = IF SpeechesDone(g) THEN AutoCast(g) ELSE @, !.round = @ + 1]
      BY <1>2, <2>1 DEF ApplyNextSpeaker, BallotPhases
    <3>2. /\ h.alive = g.alive /\ h.removed = g.removed /\ h.nominations = g.nominations
          /\ h.tied = g.tied /\ h.lastWord = g.lastWord
          /\ h.votes = IF SpeechesDone(g) THEN AutoCast(g) ELSE g.votes
          /\ h.mafiaVotes = g.mafiaVotes /\ h.lift = g.lift
      BY <3>1 DEF GameState
    <3>3. g.nominations # <<>>
      <4>1. Len(<<>>) = 0 /\ g.round \in Nat BY DEF GameState
      <4>. QED BY <2>1, <4>1
    <3>. HIDE DEF h
    <3>4. CASE SpeechesDone(g) BY <1>1, <1>2, <3>2, <3>3, <3>4, AutoCastIsFair DEF h
    <3>5. CASE ~SpeechesDone(g)
      <4>1. SameCourt(g, h) BY <3>2, <3>5 DEF SameCourt
      <4>. QED BY <4>1, CourtOfSame DEF h
    <3>. QED BY <3>4, <3>5
  <2>2. CASE ~(g.round < Len(g.nominations))
    BY <1>2, <2>2 DEF ApplyNextSpeaker, BallotPhases
  <2>. QED BY <2>1, <2>2
<1>3. CASE g.phase \notin BallotPhases
  <2>1. SameCourt(g, h)
    <3>1. CASE g.phase = "DAY_LAST_WORD"
      BY <3>1 DEF ApplyNextSpeaker, GameState, BallotPhases, SameCourt
    <3>2. CASE g.phase = "DAY_SHOOTOUT"
      BY <3>2 DEF ApplyNextSpeaker, GameState, BallotPhases, SameCourt
    <3>3. CASE g.phase = "DAY_SPEECH"
      BY <3>3 DEF ApplyNextSpeaker, GameState, BallotPhases, SameCourt
    <3>4. CASE g.phase \notin {"DAY_LAST_WORD", "DAY_SHOOTOUT", "DAY_SPEECH"}
      BY <1>3, <3>4 DEF ApplyNextSpeaker, SameCourt
    <3>. QED BY <3>1, <3>2, <3>3, <3>4
  <2>. QED BY <2>1, CourtOfSame
<1>. QED BY <1>2, <1>3

LEMMA StrikeOutFields ==
  ASSUME NEW g \in GameState, NEW s \in Seats
  PROVE LET h == StrikeOut(g, s)
        IN /\ h.alive = g.alive \ {s} /\ h.removed = g.removed \cup {s}
           /\ h.nominations = Without(g.nominations, s)
           /\ h.tied = Without(g.tied, s) /\ h.lastWord = Without(g.lastWord, s)
           /\ h.votes = Purged(g.votes, s) /\ h.mafiaVotes = Purged(g.mafiaVotes, s)
           /\ h.lift = [g.lift EXCEPT ![s] = "none"] /\ h.phase = g.phase
BY DEF StrikeOut, GameState

LEMMA EmptyWithout ==
  \A s : Without(<<>>, s) = <<>>
BY DEF Without, ToSet

LEMMA StrikeOutCourt ==
  ASSUME NEW g \in GameState, NEW s \in Seats, Court(g, g.phase)
  PROVE Court(StrikeOut(g, s), g.phase)
<1>. DEFINE h == StrikeOut(g, s)
<1>1. /\ h.alive = g.alive \ {s} /\ h.removed = g.removed \cup {s}
      /\ h.nominations = Without(g.nominations, s)
      /\ h.tied = Without(g.tied, s) /\ h.lastWord = Without(g.lastWord, s)
      /\ h.votes = Purged(g.votes, s) /\ h.mafiaVotes = Purged(g.mafiaVotes, s)
      /\ h.lift = [g.lift EXCEPT ![s] = "none"]
  BY StrikeOutFields
<1>. HIDE DEF h
<1>2. /\ g.nominations \in Seq(Seats) /\ g.tied \in Seq(Seats) /\ g.lastWord \in Seq(Seats)
      /\ g.votes \in [Seats -> SeatOrNone] /\ g.mafiaVotes \in [Seats -> SeatOrNone]
      /\ g.removed \in SUBSET Seats /\ g.lift \in [Seats -> Ballots]
  BY DEF GameState
<1>3. Lists(g) BY DEF Court
<1>4. /\ h.nominations \in Seq(Seats) /\ Distinct(h.nominations)
      /\ Nominees(h) = Nominees(g) \ {s}
  BY <1>1, <1>2, <1>3, WithoutTakesOne DEF Lists, Nominees
<1>5. /\ h.tied \in Seq(Seats) /\ Ordered(h.tied) /\ ToSet(h.tied) = ToSet(g.tied) \ {s}
  BY <1>1, <1>2, <1>3, WithoutTakesOne, OrderedIsDistinct DEF Lists
<1>6. /\ h.lastWord \in Seq(Seats) /\ Distinct(h.lastWord)
      /\ ToSet(h.lastWord) = ToSet(g.lastWord) \ {s}
  BY <1>1, <1>2, <1>3, WithoutTakesOne DEF Lists
<1>7. Live(h) = Live(g) \ {s} BY <1>1 DEF Live
<1>8. /\ Among(h.nominations, Live(h)) /\ Among(h.tied, Live(h))
      /\ Among(h.lastWord, Seats \ h.removed)
  <2>1. Nominees(g) \subseteq Live(g) /\ ToSet(g.tied) \subseteq Live(g)
        /\ ToSet(g.lastWord) \subseteq Seats \ g.removed
    BY <1>2, <1>3, AmongIsToSet DEF Lists, Nominees
  <2>2. ToSet(h.nominations) \subseteq Live(h) BY <1>4, <1>7, <2>1 DEF Nominees
  <2>3. ToSet(h.tied) \subseteq Live(h) BY <1>5, <1>7, <2>1
  <2>4. ToSet(h.lastWord) \subseteq Seats \ h.removed BY <1>1, <1>6, <2>1
  <2>. QED BY <1>4, <1>5, <1>6, <2>2, <2>3, <2>4, AmongIsToSet
<1>9. Unmarked(h.votes, h.removed) /\ Unmarked(h.mafiaVotes, h.removed)
  <2>1. Unmarked(g.votes, g.removed) /\ Unmarked(g.mafiaVotes, g.removed) BY <1>3 DEF Lists
  <2>2. Unmarked(Purged(g.votes, s), g.removed \cup {s}) BY <1>2, <2>1, PurgedUnmarks
  <2>3. Unmarked(Purged(g.mafiaVotes, s), g.removed \cup {s}) BY <1>2, <2>1, PurgedUnmarks
  <2>. QED BY <1>1, <2>2, <2>3
<1>10. \A r \in h.removed : h.lift[r] = "none" BY <1>1, <1>2, <1>3 DEF Lists
<1>11. Lists(h) BY <1>1, <1>3, <1>4, <1>5, <1>6, <1>8, <1>9, <1>10 DEF Lists
<1>12. BallotsAreFair(g) => BallotsAreFair(h)
  <2>1. SUFFICES ASSUME BallotsAreFair(g), NEW v \in Seats, h.votes[v] # NoSeat
                 PROVE v \in Live(h) /\ v # h.votes[v] /\ h.votes[v] \in Nominees(h)
    BY DEF BallotsAreFair
  <2>2. v # s /\ g.votes[v] # s /\ h.votes[v] = g.votes[v] BY <1>1, <2>1 DEF Purged
  <2>. QED BY <1>4, <1>7, <2>1, <2>2 DEF BallotsAreFair
<1>13. g.votes = NoVotes => h.votes = NoVotes BY <1>1 DEF Purged, NoVotes
<1>14. Court(h, g.phase) BY <1>1, <1>11, <1>12, <1>13, EmptyWithout DEF Court
<1>. QED BY <1>14 DEF h

LEMMA RemoveCourt ==
  ASSUME NEW g \in GameState, NEW s \in Seats, Court(g, g.phase)
  PROVE Court(ApplyJudgeRemove(g, s), ApplyJudgeRemove(g, s).phase)
<1>. DEFINE h == StrikeOut(g, s)
<1>1. h \in GameState /\ Court(h, g.phase) /\ h.phase = g.phase
  BY StrikeOutTyped, StrikeOutCourt, StrikeOutFields
<1>. HIDE DEF h
<1>2. SameCourt(h, Finish(h)) /\ Finish(h).phase = "GAME_OVER"
  BY <1>1 DEF SameCourt, Finish, GameState
<1>3. Court(Finish(h), "GAME_OVER") BY <1>1, <1>2, CourtOver, CourtOfSame
<1>. QED BY <1>1, <1>2, <1>3 DEF ApplyJudgeRemove, h

LEMMA FoulCourt ==
  ASSUME NEW g \in GameState, NEW s \in Seats, g.fouls[s] < FoulRemove, Court(g, g.phase)
  PROVE Court(AddFoul(g, s), AddFoul(g, s).phase)
<1>. DEFINE fouled == [g EXCEPT !.fouls[s] = @ + 1]
<1>1. fouled \in GameState
  <2>1. g.fouls[s] + 1 \in 0..FoulRemove BY RulesAssumption DEF GameState
  <2>. QED BY <2>1 DEF GameState
<1>2. SameCourt(g, fouled) /\ fouled.phase = g.phase BY DEF SameCourt, GameState
<1>3. Court(fouled, fouled.phase) BY <1>2, CourtOfSame
<1>. HIDE DEF fouled
<1>4. Court(ApplyJudgeRemove(fouled, s), ApplyJudgeRemove(fouled, s).phase)
  BY <1>1, <1>3, RemoveCourt
<1>. QED BY <1>3, <1>4 DEF AddFoul, fouled

LEMMA NominateCourt ==
  ASSUME NEW g \in GameState, NEW t \in Seats, CanNominate(g, t), Court(g, g.phase)
  PROVE Court(ApplyNominate(g, t), g.phase)
<1>. DEFINE h == ApplyNominate(g, t)
            q == g.nominations
<1>1. /\ h.alive = g.alive /\ h.removed = g.removed /\ h.nominations = Append(q, t)
      /\ h.tied = g.tied /\ h.lastWord = g.lastWord /\ h.votes = g.votes
      /\ h.mafiaVotes = g.mafiaVotes /\ h.lift = g.lift
  BY DEF ApplyNominate, GameState
<1>. HIDE DEF h
<1>2. q \in Seq(Seats) /\ t \in Live(g) /\ t \notin ToSet(q) /\ g.phase = "DAY_SPEECH"
  BY DEF CanNominate, Nominees, GameState
<1>3. Lists(g) /\ g.tied = <<>> /\ g.lastWord = <<>> /\ g.votes = NoVotes
  BY <1>2 DEF Court, TiePhases, UnvotedPhases
<1>. HIDE DEF q
<1>4. /\ Append(q, t) \in Seq(Seats) /\ Len(Append(q, t)) = Len(q) + 1
      /\ Append(q, t)[Len(q) + 1] = t
      /\ \A i \in 1..Len(q) : Append(q, t)[i] = q[i]
  BY <1>2, AppendProperties
<1>5. \A i \in 1..Len(q) : q[i] # t BY <1>2 DEF ToSet
<1>6. \A i, j \in 1..Len(q) : q[i] = q[j] => i = j BY <1>2, <1>3 DEF Lists, Distinct, q
<1>7. Distinct(Append(q, t))
  <2>1. SUFFICES ASSUME NEW i \in 1..(Len(q) + 1), NEW j \in 1..(Len(q) + 1),
                        Append(q, t)[i] = Append(q, t)[j]
                 PROVE i = j
    BY <1>4 DEF Distinct
  <2>2. Len(q) \in Nat BY <1>2
  <2>3. (i \in 1..Len(q) \/ i = Len(q) + 1) /\ (j \in 1..Len(q) \/ j = Len(q) + 1) BY <2>2
  <2>. QED BY <1>4, <1>5, <1>6, <2>1, <2>3
<1>8. Among(Append(q, t), Live(g))
  <2>1. \A i \in 1..Len(q) : q[i] \in Live(g) BY <1>2, <1>3 DEF Lists, Among, q
  <2>2. SUFFICES ASSUME NEW i \in 1..(Len(q) + 1) PROVE Append(q, t)[i] \in Live(g)
    BY <1>4 DEF Among
  <2>3. i \in 1..Len(q) \/ i = Len(q) + 1 BY <1>2
  <2>. QED BY <1>2, <1>4, <2>1, <2>3
<1>9. Live(h) = Live(g) BY <1>1 DEF Live
<1>10. Lists(h) BY <1>1, <1>3, <1>7, <1>8, <1>9 DEF Lists
<1>11. Court(h, "DAY_SPEECH")
  BY <1>1, <1>3, <1>10 DEF Court, NominationPhases, CourtPhases, BallotPhases
<1>. QED BY <1>2, <1>11 DEF h

LEMMA UnnominateCourt ==
  ASSUME NEW g \in GameState, NEW t \in Seats, CanUnnominate(g, t), Court(g, g.phase)
  PROVE Court(ApplyJudgeUnnominate(g, t), g.phase)
<1>. DEFINE h == ApplyJudgeUnnominate(g, t)
<1>1. /\ h.alive = g.alive /\ h.removed = g.removed
      /\ h.nominations = Without(g.nominations, t)
      /\ h.tied = g.tied /\ h.lastWord = g.lastWord /\ h.votes = g.votes
      /\ h.mafiaVotes = g.mafiaVotes /\ h.lift = g.lift
  BY DEF ApplyJudgeUnnominate, GameState
<1>. HIDE DEF h
<1>2. g.phase \in {"DAY_SPEECH", "DAY_VOTE_INTRO"} BY DEF CanUnnominate
<1>3. Lists(g) /\ g.tied = <<>> /\ g.lastWord = <<>> /\ g.votes = NoVotes
  BY <1>2 DEF Court, TiePhases, UnvotedPhases
<1>4. g.nominations \in Seq(Seats) BY DEF GameState
<1>5. /\ h.nominations \in Seq(Seats) /\ Distinct(h.nominations)
      /\ ToSet(h.nominations) \subseteq ToSet(g.nominations)
  BY <1>1, <1>3, <1>4, WithoutTakesOne DEF Lists
<1>6. Among(h.nominations, Live(h))
  <2>1. ToSet(g.nominations) \subseteq Live(g) BY <1>3, <1>4, AmongIsToSet DEF Lists
  <2>2. Live(h) = Live(g) BY <1>1 DEF Live
  <2>. QED BY <1>5, <2>1, <2>2, AmongIsToSet
<1>7. Lists(h) BY <1>1, <1>3, <1>5, <1>6, EmptyList DEF Lists
<1>8. Court(h, g.phase)
  BY <1>1, <1>2, <1>3, <1>7 DEF Court, NominationPhases, CourtPhases, BallotPhases
<1>. QED BY <1>8 DEF h

LEMMA CastVoteCourt ==
  ASSUME NEW g \in GameState, NEW v \in Seats, NEW c \in Seats, CanCastVote(g, v, c),
         Court(g, g.phase)
  PROVE Court(ApplyCastVote(g, v, c), g.phase)
<1>. DEFINE h == ApplyCastVote(g, v, c)
<1>1. /\ h.alive = g.alive /\ h.removed = g.removed /\ h.nominations = g.nominations
      /\ h.tied = g.tied /\ h.lastWord = g.lastWord
      /\ h.votes = [g.votes EXCEPT ![v] = c]
      /\ h.mafiaVotes = g.mafiaVotes /\ h.lift = g.lift
  BY DEF ApplyCastVote, GameState
<1>. HIDE DEF h
<1>2. Lists(g) /\ g.phase \in BallotPhases /\ BallotsAreFair(g) BY DEF Court, CanCastVote
<1>3. g.nominations \in Seq(Seats) /\ g.round \in Nat /\ g.votes \in [Seats -> SeatOrNone]
  BY DEF GameState
<1>4. v \in Live(g) /\ v # c /\ c \in Nominees(g)
  <2>1. g.round + 1 \in 1..Len(g.nominations) /\ c = g.nominations[g.round + 1]
    BY <1>3 DEF CanCastVote
  <2>. QED BY <1>3, <2>1 DEF CanCastVote, Nominees, ToSet
<1>5. c \in Live(g) BY <1>2, <1>3, <1>4, AmongIsToSet DEF Lists, Nominees
<1>6. Live(h) = Live(g) /\ Nominees(h) = Nominees(g) BY <1>1 DEF Live, Nominees
<1>7. BallotsAreFair(h) BY <1>1, <1>2, <1>3, <1>4, <1>6 DEF BallotsAreFair
<1>8. Unmarked(h.votes, h.removed)
  BY <1>1, <1>2, <1>3, <1>4, <1>5 DEF Unmarked, Lists, Live
<1>9. Lists(h) BY <1>1, <1>2, <1>6, <1>8 DEF Lists
<1>10. Court(h, g.phase) BY <1>1, <1>2, <1>7, <1>9 DEF Court, UnvotedPhases, BallotPhases
<1>. QED BY <1>10 DEF h

LEMMA LiftVoteCourt ==
  ASSUME NEW g \in GameState, NEW v \in Seats, NEW ballot, CanLiftAllVote(g, v),
         Court(g, g.phase)
  PROVE Court(ApplyLiftAllVote(g, v, ballot), g.phase)
<1>. DEFINE h == ApplyLiftAllVote(g, v, ballot)
<1>1. /\ h.alive = g.alive /\ h.removed = g.removed /\ h.nominations = g.nominations
      /\ h.tied = g.tied /\ h.lastWord = g.lastWord /\ h.votes = g.votes
      /\ h.mafiaVotes = g.mafiaVotes /\ h.lift = [g.lift EXCEPT ![v] = ballot]
  BY DEF ApplyLiftAllVote, GameState
<1>. HIDE DEF h
<1>2. v \notin g.removed /\ g.lift \in [Seats -> Ballots] /\ g.removed \in SUBSET Seats
  BY DEF CanLiftAllVote, Live, GameState
<1>3. \A s \in h.removed : h.lift[s] = "none" BY <1>1, <1>2 DEF Court, Lists
<1>4. Live(h) = Live(g) /\ Nominees(h) = Nominees(g) BY <1>1 DEF Live, Nominees
<1>5. Lists(h) BY <1>1, <1>3, <1>4 DEF Court, Lists
<1>6. Court(h, g.phase) BY <1>1, <1>4, <1>5 DEF Court, BallotsAreFair
<1>. QED BY <1>6 DEF h

LEMMA TargetCourt ==
  ASSUME NEW g \in GameState, NEW v \in Seats, NEW t \in Seats, CanTarget(g, v, t),
         Court(g, g.phase)
  PROVE Court(ApplyMafiaTarget(g, v, t), g.phase)
<1>. DEFINE h == ApplyMafiaTarget(g, v, t)
<1>1. /\ h.alive = g.alive /\ h.removed = g.removed /\ h.nominations = g.nominations
      /\ h.tied = g.tied /\ h.lastWord = g.lastWord /\ h.votes = g.votes
      /\ h.mafiaVotes = [g.mafiaVotes EXCEPT ![v] = t] /\ h.lift = g.lift
  BY DEF ApplyMafiaTarget, GameState
<1>. HIDE DEF h
<1>2. v \notin g.removed /\ t \notin g.removed /\ g.mafiaVotes \in [Seats -> SeatOrNone]
  BY DEF CanTarget, LiveBlack, Live, GameState
<1>3. Unmarked(h.mafiaVotes, h.removed) BY <1>1, <1>2 DEF Unmarked, Court, Lists
<1>4. Live(h) = Live(g) /\ Nominees(h) = Nominees(g) BY <1>1 DEF Live, Nominees
<1>5. Lists(h) BY <1>1, <1>3, <1>4 DEF Court, Lists
<1>6. Court(h, g.phase) BY <1>1, <1>4, <1>5 DEF Court, BallotsAreFair
<1>. QED BY <1>6 DEF h

\* No other operation touches a list or a ballot, but "leave" ends the game.
LEMMA OthersCourt ==
  ASSUME NEW g \in GameState, NEW v \in Seats, NEW c \in Cards, Court(g, g.phase)
  PROVE /\ Court(ApplyJudgeEndGame(g), "GAME_OVER") /\ ApplyJudgeEndGame(g).phase = "GAME_OVER"
        /\ \A h \in {ApplyJudgeUnfoul(g, v), ApplyBestMoveGuess(g, v), ApplyDonCheck(g, v),
                     ApplySheriffCheck(g, v), ApplyRoleCardPick(g, v, c)} :
             Court(h, g.phase) /\ h.phase = g.phase
<1>1. SameCourt(g, ApplyJudgeEndGame(g)) /\ ApplyJudgeEndGame(g).phase = "GAME_OVER"
  BY DEF SameCourt, ApplyJudgeEndGame, GameState
<1>2. Court(g, "GAME_OVER") BY CourtOver
<1>3. Court(ApplyJudgeEndGame(g), "GAME_OVER") BY <1>1, <1>2, CourtOfSame
<1>4. ASSUME NEW h \in {ApplyJudgeUnfoul(g, v), ApplyBestMoveGuess(g, v), ApplyDonCheck(g, v),
                        ApplySheriffCheck(g, v), ApplyRoleCardPick(g, v, c)}
      PROVE SameCourt(g, h) /\ h.phase = g.phase
  <2>1. CASE h = ApplyJudgeUnfoul(g, v) BY <2>1 DEF SameCourt, ApplyJudgeUnfoul, GameState
  <2>2. CASE h = ApplyBestMoveGuess(g, v) BY <2>2 DEF SameCourt, ApplyBestMoveGuess, GameState
  <2>3. CASE h = ApplyDonCheck(g, v) BY <2>3 DEF SameCourt, ApplyDonCheck, GameState
  <2>4. CASE h = ApplySheriffCheck(g, v) BY <2>4 DEF SameCourt, ApplySheriffCheck, GameState
  <2>5. CASE h = ApplyRoleCardPick(g, v, c) BY <2>5 DEF SameCourt, ApplyRoleCardPick, GameState
  <2>. QED BY <1>4, <2>1, <2>2, <2>3, <2>4, <2>5
<1>. QED BY <1>1, <1>3, <1>4, CourtOfSame

-----------------------------------------------------------------------------
(* Every step.                                                             *)

LEMMA InitCourt == Init => CourtInv
<1>1. SUFFICES ASSUME NEW deal \in Deals, game = NewGame(deal) PROVE CourtInv
  BY DEF Init
<1>2. /\ game.removed = {} /\ game.nominations = <<>> /\ game.tied = <<>>
      /\ game.lastWord = <<>> /\ game.votes = NoVotes /\ game.mafiaVotes = NoVotes
      /\ game.phase = "PLAYER_INTRODUCTION"
  BY <1>1 DEF NewGame
<1>3. Unmarked(NoVotes, game.removed) BY <1>2, NoVotesAreFair
<1>4. Lists(game) BY <1>2, <1>3, EmptyList DEF Lists
<1>. QED BY <1>2, <1>4 DEF CourtInv, Court, BallotPhases

LEMMA JudgeCourt == TypeOK /\ CourtInv /\ JudgeStep => CourtInv'
<1>. SUFFICES ASSUME TypeOK, CourtInv, JudgeStep PROVE Court(game', game'.phase)
  BY DEF CourtInv
<1>1. game \in GameState /\ Court(game, game.phase) BY DEF TypeOK, CourtInv
<1>2. CASE JudgeAdvancePhase BY <1>1, <1>2, AdvanceCourt DEF JudgeAdvancePhase
<1>3. CASE JudgeAdvanceSpeaker
  <2>. DEFINE h == ApplyNextSpeaker(game)
  <2>1. h \in GameState /\ h.phase = game.phase /\ Court(h, game.phase)
    BY <1>1, NextSpeakerTyped, StepperKeeps, StepperCourt
  <2>2. game' = h \/ game' = ApplyAdvancePhase(h) BY <1>3 DEF JudgeAdvanceSpeaker
  <2>. HIDE DEF h
  <2>3. Court(ApplyAdvancePhase(h), ApplyAdvancePhase(h).phase) BY <2>1, AdvanceCourt
  <2>. QED BY <2>1, <2>2, <2>3
<1>4. CASE JudgeLeave
  <2>1. \E c \in Cards : TRUE
    <3>1. Cards # {} BY RulesAssumption, FS_EmptySet
    <3>. QED BY <3>1
  <2>2. 1 \in Seats BY TableFacts DEF Seats
  <2>. QED BY <1>1, <1>4, <2>1, <2>2, OthersCourt DEF JudgeLeave
<1>5. ASSUME NEW s \in Seats, JudgeNominate(s) PROVE Court(game', game'.phase)
  <2>1. ApplyNominate(game, s).phase = game.phase BY <1>1 DEF ApplyNominate, GameState
  <2>. QED BY <1>1, <1>5, <2>1, NominateCourt DEF JudgeNominate
<1>6. ASSUME NEW s \in Seats, JudgeUnnominate(s) PROVE Court(game', game'.phase)
  <2>1. ApplyJudgeUnnominate(game, s).phase = game.phase
    BY <1>1 DEF ApplyJudgeUnnominate, GameState
  <2>. QED BY <1>1, <1>6, <2>1, UnnominateCourt DEF JudgeUnnominate
<1>7. ASSUME NEW s \in Seats, JudgeFoul(s) PROVE Court(game', game'.phase)
  BY <1>1, <1>7, FoulCourt DEF JudgeFoul, CanFoul, ApplyJudgeFoul
<1>8. ASSUME NEW s \in Seats, JudgeUnfoul(s) PROVE Court(game', game'.phase)
  <2>1. \E c \in Cards : TRUE
    <3>1. Cards # {} BY RulesAssumption, FS_EmptySet
    <3>. QED BY <3>1
  <2>. QED BY <1>1, <1>8, <2>1, OthersCourt DEF JudgeUnfoul
<1>9. ASSUME NEW s \in Seats, JudgeRemove(s) PROVE Court(game', game'.phase)
  BY <1>1, <1>9, RemoveCourt DEF JudgeRemove
<1>. QED BY <1>2, <1>3, <1>4, <1>5, <1>6, <1>7, <1>8, <1>9 DEF JudgeStep

LEMMA PlayerCourt ==
  ASSUME TypeOK, CourtInv, NEW s \in Seats, PlayerStep(s)
  PROVE CourtInv'
<1>. SUFFICES Court(game', game'.phase)
  BY DEF CourtInv
<1>1. game \in GameState /\ Court(game, game.phase) BY DEF TypeOK, CourtInv
<1>2. \E c \in Cards : TRUE
  <2>1. Cards # {} BY RulesAssumption, FS_EmptySet
  <2>. QED BY <2>1
<1>3. CASE SayOutOfTurn(s)
  BY <1>1, <1>3, FoulCourt DEF SayOutOfTurn, CanSayOutOfTurn, ApplyOutOfTurn
<1>4. CASE PlayerLeave(s) BY <1>1, <1>4, RemoveCourt DEF PlayerLeave
<1>5. ASSUME NEW ballot \in {"yes", "no"}, CastLiftAllVote(s, ballot)
      PROVE Court(game', game'.phase)
  <2>1. ApplyLiftAllVote(game, s, ballot).phase = game.phase
    BY <1>1 DEF ApplyLiftAllVote, GameState
  <2>. QED BY <1>1, <1>5, <2>1, LiftVoteCourt DEF CastLiftAllVote
<1>6. ASSUME NEW guess \in SUBSET Seats, CastBestMoveGuess(s, guess)
      PROVE Court(game', game'.phase)
  BY <1>1, <1>2, <1>6, OthersCourt DEF CastBestMoveGuess
<1>7. ASSUME NEW c \in Cards, PickRoleCard(s, c) PROVE Court(game', game'.phase)
  BY <1>1, <1>7, OthersCourt DEF PickRoleCard
<1>8. ASSUME NEW t \in Seats,
             CastVote(s, t) \/ ChooseMafiaTarget(s, t) \/ CheckAsDon(s, t) \/ CheckAsSheriff(s, t)
      PROVE Court(game', game'.phase)
  <2>1. CASE CastVote(s, t)
    <3>1. ApplyCastVote(game, s, t).phase = game.phase BY <1>1 DEF ApplyCastVote, GameState
    <3>. QED BY <1>1, <2>1, <3>1, CastVoteCourt DEF CastVote
  <2>2. CASE ChooseMafiaTarget(s, t)
    <3>1. ApplyMafiaTarget(game, s, t).phase = game.phase
      BY <1>1 DEF ApplyMafiaTarget, GameState
    <3>. QED BY <1>1, <2>2, <3>1, TargetCourt DEF ChooseMafiaTarget
  <2>3. CASE CheckAsDon(s, t) BY <1>1, <1>2, <2>3, OthersCourt DEF CheckAsDon
  <2>4. CASE CheckAsSheriff(s, t) BY <1>1, <1>2, <2>4, OthersCourt DEF CheckAsSheriff
  <2>. QED BY <1>8, <2>1, <2>2, <2>3, <2>4
<1>. QED BY <1>3, <1>4, <1>5, <1>6, <1>7, <1>8 DEF PlayerStep

LEMMA CourtAlways == Spec => [](TypeOK /\ CourtInv)
<1>1. Init => TypeOK /\ CourtInv BY InitTyped, InitCourt
<1>2. TypeOK /\ CourtInv /\ [Next]_game => (TypeOK /\ CourtInv)'
  <2>1. ASSUME CourtInv, UNCHANGED game PROVE CourtInv'
    BY <2>1 DEF CourtInv
  <2>2. TypeOK /\ CourtInv /\ [Next]_game => CourtInv'
    BY <2>1, JudgeCourt, PlayerCourt DEF Next
  <2>. QED BY <2>2, NextTyped
<1>. QED BY <1>1, <1>2, PTL DEF Spec

-----------------------------------------------------------------------------
(* The four promises.                                                      *)

\* A player who was taken out of the game leaves no phantom behind in any list,
\* in the ballot box or among the shots: applyJudgeRemove filters each of them
\* once, so no list may ever hold a seat twice (judge.ts:108-207).
THEOREM RemovedAreForgotten == Spec => []RemovedLeavesNoTrace
<1>1. TypeOK /\ CourtInv => RemovedLeavesNoTrace
  <2>. SUFFICES ASSUME TypeOK, CourtInv PROVE RemovedLeavesNoTrace
    OBVIOUS
  <2>1. game \in GameState /\ Lists(game) BY DEF TypeOK, CourtInv, Court
  <2>2. /\ game.nominations \in Seq(Seats) /\ game.tied \in Seq(Seats)
        /\ game.lastWord \in Seq(Seats) /\ game.removed \in SUBSET Seats
    BY <2>1 DEF GameState
  <2>3. /\ Nominees(game) \subseteq Live(game) /\ ToSet(game.tied) \subseteq Live(game)
        /\ ToSet(game.lastWord) \subseteq Seats \ game.removed
    BY <2>1, <2>2, AmongIsToSet DEF Lists, Nominees
  <2>4. Gone \cap (game.alive \cup Nominees(game) \cup ToSet(game.tied)
                             \cup ToSet(game.lastWord)) = {}
    BY <2>1, <2>3 DEF Gone, Lists, Live
  <2>. QED BY <2>1, <2>2, <2>4 DEF RemovedLeavesNoTrace, Gone, Lists, Unmarked
<1>. QED BY <1>1, CourtAlways, PTL

\* Nominations stand in the court's phases only, each seat once, all in play
\* (phase.ts:291-297, 343-346).
THEOREM NominationsStandInCourt == Spec => []NominationsStand
<1>1. TypeOK /\ CourtInv => NominationsStand
  <2>. SUFFICES ASSUME TypeOK, CourtInv PROVE NominationsStand
    OBVIOUS
  <2>1. game.nominations \in Seq(Seats) /\ Lists(game)
    BY DEF TypeOK, CourtInv, Court, GameState
  <2>2. Nominees(game) \subseteq Live(game) BY <2>1, AmongIsToSet DEF Lists, Nominees
  <2>3. Cardinality(Nominees(game)) = Len(game.nominations)
    BY <2>1, DistinctCounts DEF Lists, Nominees
  <2>. QED BY <2>2, <2>3 DEF NominationsStand, CourtInv, Court, NominationPhases
<1>. QED BY <1>1, CourtAlways, PTL

\* Every ballot that is counted is by a seat in play, for another one that still
\* stands, whatever was withdrawn, removed or cast for the silent (voting.ts).
THEOREM CountedBallotsAreFair == Spec => []BallotsCount
<1>1. CourtInv => BallotsCount
  BY DEF CourtInv, Court, BallotsCount, BallotsAreFair
<1>. QED BY <1>1, CourtAlways, PTL

\* Through the run-off the tie and the ballot paper are one list, in seat order,
\* of seats in play (phase.ts:143-145).
THEOREM TieStaysTheBallotPaper == Spec => []TieIsTheBallotPaper
<1>1. TypeOK /\ CourtInv => TieIsTheBallotPaper
  <2>. SUFFICES ASSUME TypeOK, CourtInv PROVE TieIsTheBallotPaper
    OBVIOUS
  <2>1. game.tied \in Seq(Seats) /\ Lists(game) BY DEF TypeOK, CourtInv, Court, GameState
  <2>2. ToSet(game.tied) \subseteq Live(game) BY <2>1, AmongIsToSet DEF Lists
  <2>. QED
    BY <2>1, <2>2 DEF TieIsTheBallotPaper, CourtInv, Court, TiePhases, Lists, Ordered
<1>. QED BY <1>1, CourtAlways, PTL
=============================================================================
