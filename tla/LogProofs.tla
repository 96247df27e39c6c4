------------------------------- MODULE LogProofs -------------------------------
(***************************************************************************)
(* Theorems about the event log and the end of a game, for any stretches   *)
(* to start from, any limits, and any number of crashes and failed writes: *)
(* the numbers of the events, the statistics, the replay of the log and    *)
(* the result on disk.                                                     *)
(***************************************************************************)
EXTENDS GameLog, GameEngineProofs

LEMMA AppendGrows ==
  ASSUME NEW l, NEW e, \E S : l \in Seq(S)
  PROVE /\ Len(l) \in Nat /\ Len(Append(l, e)) = Len(l) + 1
        /\ \E S : Append(l, e) \in Seq(S)
<1>1. PICK S : l \in Seq(S) OBVIOUS
<1>2. l \in Seq(S \cup {e}) BY <1>1
<1>3. /\ Append(l, e) \in Seq(S \cup {e}) /\ Len(Append(l, e)) = Len(l) + 1
      /\ Len(l) \in Nat
  BY <1>2
<1>. QED BY <1>3

-----------------------------------------------------------------------------
(* The numbers of the events.                                              *)

\* Nothing has failed so far, so no number has been lost.
Undisturbed == mishaps = 0

\* The next number is behind the last event of the log: the registry's while
\* nobody writes, the job's own while one does.
NumbersInv ==
  /\ \E S : log \in Seq(S)
  /\ mishaps \in Nat
  /\ Undisturbed => boot = "done"
  /\ Undisturbed /\ job.stage # "write" => seq = Len(log)
  /\ job.stage = "write" =>
       /\ \E kind, next, todo, at : job = Writing(kind, next, todo, at)
       /\ Undisturbed \/ job.kind = "revert" => job.at = Len(log)

LEMMA WritingFields ==
  \A kind, next, todo, at :
    LET w == Writing(kind, next, todo, at)
    IN /\ w.stage = "write" /\ w.kind = kind /\ w.next = next /\ w.todo = todo /\ w.at = at
BY DEF Writing

LEMMA NumbersInit == LogInit => NumbersInv
<1>. SUFFICES ASSUME LogInit PROVE NumbersInv
  OBVIOUS
<1>1. log \in Seq(Requests \cup {GameEnded}) BY StartAssumption DEF LogInit
<1>2. job.stage = "idle" BY DEF LogInit, Idle
<1>. QED BY <1>1, <1>2 DEF LogInit, NumbersInv, Undisturbed

LEMMA PersistNumbers == NumbersInv /\ Persist => NumbersInv'
<1>. SUFFICES ASSUME NumbersInv, Persist PROVE NumbersInv'
  OBVIOUS
<1>1. /\ job.stage = "write" /\ log' = Append(log, Head(job.todo))
      /\ job' = [job EXCEPT !.todo = Tail(@), !.at = @ + 1]
      /\ mishaps' = mishaps /\ boot' = boot /\ job.at = Len(log)
  BY DEF Persist
<1>2. PICK kind, next, todo, at : job = Writing(kind, next, todo, at)
  BY <1>1 DEF NumbersInv
<1>3. job' = Writing(kind, next, Tail(todo), at + 1) /\ at = job.at
  BY <1>1, <1>2 DEF Writing
<1>4. /\ Len(log') = Len(log) + 1 /\ \E S : log' \in Seq(S)
  BY <1>1, AppendGrows DEF NumbersInv
<1>5. job'.stage = "write" /\ job'.at = Len(log') BY <1>1, <1>3, <1>4, WritingFields
<1>6. mishaps' \in Nat /\ (mishaps' = 0 => boot' = "done")
  BY <1>1 DEF NumbersInv, Undisturbed
<1>. QED BY <1>3, <1>4, <1>5, <1>6 DEF NumbersInv, Undisturbed

\* An action that takes the lock asks for the number behind the log.
LEMMA StartNumbers ==
  ASSUME NumbersInv, UNCHANGED <<log, mishaps, boot>>,
         NEW kind, NEW next, NEW todo, NEW at, job' = Writing(kind, next, todo, at),
         job = Idle,
         at = seq \/ at = Len(log), kind = "revert" => at = Len(log)
  PROVE NumbersInv'
<1>1. job.stage # "write" BY DEF Idle
<1>2. job'.kind = kind /\ job'.at = at BY WritingFields
<1>3. mishaps = 0 => seq = Len(log) BY <1>1 DEF NumbersInv, Undisturbed
<1>4. /\ \E S : log' \in Seq(S)
      /\ mishaps' \in Nat /\ (mishaps' = 0 => boot' = "done")
  BY DEF NumbersInv, Undisturbed
<1>5. mishaps' = 0 \/ kind = "revert" => at = Len(log') BY <1>3
<1>6. job'.stage = "write" BY WritingFields
<1>. QED BY <1>2, <1>4, <1>5, <1>6 DEF NumbersInv, Undisturbed

\* Nobody writes afterwards; the next number is kept, or something has failed.
LEMMA RestNumbers ==
  ASSUME NumbersInv, log' = log, mishaps' \in Nat, job'.stage # "write",
         mishaps' = 0 => mishaps = 0 /\ boot' = "done" /\ seq' = Len(log)
  PROVE NumbersInv'
BY DEF NumbersInv, Undisturbed

\* The job, and what it counts on, are left alone, or something has failed.
LEMMA KeepNumbers ==
  ASSUME NumbersInv, log' = log, mishaps' \in Nat, job' = job,
         mishaps' = 0 => mishaps = 0 /\ boot' = "done" /\ seq' = seq
  PROVE NumbersInv'
BY DEF NumbersInv, Undisturbed

LEMMA NumbersStep == NumbersInv /\ [LogNext]_vars => NumbersInv'
<1>. SUFFICES ASSUME NumbersInv, [LogNext]_vars PROVE NumbersInv'
  OBVIOUS
<1>0. /\ mishaps \in Nat /\ (mishaps = 0 => boot = "done")
      /\ mishaps = 0 /\ job.stage # "write" => seq = Len(log)
      /\ mishaps = 0 /\ job.stage = "write" => job.at = Len(log)
      /\ Idle.stage # "write"
  BY DEF NumbersInv, Undisturbed, Idle
<1>1. CASE UNCHANGED vars
  BY <1>0, <1>1, KeepNumbers DEF vars, disk, memory, service
<1>2. ASSUME NEW e \in Requests, Act(e) PROVE NumbersInv'
  <2>1. /\ job' = Writing("act", Outcome(game, e), EventsOf(game, e), seq) /\ job = Idle
        /\ UNCHANGED <<log, mishaps, boot>>
    BY <1>2 DEF Act, disk
  <2>. QED BY <2>1, StartNumbers
<1>3. CASE JudgeRevert
  <2>1. PICK next, todo : job' = Writing("revert", next, todo, Len(log))
    BY <1>3 DEF JudgeRevert, SeqForRevert
  <2>2. job = Idle /\ UNCHANGED <<log, mishaps, boot>> BY <1>3 DEF JudgeRevert, disk
  <2>. QED BY <2>1, <2>2, StartNumbers
<1>4. CASE Persist BY <1>4, PersistNumbers
<1>5. CASE PersistCollides
  <2>1. /\ job' = Idle /\ log' = log /\ seq' = seq /\ mishaps' = mishaps /\ boot' = boot
        /\ job.stage = "write" /\ job.at < Len(log)
    BY <1>5 DEF PersistCollides, disk, memory
  <2>2. Len(log) \in Nat BY AppendGrows DEF NumbersInv
  <2>3. mishaps # 0 BY <1>0, <2>1, <2>2
  <2>. QED BY <1>0, <2>1, <2>3, RestNumbers
<1>6. CASE Commit
  <2>1. /\ job'.stage # "write" /\ log' = log /\ seq' = job.at /\ mishaps' = mishaps
        /\ boot' = boot /\ job.stage = "write"
    BY <1>6 DEF Commit, disk, Idle
  <2>. QED BY <1>0, <2>1, RestNumbers
<1>7. CASE EndGame \/ ScheduleCleanup
  <2>1. /\ job'.stage # "write" /\ log' = log /\ seq' = seq /\ mishaps' = mishaps
        /\ boot' = boot /\ job.stage # "write"
    BY <1>7 DEF EndGame, ScheduleCleanup, disk, memory, Idle
  <2>. QED BY <1>0, <2>1, RestNumbers
<1>8. ASSUME NEW caller, FinalizeReads(caller) \/ FinalizeWrites(caller) PROVE NumbersInv'
  BY <1>0, <1>8, KeepNumbers DEF FinalizeReads, FinalizeWrites, disk, memory
<1>9. CASE CloseLobby \/ MarkEnded \/ CleanupFires
  BY <1>0, <1>9, KeepNumbers DEF CloseLobby, MarkEnded, CleanupFires, disk, memory, service
<1>10. CASE CloseUnderLock
  <2>1. /\ job = Idle /\ UNCHANGED <<log, mishaps, boot, seq>>
        /\ \/ \E next, todo : job' = Writing("close", next, todo, seq)
           \/ job' = job
    BY <1>10 DEF CloseUnderLock, disk, memory
  <2>2. CASE job' = job BY <1>0, <2>1, <2>2, KeepNumbers
  <2>3. ASSUME NEW next, NEW todo, job' = Writing("close", next, todo, seq) PROVE NumbersInv'
    BY <2>1, <2>3, StartNumbers
  <2>. QED BY <2>1, <2>2, <2>3
<1>11. CASE WriteFails \/ Crash
  <2>1. /\ log' = log /\ mishaps' = mishaps + 1
        /\ job' = Idle \/ job' = job
    BY <1>11 DEF WriteFails, Crash, disk
  <2>2. mishaps' \in Nat /\ mishaps' # 0 BY <1>0, <2>1
  <2>. QED BY <1>0, <2>1, <2>2, KeepNumbers, RestNumbers
<1>12. CASE BootReads \/ BootReplays
  <2>1. /\ log' = log /\ mishaps' = mishaps /\ job' = job /\ boot # "done"
    BY <1>12 DEF BootReads, BootReplays, disk, memory
  <2>. QED BY <1>0, <2>1, KeepNumbers
<1>. QED
  BY <1>1, <1>2, <1>3, <1>4, <1>5, <1>6, <1>7, <1>8, <1>9, <1>10, <1>11, <1>12 DEF LogNext

\* No action finds its number taken before something has failed, and a revert
\* never does: it asks the database, not the registry (actions.ts:260-271).
THEOREM NumbersNeverCollide == LogSpec => []NoCollision
<1>1. NumbersInv => NoCollision BY DEF NumbersInv, Undisturbed, NoCollision
<1>. QED BY <1>1, NumbersInit, NumbersStep, PTL DEF LogSpec

-----------------------------------------------------------------------------
(* The statistics.                                                         *)

Rows(W) == [ended : BOOLEAN, winner : W, applied : BOOLEAN, counted : {0, 1}]

\* Nothing is counted before the flag is up.
Sound(r) ==
  /\ \E W : r \in Rows(W)
  /\ r.counted = 1 => r.applied

RowInv == Sound(row)

LEMMA SoundRows ==
  ASSUME NEW r, Sound(r)
  PROVE /\ Sound([r EXCEPT !.applied = TRUE])
        /\ ~r.applied => Sound([r EXCEPT !.applied = TRUE, !.counted = @ + 1])
        /\ \A winner : Sound([r EXCEPT !.ended = TRUE, !.winner = winner])
        /\ Sound([r EXCEPT !.ended = TRUE])
        /\ r.counted <= 1
<1>1. PICK W : r \in Rows(W) BY DEF Sound
<1>2. r.counted = 1 => r.applied BY DEF Sound
<1>3. Sound([r EXCEPT !.applied = TRUE])
  <2>1. [r EXCEPT !.applied = TRUE] \in Rows(W) BY <1>1 DEF Rows
  <2>2. [r EXCEPT !.applied = TRUE].applied = TRUE BY <1>1 DEF Rows
  <2>. QED BY <2>1, <2>2 DEF Sound
<1>4. ASSUME ~r.applied PROVE Sound([r EXCEPT !.applied = TRUE, !.counted = @ + 1])
  <2>1. r.counted = 0 BY <1>1, <1>2, <1>4 DEF Rows
  <2>2. [r EXCEPT !.applied = TRUE, !.counted = @ + 1] \in Rows(W)
    <3>1. [r EXCEPT !.applied = TRUE, !.counted = @ + 1] = [r EXCEPT !.applied = TRUE, !.counted = 1]
      BY <2>1
    <3>2. [r EXCEPT !.applied = TRUE, !.counted = 1] \in Rows(W) BY <1>1 DEF Rows
    <3>. QED BY <3>1, <3>2
  <2>3. [r EXCEPT !.applied = TRUE, !.counted = @ + 1].applied = TRUE BY <1>1 DEF Rows
  <2>. QED BY <2>2, <2>3 DEF Sound
<1>5. ASSUME NEW winner PROVE Sound([r EXCEPT !.ended = TRUE, !.winner = winner])
  <2>. DEFINE h == [r EXCEPT !.ended = TRUE, !.winner = winner]
  <2>1. h \in Rows(W \cup {winner}) BY <1>1 DEF Rows
  <2>2. h.counted = r.counted /\ h.applied = r.applied BY <1>1 DEF Rows
  <2>. HIDE DEF h
  <2>3. Sound(h) BY <1>2, <2>1, <2>2 DEF Sound
  <2>. QED BY <2>3 DEF h
<1>6. Sound([r EXCEPT !.ended = TRUE])
  <2>. DEFINE h == [r EXCEPT !.ended = TRUE]
  <2>1. h \in Rows(W) BY <1>1 DEF Rows
  <2>2. h.counted = r.counted /\ h.applied = r.applied BY <1>1 DEF Rows
  <2>. HIDE DEF h
  <2>3. Sound(h) BY <1>2, <2>1, <2>2 DEF Sound
  <2>. QED BY <2>3 DEF h
<1>7. r.counted <= 1 BY <1>1 DEF Rows
<1>. QED BY <1>3, <1>4, <1>5, <1>6, <1>7

LEMMA RowInit == LogInit => RowInv
<1>. SUFFICES ASSUME LogInit PROVE RowInv
  OBVIOUS
<1>1. row \in Rows({"none"}) /\ row.counted = 0 BY DEF LogInit, Rows
<1>. QED BY <1>1 DEF RowInv, Sound

LEMMA RowStep == RowInv /\ [LogNext]_vars => RowInv'
<1>. SUFFICES ASSUME RowInv, [LogNext]_vars PROVE RowInv'
  OBVIOUS
<1>1. CASE UNCHANGED row BY <1>1 DEF RowInv
<1>2. ASSUME NEW caller, FinalizeWrites(caller) PROVE RowInv'
  <2>1. \/ row' = row \/ row' = [row EXCEPT !.applied = TRUE]
        \/ ~row.applied /\ row' = [row EXCEPT !.applied = TRUE, !.counted = @ + 1]
    BY <1>2 DEF FinalizeWrites, CountedRow
  <2>2. Sound(row') BY <2>1, SoundRows DEF RowInv
  <2>. QED BY <2>2 DEF RowInv
<1>3. CASE EndGame
  <2>1. row' = [row EXCEPT !.ended = TRUE, !.winner = game.winner]
    BY <1>3 DEF EndGame, EndedRow
  <2>2. Sound(row') BY <2>1, SoundRows DEF RowInv
  <2>. QED BY <2>2 DEF RowInv
<1>4. CASE MarkEnded
  <2>1. row' = [row EXCEPT !.ended = TRUE] BY <1>4 DEF MarkEnded
  <2>2. Sound(row') BY <2>1, SoundRows DEF RowInv
  <2>. QED BY <2>2 DEF RowInv
<1>. QED
  BY <1>1, <1>2, <1>3, <1>4
  DEF LogNext, vars, disk, Act, JudgeRevert, Persist, PersistCollides, Commit,
      ScheduleCleanup, FinalizeReads, CloseLobby, CloseUnderLock, CleanupFires, WriteFails,
      Crash, BootReads, BootReplays

\* However often, by whomever and how simultaneously a game is finalized, whatever
\* crashes in between, its statistics are counted at most once: the transaction
\* that counts is the one that raises the flag (stats.ts:4-7).
THEOREM StatsAreCountedOnce == LogSpec => []StatsCountedOnce
<1>1. RowInv => StatsCountedOnce BY SoundRows DEF RowInv, StatsCountedOnce
<1>. QED BY <1>1, RowInit, RowStep, PTL DEF LogSpec

-----------------------------------------------------------------------------
(* Replay, one event at a time.  The induction over the log is by a least  *)
(* counterexample.                                                         *)

\* f is what replay computes after each of the first n events of l.
IsRun(f, from, l, n) ==
  f = [i \in 0..n |-> IF i = 0 THEN from ELSE ApplyEvent(f[i - 1], l[i])]

LEMMA RunFields ==
  ASSUME NEW f, NEW from, NEW l, NEW n \in Nat, IsRun(f, from, l, n)
  PROVE /\ DOMAIN f = 0..n /\ f[0] = from
        /\ \A i \in 1..n : f[i] = ApplyEvent(f[i - 1], l[i])
<1>1. \A i \in 0..n : f[i] = IF i = 0 THEN from ELSE ApplyEvent(f[i - 1], l[i])
  BY Zenon DEF IsRun
<1>2. DOMAIN f = 0..n BY Zenon DEF IsRun
<1>. QED BY <1>1, <1>2

LEMMA RunExtended ==
  ASSUME NEW f, NEW from, NEW l, NEW m, NEW n \in Nat, IsRun(f, from, l, n),
         \A i \in 1..n : l[i] = m[i]
  PROVE IsRun([i \in 0..(n + 1) |-> IF i = n + 1 THEN ApplyEvent(f[n], m[n + 1]) ELSE f[i]],
              from, m, n + 1)
<1>. DEFINE h == [i \in 0..(n + 1) |-> IF i = n + 1 THEN ApplyEvent(f[n], m[n + 1]) ELSE f[i]]
<1>1. \A i \in 0..(n + 1) : h[i] = IF i = 0 THEN from ELSE ApplyEvent(h[i - 1], m[i])
  <2>1. CASE n + 1 = 0 BY <2>1
  <2>2. ASSUME NEW i \in 1..n PROVE h[i] = ApplyEvent(h[i - 1], m[i])
    <3>1. f[i] = ApplyEvent(f[i - 1], l[i]) BY RunFields
    <3>2. h[i] = f[i] /\ h[i - 1] = f[i - 1] OBVIOUS
    <3>. QED BY <3>1, <3>2
  <2>3. h[n + 1] = ApplyEvent(h[n], m[n + 1]) OBVIOUS
  <2>4. h[0] = from BY RunFields
  <2>. HIDE DEF h
  <2>. QED BY <2>2, <2>3, <2>4
<1>2. h = [i \in 0..(n + 1) |-> h[i]] OBVIOUS
<1>3. h = [i \in 0..(n + 1) |-> IF i = 0 THEN from ELSE ApplyEvent(h[i - 1], m[i])]
  <2>. HIDE DEF h
  <2>. QED BY <1>1, <1>2
<1>. HIDE DEF h
<1>4. IsRun(h, from, m, n + 1) BY <1>3 DEF IsRun
<1>. QED BY <1>4 DEF h

\* Every log can be replayed, ...
LEMMA RunExists ==
  ASSUME NEW from, NEW l, NEW n \in Nat
  PROVE \E f : IsRun(f, from, l, n)
<1>. SUFFICES ASSUME ~\E f : IsRun(f, from, l, n) PROVE FALSE
  OBVIOUS
<1>. DEFINE T == {k \in Nat : ~\E f : IsRun(f, from, l, k)}
<1>1. PICK k \in T : \A j \in T : k <= j
  <2>1. T \subseteq Nat /\ T # {} OBVIOUS
  <2>. HIDE DEF T
  <2>. QED BY <2>1, LeastExists
<1>2. IsRun([i \in 0..0 |-> from], from, l, 0)
  <2>1. [i \in 0..0 |-> from]
          = [i \in 0..0 |-> IF i = 0 THEN from
                            ELSE ApplyEvent([j \in 0..0 |-> from][i - 1], l[i])]
    <3>1. \A i \in 0..0 : i = 0 OBVIOUS
    <3>. QED BY <3>1, Zenon
  <2>. QED BY <2>1 DEF IsRun
<1>3. k \in Nat /\ k # 0 BY <1>2
<1>4. k - 1 \in Nat /\ k - 1 \notin T /\ k = (k - 1) + 1
  <2>1. k - 1 \in Nat /\ k = (k - 1) + 1 /\ ~(k <= k - 1) BY <1>3
  <2>. HIDE DEF T
  <2>. QED BY <1>1, <2>1
<1>5. PICK f : IsRun(f, from, l, k - 1) BY <1>4
<1>6. \E h : IsRun(h, from, l, (k - 1) + 1) BY <1>4, <1>5, RunExtended
<1>. QED BY <1>4, <1>6

\* ... in one way only, and what comes later in the log does not matter.
LEMMA RunUnique ==
  ASSUME NEW from, NEW l, NEW m, NEW n \in Nat, NEW k \in Nat, n <= k,
         \A i \in 1..n : l[i] = m[i],
         NEW f, IsRun(f, from, l, n), NEW h, IsRun(h, from, m, k)
  PROVE f[n] = h[n]
<1>. SUFFICES ASSUME f[n] # h[n] PROVE FALSE
  OBVIOUS
<1>. DEFINE T == {i \in 0..n : f[i] # h[i]}
<1>1. PICK i \in T : \A j \in T : i <= j
  <2>1. T \subseteq Nat /\ T # {} OBVIOUS
  <2>. HIDE DEF T
  <2>. QED BY <2>1, LeastExists
<1>2. i \in 0..n /\ f[i] # h[i] OBVIOUS
<1>3. i # 0 BY <1>2, RunFields
<1>4. i \in 1..n /\ i \in 1..k /\ i - 1 \in 0..n BY <1>2, <1>3
<1>5. f[i - 1] = h[i - 1]
  <2>1. ~(i <= i - 1) BY <1>4
  <2>2. i - 1 \notin T
    <3>. HIDE DEF T
    <3>. QED BY <1>1, <2>1
  <2>. QED BY <1>4, <2>2
<1>6. f[i] = ApplyEvent(f[i - 1], l[i]) /\ h[i] = ApplyEvent(h[i - 1], m[i])
  BY <1>4, RunFields
<1>. QED BY <1>2, <1>4, <1>5, <1>6

LEMMA ReplayIsRun ==
  ASSUME NEW from, NEW l, Len(l) \in Nat
  PROVE \E f : IsRun(f, from, l, Len(l)) /\ Replay(from, l) = f[Len(l)]
<1>1. \E f : IsRun(f, from, l, Len(l)) BY RunExists
<1>2. Replay(from, l) = (CHOOSE f : IsRun(f, from, l, Len(l)))[Len(l)]
  BY DEF Replay, IsRun
<1>. QED BY <1>1, <1>2

LEMMA ReplayAppend ==
  ASSUME NEW S, NEW from, NEW l \in Seq(S), NEW e \in S
  PROVE /\ Replay(from, <<>>) = from
        /\ Replay(from, Append(l, e)) = ApplyEvent(Replay(from, l), e)
<1>. DEFINE m == Append(l, e)
            n == Len(l)
<1>1. /\ n \in Nat /\ Len(m) = n + 1 /\ m[n + 1] = e
      /\ \A i \in 1..n : l[i] = m[i]
  OBVIOUS
<1>2. PICK f : IsRun(f, from, l, n) /\ Replay(from, l) = f[n] BY <1>1, ReplayIsRun
<1>3. PICK h : IsRun(h, from, m, n + 1) /\ Replay(from, m) = h[n + 1]
  <2>1. Len(m) \in Nat BY <1>1
  <2>2. \E h : IsRun(h, from, m, Len(m)) /\ Replay(from, m) = h[Len(m)] BY <2>1, ReplayIsRun
  <2>. HIDE DEF m, n
  <2>. QED BY <1>1, <2>2
<1>4. f[n] = h[n]
  <2>1. n + 1 \in Nat /\ n <= n + 1 BY <1>1
  <2>. HIDE DEF m, n
  <2>. QED BY <1>1, <1>2, <1>3, <2>1, RunUnique
<1>5. h[n + 1] = ApplyEvent(h[n], e)
  <2>1. n + 1 \in Nat /\ n + 1 \in 1..(n + 1) /\ (n + 1) - 1 = n BY <1>1
  <2>. HIDE DEF m, n
  <2>2. h[n + 1] = ApplyEvent(h[(n + 1) - 1], m[n + 1]) BY <1>3, <2>1, RunFields
  <2>. QED BY <1>1, <2>1, <2>2
<1>6. Replay(from, <<>>) = from
  <2>1. Len(<<>>) = 0 OBVIOUS
  <2>2. PICK r : IsRun(r, from, <<>>, 0) /\ Replay(from, <<>>) = r[0]
    BY <2>1, ReplayIsRun
  <2>. QED BY <2>2, RunFields
<1>. QED BY <1>2, <1>3, <1>4, <1>5, <1>6

-----------------------------------------------------------------------------
(* What events do to a table.                                              *)

Entries == Requests \cup {GameEnded} \cup {Reverted(g) : g \in GameState}

\* The fields of a request, by its type.
LEMMA RequestFields ==
  ASSUME NEW e \in Requests
  PROVE /\ e = Event(e.type, e.seat, e.arg) /\ e.type \notin {"REVERTED", "GAME_ENDED"}
        /\ e.type \in {"PHASE_CHANGED", "SPEAKER_ADVANCED", "JUDGE_LEFT"} =>
             e \in {PhaseChanged, SpeakerAdvanced, JudgeLeft}
        /\ e.type \notin {"PHASE_CHANGED", "SPEAKER_ADVANCED", "JUDGE_LEFT"} => e.seat \in Seats
        /\ e.type \in {"PLAYER_VOTED", "MAFIA_TARGETED", "DON_CHECKED", "SHERIFF_CHECKED",
                       "BEST_MOVE_GUESSED"} => e.arg \in Seats
        /\ e.type = "ROLE_CARD_PICKED" => e.arg \in Cards
        /\ e.type \in {"PHASE_CHANGED", "SPEAKER_ADVANCED", "JUDGE_LEFT",
              "PLAYER_NOMINATED", "PLAYER_UNNOMINATED", "FOUL_ISSUED", "FOUL_REVOKED",
              "PLAYER_REMOVED", "LIFTED", "NOT_LIFTED", "PLAYER_VOTED", "MAFIA_TARGETED",
              "DON_CHECKED", "SHERIFF_CHECKED", "BEST_MOVE_GUESSED", "ROLE_CARD_PICKED"}
<1>1. CASE e \in {PhaseChanged, SpeakerAdvanced, JudgeLeft}
  BY <1>1 DEF PhaseChanged, SpeakerAdvanced, JudgeLeft, Event
<1>2. ASSUME NEW s \in Seats, NEW type \in
               {"PLAYER_NOMINATED", "PLAYER_UNNOMINATED", "FOUL_ISSUED", "FOUL_REVOKED",
                "PLAYER_REMOVED", "LIFTED", "NOT_LIFTED"},
             e = Event(type, s, NoSeat)
      PROVE /\ e.type = type /\ e.seat = s /\ e = Event(e.type, e.seat, e.arg)
  BY <1>2 DEF Event
<1>3. ASSUME NEW s \in Seats, NEW t \in Seats, NEW type \in
               {"PLAYER_VOTED", "MAFIA_TARGETED", "DON_CHECKED", "SHERIFF_CHECKED",
                "BEST_MOVE_GUESSED"},
             e = Event(type, s, t)
      PROVE e.type = type /\ e.seat = s /\ e.arg = t /\ e = Event(e.type, e.seat, e.arg)
  BY <1>3 DEF Event
<1>4. ASSUME NEW s \in Seats, NEW c \in Cards, e = Event("ROLE_CARD_PICKED", s, c)
      PROVE /\ e.type = "ROLE_CARD_PICKED" /\ e.seat = s /\ e.arg = c
            /\ e = Event(e.type, e.seat, e.arg)
  BY <1>4 DEF Event
<1>5. \/ e \in {PhaseChanged, SpeakerAdvanced, JudgeLeft}
      \/ \E s \in Seats, type \in
               {"PLAYER_NOMINATED", "PLAYER_UNNOMINATED", "FOUL_ISSUED", "FOUL_REVOKED",
                "PLAYER_REMOVED", "LIFTED", "NOT_LIFTED"} : e = Event(type, s, NoSeat)
      \/ \E s, t \in Seats, type \in
               {"PLAYER_VOTED", "MAFIA_TARGETED", "DON_CHECKED", "SHERIFF_CHECKED",
                "BEST_MOVE_GUESSED"} : e = Event(type, s, t)
      \/ \E s \in Seats, c \in Cards : e = Event("ROLE_CARD_PICKED", s, c)
  BY DEF Requests
<1>6. CASE \E s \in Seats, type \in
               {"PLAYER_NOMINATED", "PLAYER_UNNOMINATED", "FOUL_ISSUED", "FOUL_REVOKED",
                "PLAYER_REMOVED", "LIFTED", "NOT_LIFTED"} : e = Event(type, s, NoSeat)
  BY <1>2, <1>6
<1>7. CASE \E s, t \in Seats, type \in
               {"PLAYER_VOTED", "MAFIA_TARGETED", "DON_CHECKED", "SHERIFF_CHECKED",
                "BEST_MOVE_GUESSED"} : e = Event(type, s, t)
  BY <1>3, <1>7
<1>8. CASE \E s \in Seats, c \in Cards : e = Event("ROLE_CARD_PICKED", s, c)
  BY <1>4, <1>8
<1>. QED BY <1>1, <1>5, <1>6, <1>7, <1>8

LEMMA AppliedTyped ==
  ASSUME NEW g \in GameState, NEW e \in Requests, Allowed(g, e)
  PROVE Applied(g, e) \in GameState
<1>1. CASE e.type \in {"PHASE_CHANGED", "SPEAKER_ADVANCED", "JUDGE_LEFT"}
  BY <1>1, AdvancePhaseTyped, NextSpeakerTyped, EndGameTyped DEF Applied
<1>2. CASE e.type \in {"PLAYER_NOMINATED", "PLAYER_UNNOMINATED", "PLAYER_REMOVED"}
  <2>1. e.seat \in Seats BY <1>2, RequestFields
  <2>. QED BY <1>2, <2>1, NominationsTyped, RemoveTyped DEF Applied
<1>3. CASE e.type \in {"FOUL_ISSUED", "FOUL_REVOKED"}
  <2>1. e.seat \in Seats BY <1>3, RequestFields
  <2>2. \/ e.type = "FOUL_ISSUED" /\ CanFoul(g, e.seat)
        \/ e.type = "FOUL_REVOKED" /\ CanUnfoul(g, e.seat)
    BY <1>3 DEF Allowed
  <2>. QED BY <2>1, <2>2, FoulsTyped DEF Applied, CanFoul, ApplyJudgeFoul
<1>4. CASE e.type \in {"LIFTED", "NOT_LIFTED"}
  <2>1. e.seat \in Seats BY <1>4, RequestFields
  <2>. QED BY <1>4, <2>1, BallotsTyped DEF Applied
<1>5. CASE e.type \in {"PLAYER_VOTED", "MAFIA_TARGETED", "DON_CHECKED", "SHERIFF_CHECKED",
                       "BEST_MOVE_GUESSED"}
  <2>1. e.seat \in Seats /\ e.arg \in Seats BY <1>5, RequestFields
  <2>. QED BY <1>5, <2>1, BallotsTyped, NightTyped DEF Applied
<1>6. CASE e.type = "ROLE_CARD_PICKED"
  <2>1. e.seat \in Seats /\ e.arg \in Cards BY <1>6, RequestFields
  <2>. QED BY <1>6, <2>1, CardPickTyped DEF Applied
<1>. QED BY <1>1, <1>2, <1>3, <1>4, <1>5, <1>6, RequestFields

LEMMA OutcomeTyped ==
  ASSUME NEW g \in GameState, NEW e \in Requests, Allowed(g, e)
  PROVE Outcome(g, e) \in GameState
BY AppliedTyped, AdvancePhaseTyped DEF Outcome

LEMMA RestoreTyped ==
  ASSUME NEW g \in GameState
  PROVE /\ RestoreFromSnapshot(g) \in GameState
        /\ ~g.finished => RestoreFromSnapshot(g) = g
BY DEF RestoreFromSnapshot, GameState

LEMMA ApplyEventTyped ==
  ASSUME NEW g \in GameState, NEW e \in Entries
  PROVE ApplyEvent(g, e) \in GameState
<1>1. CASE e \in Requests
  <2>1. e.type # "REVERTED" BY <1>1, RequestFields
  <2>. QED BY <1>1, <2>1, AppliedTyped DEF ApplyEvent
<1>2. CASE e = GameEnded
  BY <1>2 DEF ApplyEvent, GameEnded, Event, Ignored
<1>3. ASSUME NEW h \in GameState, e = Reverted(h) PROVE ApplyEvent(g, e) \in GameState
  BY <1>3, RestoreTyped DEF ApplyEvent, Reverted
<1>. QED BY <1>1, <1>2, <1>3 DEF Entries

\* A log of events replays to a table.
LEMMA ReplayTyped ==
  ASSUME NEW from \in GameState, NEW l \in Seq(Entries)
  PROVE Replay(from, l) \in GameState
<1>1. PICK f : IsRun(f, from, l, Len(l)) /\ Replay(from, l) = f[Len(l)] BY ReplayIsRun
<1>. SUFFICES ASSUME f[Len(l)] \notin GameState PROVE FALSE
  BY <1>1
<1>. DEFINE T == {i \in 0..Len(l) : f[i] \notin GameState}
<1>2. PICK i \in T : \A j \in T : i <= j
  <2>1. T \subseteq Nat /\ T # {} OBVIOUS
  <2>. HIDE DEF T
  <2>. QED BY <2>1, LeastExists
<1>3. i \in 0..Len(l) /\ i # 0 BY <1>1, RunFields
<1>4. i \in 1..Len(l) /\ i - 1 \in 0..Len(l) /\ ~(i <= i - 1) BY <1>3
<1>5. i - 1 \notin T
  <2>. HIDE DEF T
  <2>. QED BY <1>2, <1>4
<1>6. f[i] = ApplyEvent(f[i - 1], l[i]) /\ l[i] \in Entries /\ f[i - 1] \in GameState
  BY <1>1, <1>4, <1>5, RunFields
<1>. QED BY <1>6, ApplyEventTyped

-----------------------------------------------------------------------------
(* Types.                                                                  *)

\* The job in hand: nothing to write, or up to two events and the table they
\* lead to.
JobTyped(j) ==
  \/ j.stage \in {"idle", "end", "finalize"}
  \/ \E kind \in {"act", "revert", "close"}, next \in GameState, todo \in Seq(Entries), at \in Nat :
       j = Writing(kind, next, todo, at)

Snapshots == [game : GameState, seq : Nat]

TablesInv ==
  /\ start \in GameState /\ game \in GameState
  /\ log \in Seq(Entries) /\ seq \in Nat
  /\ history \in Seq(Snapshots)
  /\ JobTyped(job)

LEMMA EventsTyped ==
  ASSUME NEW g, NEW e \in Requests
  PROVE /\ EventsOf(g, e) \in Seq(Entries)
        /\ EventsOf(g, e) = <<e>> \/ EventsOf(g, e) = <<e, PhaseChanged>>
           \/ EventsOf(g, e) = <<e, GameEnded>>
<1>1. e \in Entries /\ PhaseChanged \in Entries /\ GameEnded \in Entries
  BY DEF Entries, Requests
<1>2. EventsOf(g, e) \in {<<e>>, <<e, PhaseChanged>>, <<e, GameEnded>>} BY DEF EventsOf
<1>3. {<<e>>, <<e, PhaseChanged>>, <<e, GameEnded>>} \subseteq Seq(Entries) BY <1>1
<1>. QED BY <1>2, <1>3

LEMMA LastFewTyped ==
  ASSUME NEW stack \in Seq(Snapshots)
  PROVE LastFew(stack) \in Seq(Snapshots)
<1>1. HistoryLimit \in Nat \ {0} BY LogAssumption
<1>2. CASE Len(stack) > HistoryLimit
  <2>1. stack # <<>> BY <1>1, <1>2
  <2>2. Tail(stack) \in Seq(Snapshots) BY <2>1
  <2>. QED BY <1>2, <2>2 DEF LastFew
<1>3. CASE ~(Len(stack) > HistoryLimit) BY <1>3 DEF LastFew
<1>. QED BY <1>2, <1>3

LEMMA TopOfStack ==
  ASSUME NEW S, NEW stack \in Seq(S), stack # <<>>
  PROVE Last(stack) \in S /\ Front(stack) \in Seq(S)
<1>1. Len(stack) \in Nat \ {0} BY EmptySeq
<1>2. Last(stack) \in S BY <1>1 DEF Last
<1>3. Front(stack) \in Seq(S)
  <2>1. Front(stack) = SubSeq(stack, 1, Len(stack) - 1) BY DEF Front
  <2>. QED BY <1>1, <2>1
<1>. QED BY <1>2, <1>3

LEMMA TablesInit == LogInit => TablesInv
<1>. SUFFICES ASSUME LogInit PROVE TablesInv
  OBVIOUS
<1>1. start \in GameState BY LogAssumption DEF LogInit
<1>2. log \in Seq(Entries)
  <2>1. log \in Seq(Requests \cup {GameEnded}) BY StartAssumption DEF LogInit
  <2>2. Requests \cup {GameEnded} \subseteq Entries BY DEF Entries
  <2>. QED BY <2>1, <2>2
<1>3. game \in GameState BY <1>1, <1>2, ReplayTyped DEF LogInit, Replayed
<1>4. JobTyped(job) BY DEF LogInit, Idle, JobTyped
<1>5. seq \in Nat /\ history \in Seq(Snapshots) BY <1>2 DEF LogInit
<1>. QED BY <1>1, <1>2, <1>3, <1>4, <1>5 DEF TablesInv

LEMMA WriterTyped ==
  ASSUME TablesInv, job.stage = "write"
  PROVE /\ job.kind \in {"act", "revert", "close"} /\ job.next \in GameState
        /\ job.todo \in Seq(Entries) /\ job.at \in Nat
        /\ job = Writing(job.kind, job.next, job.todo, job.at)
<1>1. PICK kind \in {"act", "revert", "close"}, next \in GameState, todo \in Seq(Entries), at \in Nat :
        job = Writing(kind, next, todo, at)
  BY DEF TablesInv, JobTyped
<1>. QED BY <1>1, WritingFields

LEMMA PersistShape ==
  ASSUME TablesInv, Persist
  PROVE /\ job.stage = "write" /\ job.todo # <<>> /\ job.at = Len(log)
        /\ Head(job.todo) \in Entries
        /\ job' = Writing(job.kind, job.next, Tail(job.todo), job.at + 1)
        /\ log' = Append(log, Head(job.todo))
        /\ UNCHANGED <<start, game, seq, history, row, closing, mishaps, boot, up>>
<1>1. /\ job.stage = "write" /\ job.todo # <<>> /\ log' = Append(log, Head(job.todo))
      /\ job' = [job EXCEPT !.todo = Tail(@), !.at = @ + 1] /\ job.at = Len(log)
      /\ UNCHANGED <<start, game, seq, history, row, closing, mishaps, boot, up>>
  BY DEF Persist, memory
<1>. DEFINE kind == job.kind
            next == job.next
            todo == job.todo
            at == job.at
<1>2. job = Writing(kind, next, todo, at) /\ todo \in Seq(Entries) BY <1>1, WriterTyped
<1>. HIDE DEF kind, next, todo, at
<1>3. job' = Writing(kind, next, Tail(todo), at + 1) BY <1>1, <1>2 DEF Writing
<1>4. Head(todo) \in Entries BY <1>1, <1>2, WritingFields
<1>. QED BY <1>1, <1>3, <1>4 DEF kind, next, todo, at

LEMMA TablesStep == TablesInv /\ [LogNext]_vars => TablesInv'
<1>. SUFFICES ASSUME TablesInv, [LogNext]_vars PROVE TablesInv'
  OBVIOUS
<1>0. /\ start \in GameState /\ game \in GameState /\ log \in Seq(Entries) /\ seq \in Nat
      /\ history \in Seq(Snapshots) /\ JobTyped(job) /\ JobTyped(Idle)
      /\ <<>> \in Seq(Snapshots)
  BY DEF TablesInv, JobTyped, Idle
<1>1. ASSUME UNCHANGED <<start, game, log, seq>>, history' \in {history, <<>>},
             job' = job \/ job' = Idle
      PROVE TablesInv'
  <2>1. JobTyped(job') BY <1>0, <1>1
  <2>. QED BY <1>0, <1>1, <2>1 DEF TablesInv
<1>2. ASSUME NEW e \in Requests, Act(e) PROVE TablesInv'
  <2>1. /\ job' = Writing("act", Outcome(game, e), EventsOf(game, e), seq)
        /\ Allowed(game, e)
        /\ history' = history \/ history' = LastFew(Append(history, [game |-> game, seq |-> seq]))
        /\ UNCHANGED <<start, log, game, seq>>
    BY <1>2 DEF Act, disk
  <2>2. Outcome(game, e) \in GameState BY <1>0, <2>1, OutcomeTyped
  <2>3. JobTyped(job')
    <3>1. EventsOf(game, e) \in Seq(Entries) BY EventsTyped
    <3>. QED BY <1>0, <2>1, <2>2, <3>1 DEF JobTyped
  <2>4. history' \in Seq(Snapshots)
    <3>1. Append(history, [game |-> game, seq |-> seq]) \in Seq(Snapshots)
      BY <1>0 DEF Snapshots
    <3>. QED BY <1>0, <2>1, <3>1, LastFewTyped
  <2>. QED BY <1>0, <2>1, <2>3, <2>4 DEF TablesInv
<1>3. CASE JudgeRevert
  <2>. DEFINE prev == Last(history)
  <2>1. /\ job' = Writing("revert", prev.game, <<Reverted(prev.game)>>, Len(log))
        /\ history # <<>> /\ history' = Front(history)
        /\ UNCHANGED <<start, log, game, seq>>
    BY <1>3 DEF JudgeRevert, SeqForRevert, disk
  <2>2. prev \in Snapshots /\ Front(history) \in Seq(Snapshots) BY <1>0, <2>1, TopOfStack
  <2>. HIDE DEF prev
  <2>3. prev.game \in GameState BY <2>2 DEF Snapshots
  <2>4. <<Reverted(prev.game)>> \in Seq(Entries) /\ Len(log) \in Nat BY <1>0, <2>3 DEF Entries
  <2>5. JobTyped(job') BY <2>1, <2>3, <2>4 DEF JobTyped
  <2>. QED BY <1>0, <2>1, <2>2, <2>5 DEF TablesInv
<1>4. CASE Persist
  <2>1. job.stage = "write" /\ job.todo # <<>> BY <1>4, PersistShape
  <2>2. /\ job.kind \in {"act", "revert", "close"} /\ job.next \in GameState
        /\ job.todo \in Seq(Entries) /\ job.at \in Nat
    BY <2>1, WriterTyped
  <2>3. /\ job' = Writing(job.kind, job.next, Tail(job.todo), job.at + 1)
        /\ log' = Append(log, Head(job.todo)) /\ Head(job.todo) \in Entries
        /\ UNCHANGED <<start, game, seq, history>>
    BY <1>4, PersistShape
  <2>4. Tail(job.todo) \in Seq(Entries) /\ job.at + 1 \in Nat /\ log' \in Seq(Entries)
    BY <1>0, <2>1, <2>2, <2>3
  <2>5. JobTyped(job') BY <2>2, <2>3, <2>4 DEF JobTyped
  <2>. QED BY <1>0, <2>3, <2>4, <2>5 DEF TablesInv
<1>5. CASE Commit
  <2>1. /\ job.stage = "write" /\ game' = job.next /\ seq' = job.at
        /\ UNCHANGED <<start, log, history>>
        /\ job' = Idle \/ job' = [stage |-> "end"]
    BY <1>5 DEF Commit, disk
  <2>2. game' \in GameState /\ seq' \in Nat BY <2>1, WriterTyped
  <2>3. JobTyped(job') BY <2>1 DEF JobTyped, Idle
  <2>. QED BY <1>0, <2>1, <2>2, <2>3 DEF TablesInv
<1>6. CASE EndGame
  <2>1. /\ job' = [stage |-> "finalize"] /\ UNCHANGED <<start, log, game, seq, history>>
    BY <1>6 DEF EndGame, memory
  <2>2. JobTyped(job') BY <2>1 DEF JobTyped
  <2>. QED BY <1>0, <2>1, <2>2 DEF TablesInv
<1>7. CASE CloseUnderLock
  <2>1. UNCHANGED <<start, log, game, seq, history>> BY <1>7 DEF CloseUnderLock, disk, memory
  <2>2. CASE job' = Idle BY <1>1, <2>1, <2>2
  <2>3. CASE job' = Writing("close", ApplyJudgeEndGame(game), <<GameEnded>>, seq)
    <3>1. ApplyJudgeEndGame(game) \in GameState BY <1>0, EndGameTyped
    <3>2. <<GameEnded>> \in Seq(Entries) BY DEF Entries
    <3>3. JobTyped(job') BY <1>0, <2>3, <3>1, <3>2 DEF JobTyped
    <3>. QED BY <1>0, <2>1, <3>3 DEF TablesInv
  <2>. QED BY <1>7, <2>2, <2>3 DEF CloseUnderLock
<1>8. CASE BootReplays
  <2>1. /\ UNCHANGED <<start, log, history, job>>
        /\ \/ game' = game /\ seq' = seq
           \/ game' = Replayed /\ seq' = Len(log)
    BY <1>8 DEF BootReplays, disk
  <2>2. Replayed \in GameState /\ Len(log) \in Nat BY <1>0, ReplayTyped DEF Replayed
  <2>. QED BY <1>0, <2>1, <2>2 DEF TablesInv
<1>9. CASE UNCHANGED vars BY <1>1, <1>9 DEF vars, disk, memory, service
<1>10. CASE PersistCollides \/ ScheduleCleanup \/ CloseLobby \/ MarkEnded \/ BootReads
  BY <1>1, <1>10
  DEF PersistCollides, ScheduleCleanup, CloseLobby, MarkEnded, BootReads, disk, memory
<1>11. CASE CleanupFires \/ WriteFails \/ Crash
  BY <1>1, <1>11 DEF CleanupFires, WriteFails, Crash, disk, memory, service
<1>12. ASSUME NEW caller, FinalizeReads(caller) \/ FinalizeWrites(caller) PROVE TablesInv'
  BY <1>1, <1>12 DEF FinalizeReads, FinalizeWrites, disk, memory
<1>. QED
  BY <1>2, <1>3, <1>4, <1>5, <1>6, <1>7, <1>8, <1>9, <1>10, <1>11, <1>12 DEF LogNext

-----------------------------------------------------------------------------
(* The log and the table.                                                  *)

\* Replayable, of any log.
Good(l) ==
  /\ \A i \in DOMAIN l :
       (\A j \in DOMAIN l : l[j].type = "REVERTED" => j < i) => l[i].type \notin Forgotten
  /\ \A i \in DOMAIN l : l[i].type = "REVERTED" => ~l[i].snapshot.finished

\* Once the events of todo are written behind l, a replay gives next.
Promise(l, todo, next) ==
  /\ todo = <<>> \/ (\E e : todo = <<e>>) \/ (\E e, f : todo = <<e, f>>)
  /\ todo = <<>> => (Good(l) => Replay(start, l) = next)
  /\ \A e : todo = <<e>> => (Good(Append(l, e)) => Replay(start, Append(l, e)) = next)
  /\ \A e, f : todo = <<e, f>> =>
       (Good(Append(Append(l, e), f)) => Replay(start, Append(Append(l, e), f)) = next)

\* The registry's number is not ahead of the log; while it is level with it, the
\* table is the replay of the log.  A job whose turn it is to write keeps a promise;
\* closing the lobby keeps none, but has marked the row before.
FaithInv ==
  /\ seq <= Len(log)
  /\ ~row.ended /\ seq = Len(log) /\ Good(log) => Replay(start, log) = game
  /\ job.stage = "write" =>
       /\ job.at <= Len(log)
       /\ ~row.ended /\ job.at = Len(log) => Promise(log, job.todo, job.next)
  /\ closing = "marked" => row.ended

LEMMA GoodAppend ==
  ASSUME NEW l \in Seq(Entries), NEW e \in Entries, Good(Append(l, e))
  PROVE /\ e.type # "REVERTED" => Good(l) /\ e.type \notin Forgotten
        /\ e.type = "REVERTED" => ~e.snapshot.finished
<1>. DEFINE m == Append(l, e)
            n == Len(l)
<1>1. /\ n \in Nat /\ DOMAIN l = 1..n /\ DOMAIN m = 1..(n + 1) /\ m[n + 1] = e
      /\ \A i \in 1..n : m[i] = l[i]
  OBVIOUS
<1>2. /\ \A i \in DOMAIN m :
           (\A j \in DOMAIN m : m[j].type = "REVERTED" => j < i) => m[i].type \notin Forgotten
      /\ \A i \in DOMAIN m : m[i].type = "REVERTED" => ~m[i].snapshot.finished
  BY DEF Good
<1>. HIDE DEF m, n
<1>3. e.type = "REVERTED" => ~e.snapshot.finished BY <1>1, <1>2
<1>4. ASSUME e.type # "REVERTED" PROVE e.type \notin Forgotten
  <2>1. \A j \in DOMAIN m : m[j].type = "REVERTED" => j < n + 1 BY <1>1, <1>4
  <2>. QED BY <1>1, <1>2, <2>1
<1>5. ASSUME e.type # "REVERTED",
             NEW i \in DOMAIN l, \A j \in DOMAIN l : l[j].type = "REVERTED" => j < i
      PROVE l[i].type \notin Forgotten
  <2>1. \A j \in DOMAIN m : m[j].type = "REVERTED" => j < i BY <1>1, <1>5
  <2>2. i \in DOMAIN m /\ m[i] = l[i] BY <1>1
  <2>. QED BY <1>2, <2>1, <2>2
<1>6. \A i \in DOMAIN l : l[i].type = "REVERTED" => ~l[i].snapshot.finished BY <1>1, <1>2
<1>. QED BY <1>3, <1>4, <1>5, <1>6 DEF Good

\* What an action writes replays to what it commits.
LEMMA ActPromises ==
  ASSUME start \in GameState, NEW l \in Seq(Entries), NEW g \in GameState, NEW e \in Requests,
         Allowed(g, e), Good(l) => Replay(start, l) = g
  PROVE Promise(l, EventsOf(g, e), Outcome(g, e))
<1>. DEFINE out == Outcome(g, e)
            a == Append(l, e)
<1>1. e \in Entries /\ PhaseChanged \in Entries /\ GameEnded \in Entries /\ a \in Seq(Entries)
  BY DEF Entries, Requests
<1>2. e.type \notin {"REVERTED", "GAME_ENDED"} BY RequestFields
<1>3. ASSUME Good(a) PROVE Replay(start, a) = Applied(g, e)
  <2>1. Good(l) /\ e.type \notin Forgotten BY <1>1, <1>2, <1>3, GoodAppend
  <2>2. Replay(start, a) = ApplyEvent(g, e) BY <1>1, <2>1, ReplayAppend
  <2>. QED BY <1>2, <2>1, <2>2 DEF ApplyEvent, Ignored
<1>. HIDE DEF a, out
<1>4. CASE e = SpeakerAdvanced /\ SpeechesDone(g)
  <2>1. EventsOf(g, e) = <<e, PhaseChanged>> /\ out = ApplyAdvancePhase(Applied(g, e))
    BY <1>4 DEF EventsOf, Outcome, out
  <2>2. PhaseChanged.type = "PHASE_CHANGED" BY DEF PhaseChanged, Event
  <2>3. ASSUME Good(Append(a, PhaseChanged)) PROVE Replay(start, Append(a, PhaseChanged)) = out
    <3>1. Good(a) BY <1>1, <2>2, <2>3, GoodAppend
    <3>2. Replay(start, Append(a, PhaseChanged)) = ApplyEvent(Applied(g, e), PhaseChanged)
      BY <1>1, <1>3, <3>1, ReplayAppend
    <3>3. ApplyEvent(Applied(g, e), PhaseChanged) = ApplyAdvancePhase(Applied(g, e))
      BY <2>2 DEF ApplyEvent, Ignored, Forgotten, Allowed, Applied
    <3>. QED BY <2>1, <3>2, <3>3
  <2>4. \A f, h : <<e, PhaseChanged>> = <<f, h>> => f = e /\ h = PhaseChanged OBVIOUS
  <2>5. <<e, PhaseChanged>> # <<>> /\ \A f : <<e, PhaseChanged>> # <<f>> OBVIOUS
  <2>. QED BY <2>1, <2>3, <2>4, <2>5 DEF Promise, a, out
<1>5. CASE ~(e = SpeakerAdvanced /\ SpeechesDone(g)) /\ EventsOf(g, e) = <<e, GameEnded>>
  <2>1. out = Applied(g, e) BY <1>5 DEF Outcome, out
  <2>2. GameEnded.type = "GAME_ENDED" BY DEF GameEnded, Event
  <2>3. ASSUME Good(Append(a, GameEnded)) PROVE Replay(start, Append(a, GameEnded)) = out
    <3>1. Good(a) BY <1>1, <2>2, <2>3, GoodAppend
    <3>2. Replay(start, Append(a, GameEnded)) = ApplyEvent(Applied(g, e), GameEnded)
      BY <1>1, <1>3, <3>1, ReplayAppend
    <3>3. ApplyEvent(Applied(g, e), GameEnded) = Applied(g, e)
      BY <2>2 DEF ApplyEvent, Ignored
    <3>. QED BY <2>1, <3>2, <3>3
  <2>4. \A f, h : <<e, GameEnded>> = <<f, h>> => f = e /\ h = GameEnded OBVIOUS
  <2>5. <<e, GameEnded>> # <<>> /\ \A f : <<e, GameEnded>> # <<f>> OBVIOUS
  <2>. QED BY <1>5, <2>3, <2>4, <2>5 DEF Promise, a, out
<1>6. CASE ~(e = SpeakerAdvanced /\ SpeechesDone(g)) /\ EventsOf(g, e) = <<e>>
  <2>1. out = Applied(g, e) BY <1>6 DEF Outcome, out
  <2>2. \A f : <<e>> = <<f>> => f = e OBVIOUS
  <2>3. <<e>> # <<>> /\ \A f, h : <<e>> # <<f, h>> OBVIOUS
  <2>. QED BY <1>3, <1>6, <2>1, <2>2, <2>3 DEF Promise, a, out
<1>. QED BY <1>4, <1>5, <1>6 DEF EventsOf

LEMMA RevertPromises ==
  ASSUME NEW l \in Seq(Entries), NEW p \in GameState
  PROVE Promise(l, <<Reverted(p)>>, p)
<1>. DEFINE e == Reverted(p)
<1>1. e \in Entries /\ e.type = "REVERTED" /\ e.snapshot = p BY DEF Entries, Reverted
<1>. HIDE DEF e
<1>2. ASSUME Good(Append(l, e)) PROVE Replay(start, Append(l, e)) = p
  <2>1. ~p.finished BY <1>1, <1>2, GoodAppend
  <2>2. Replay(start, Append(l, e)) = ApplyEvent(Replay(start, l), e)
    BY <1>1, ReplayAppend
  <2>3. ApplyEvent(Replay(start, l), e) = RestoreFromSnapshot(p) BY <1>1 DEF ApplyEvent
  <2>. QED BY <2>1, <2>2, <2>3, RestoreTyped
<1>3. \A f : <<e>> = <<f>> => f = e OBVIOUS
<1>4. <<e>> # <<>> /\ \A f, h : <<e>> # <<f, h>> OBVIOUS
<1>5. Promise(l, <<e>>, p) BY <1>2, <1>3, <1>4 DEF Promise
<1>. QED BY <1>5 DEF e

\* A promise survives its first event being written.
LEMMA PromiseKept ==
  ASSUME NEW l, NEW todo \in Seq(Entries), todo # <<>>, NEW next, Promise(l, todo, next)
  PROVE Promise(Append(l, Head(todo)), Tail(todo), next)
<1>1. CASE \E e : todo = <<e>>
  <2>1. PICK e : todo = <<e>> BY <1>1
  <2>2. Head(todo) = e /\ Tail(todo) = <<>> BY <2>1
  <2>3. Good(Append(l, e)) => Replay(start, Append(l, e)) = next BY <2>1 DEF Promise
  <2>4. \A f, h : <<>> # <<f>> /\ <<>> # <<f, h>> OBVIOUS
  <2>. QED BY <2>2, <2>3, <2>4 DEF Promise
<1>2. CASE \E e, f : todo = <<e, f>>
  <2>1. PICK e, f : todo = <<e, f>> BY <1>2
  <2>2. Head(todo) = e /\ Tail(todo) = <<f>> BY <2>1
  <2>3. Good(Append(Append(l, e), f)) => Replay(start, Append(Append(l, e), f)) = next
    BY <2>1 DEF Promise
  <2>4. \A h : <<f>> = <<h>> => h = f OBVIOUS
  <2>5. <<f>> # <<>> /\ \A h, k : <<f>> # <<h, k>> OBVIOUS
  <2>. QED BY <2>2, <2>3, <2>4, <2>5 DEF Promise
<1>. QED BY <1>1, <1>2 DEF Promise

\* Nobody takes an ended row back.
LEMMA RowStaysEnded ==
  ASSUME RowInv, [LogNext]_vars, row.ended
  PROVE row'.ended
<1>1. PICK W : row \in Rows(W) BY DEF RowInv, Sound
<1>2. CASE UNCHANGED row BY <1>2
<1>3. ASSUME NEW caller, FinalizeWrites(caller) PROVE row'.ended
  BY <1>1, <1>3 DEF FinalizeWrites, CountedRow, Rows
<1>4. CASE EndGame BY <1>1, <1>4 DEF EndGame, EndedRow, Rows
<1>5. CASE MarkEnded BY <1>1, <1>5 DEF MarkEnded, Rows
<1>. QED
  BY <1>2, <1>3, <1>4, <1>5
  DEF LogNext, vars, disk, Act, JudgeRevert, Persist, PersistCollides, Commit,
      ScheduleCleanup, FinalizeReads, CloseLobby, CloseUnderLock, CleanupFires, WriteFails,
      Crash, BootReads, BootReplays

LEMMA FaithInit == LogInit => FaithInv
<1>. SUFFICES ASSUME LogInit PROVE FaithInv
  OBVIOUS
<1>1. log \in Seq(Requests \cup {GameEnded}) BY StartAssumption DEF LogInit
<1>2. Len(log) \in Nat BY <1>1
<1>3. job.stage = "idle" BY DEF LogInit, Idle
<1>. QED BY <1>2, <1>3 DEF LogInit, FaithInv, Replayed

\* Neither the log nor the table changes, and nobody starts to write.
LEMMA FaithKept ==
  ASSUME FaithInv, UNCHANGED <<start, log, game, seq>>, row.ended => row'.ended,
         job' = job \/ job'.stage # "write", closing' = "marked" => row'.ended
  PROVE FaithInv'
BY DEF FaithInv, Promise

LEMMA FaithStep == TablesInv /\ RowInv /\ FaithInv /\ [LogNext]_vars => FaithInv'
<1>. SUFFICES ASSUME TablesInv, RowInv, FaithInv, [LogNext]_vars PROVE FaithInv'
  OBVIOUS
<1>0. /\ row.ended => row'.ended
      /\ Idle.stage # "write"
      /\ start \in GameState /\ game \in GameState /\ log \in Seq(Entries)
      /\ seq \in Nat /\ Len(log) \in Nat /\ history \in Seq(Snapshots)
  BY RowStaysEnded DEF TablesInv, Idle
<1>1. /\ seq <= Len(log) /\ (closing = "marked" => row.ended)
      /\ ~row.ended /\ seq = Len(log) /\ Good(log) => Replay(start, log) = game
      /\ job.stage = "write" =>
           /\ job.at <= Len(log)
           /\ ~row.ended /\ job.at = Len(log) => Promise(log, job.todo, job.next)
  BY DEF FaithInv
<1>2. ASSUME NEW e \in Requests, Act(e) PROVE FaithInv'
  <2>1. /\ job' = Writing("act", Outcome(game, e), EventsOf(game, e), seq)
        /\ Allowed(game, e) /\ UNCHANGED <<start, log, row, game, seq, closing>>
    BY <1>2 DEF Act, disk
  <2>2. ~row.ended /\ seq = Len(log) => Promise(log, EventsOf(game, e), Outcome(game, e))
    BY <1>0, <1>1, <2>1, ActPromises
  <2>3. /\ job'.stage = "write" /\ job'.at = seq /\ job'.todo = EventsOf(game, e)
        /\ job'.next = Outcome(game, e)
    BY <2>1, WritingFields
  <2>4. ~row.ended /\ job'.at = Len(log) => Promise(log, job'.todo, job'.next) BY <2>2, <2>3
  <2>. QED BY <1>1, <2>1, <2>3, <2>4 DEF FaithInv, Promise
<1>3. CASE JudgeRevert
  <2>. DEFINE prev == Last(history)
  <2>1. /\ job' = Writing("revert", prev.game, <<Reverted(prev.game)>>, Len(log))
        /\ history # <<>> /\ UNCHANGED <<start, log, row, game, seq, closing>>
    BY <1>3 DEF JudgeRevert, SeqForRevert, disk
  <2>2. prev \in Snapshots BY <1>0, <2>1, TopOfStack
  <2>. HIDE DEF prev
  <2>3. prev.game \in GameState BY <2>2 DEF Snapshots
  <2>4. Promise(log, <<Reverted(prev.game)>>, prev.game) BY <1>0, <2>3, RevertPromises
  <2>5. /\ job'.stage = "write" /\ job'.at = Len(log) /\ job'.todo = <<Reverted(prev.game)>>
        /\ job'.next = prev.game
    BY <2>1, WritingFields
  <2>6. Promise(log, job'.todo, job'.next) /\ job'.at <= Len(log) BY <1>0, <2>4, <2>5
  <2>. QED BY <1>1, <2>1, <2>6 DEF FaithInv, Promise
<1>4. CASE Persist
  <2>1. /\ job.stage = "write" /\ job.todo # <<>> /\ job.at = Len(log)
        /\ Head(job.todo) \in Entries
        /\ job' = Writing(job.kind, job.next, Tail(job.todo), job.at + 1)
        /\ log' = Append(log, Head(job.todo))
        /\ UNCHANGED <<start, game, seq, row, closing>>
    BY <1>4, PersistShape
  <2>2. Len(log') = Len(log) + 1 BY <1>0, <2>1
  <2>3. job.todo \in Seq(Entries) BY <2>1, WriterTyped
  <2>4. ~row.ended => Promise(log', Tail(job.todo), job.next)
    BY <1>1, <2>1, <2>3, PromiseKept
  <2>5. job'.at = job.at + 1 /\ job'.todo = Tail(job.todo) /\ job'.next = job.next
    BY <2>1, WritingFields
  <2>6. job'.at <= Len(log') /\ (~row'.ended => Promise(log', job'.todo, job'.next))
    BY <1>0, <2>1, <2>2, <2>4, <2>5
  <2>7. seq' <= Len(log') /\ seq' # Len(log') BY <1>0, <1>1, <2>1, <2>2
  <2>8. closing' = "marked" => row'.ended BY <1>1, <2>1
  <2>. QED BY <2>1, <2>6, <2>7, <2>8 DEF FaithInv, Promise
<1>5. CASE Commit
  <2>1. /\ job.stage = "write" /\ job.todo = <<>> /\ game' = job.next /\ seq' = job.at
        /\ UNCHANGED <<start, log, row, closing>>
        /\ job' = Idle \/ job' = [stage |-> "end"]
    BY <1>5 DEF Commit, disk
  <2>2. job'.stage # "write" BY <2>1 DEF Idle
  <2>3. ~row.ended /\ seq' = Len(log) /\ Good(log) => Replay(start, log) = game'
    BY <1>1, <2>1 DEF Promise
  <2>. QED BY <1>1, <2>1, <2>2, <2>3 DEF FaithInv
<1>6. CASE BootReplays
  <2>1. /\ UNCHANGED <<start, log, row, job, closing>>
        /\ \/ game' = game /\ seq' = seq
           \/ game' = Replay(start, log) /\ seq' = Len(log)
    BY <1>6 DEF BootReplays, Replayed, disk
  <2>2. CASE game' = game /\ seq' = seq BY <1>1, <2>1, <2>2, FaithKept
  <2>3. CASE game' = Replay(start, log) /\ seq' = Len(log)
    BY <1>0, <1>1, <2>1, <2>3 DEF FaithInv, Promise
  <2>. QED BY <2>1, <2>2, <2>3
<1>7. CASE CloseUnderLock
  <2>1. /\ closing = "marked" /\ closing' = "over"
        /\ UNCHANGED <<start, log, row, game, seq>>
    BY <1>7 DEF CloseUnderLock, disk, memory
  <2>2. CASE job' = Idle
    <3>1. job'.stage # "write" /\ closing' # "marked" BY <1>0, <2>1, <2>2
    <3>. QED BY <1>0, <2>1, <3>1, FaithKept
  <2>3. CASE job' = Writing("close", ApplyJudgeEndGame(game), <<GameEnded>>, seq)
    <3>1. job'.at = seq /\ row'.ended BY <1>1, <2>1, <2>3, WritingFields
    <3>. QED BY <1>1, <2>1, <3>1 DEF FaithInv
  <2>. QED BY <1>7, <2>2, <2>3 DEF CloseUnderLock
<1>8. CASE MarkEnded
  <2>1. PICK W : row \in Rows(W) BY DEF RowInv, Sound
  <2>2. row'.ended BY <1>8, <2>1 DEF MarkEnded, Rows
  <2>3. UNCHANGED <<start, log, game, seq, job>> BY <1>8 DEF MarkEnded, memory
  <2>. QED BY <2>2, <2>3, FaithKept
<1>9. CASE UNCHANGED vars BY <1>0, <1>1, <1>9, FaithKept DEF vars, disk, memory, service
<1>10. CASE EndGame \/ ScheduleCleanup \/ CloseLobby \/ BootReads \/ PersistCollides
  <2>1. /\ UNCHANGED <<start, log, game, seq>>
        /\ closing' = closing \/ closing' = "found"
        /\ job' = job \/ job'.stage # "write"
    BY <1>0, <1>10
    DEF EndGame, ScheduleCleanup, CloseLobby, BootReads, PersistCollides, disk, memory
  <2>. QED BY <1>0, <1>1, <2>1, FaithKept
<1>11. CASE CleanupFires \/ WriteFails \/ Crash
  <2>1. /\ UNCHANGED <<start, log, game, seq>>
        /\ closing' = closing \/ closing' # "marked"
        /\ job' = job \/ job'.stage # "write"
    BY <1>0, <1>11 DEF CleanupFires, WriteFails, Crash, disk, memory, service
  <2>. QED BY <1>0, <1>1, <2>1, FaithKept
<1>12. ASSUME NEW caller, FinalizeReads(caller) \/ FinalizeWrites(caller) PROVE FaithInv'
  <2>1. UNCHANGED <<start, log, game, seq, job, closing>>
    BY <1>12 DEF FinalizeReads, FinalizeWrites, disk, memory
  <2>. QED BY <1>0, <1>1, <2>1, FaithKept
<1>. QED
  BY <1>2, <1>3, <1>4, <1>5, <1>6, <1>7, <1>8, <1>9, <1>10, <1>11, <1>12 DEF LogNext

-----------------------------------------------------------------------------
(* An action of two events whose second write failed.                      *)

\* What a job still has to write: one event, or the two of an action that took
\* the registry's number.
Unwritten(j, number) ==
  \/ \E e : j.todo = <<e>>
  \/ \E e \in Requests : \E f : j.todo = <<e, f>> /\ j.at <= number

\* The log is ahead of the table by the first event of an action, or not at all;
\* a job that has written everything is level with the log.
LagInv ==
  /\ up /\ ~row.ended /\ seq # Len(log) /\ ~(job.stage = "write" /\ job.todo = <<>>) =>
       /\ seq + 1 = Len(log)
       /\ Good(log) => Replay(start, log) = ApplyEvent(game, Last(log))
  /\ job.stage = "write" =>
       \/ job.todo = <<>> /\ job.at = Len(log)
       \/ Unwritten(job, seq)

LEMMA LagInit == LogInit => LagInv
BY DEF LogInit, LagInv, Idle

LEMMA EmptyIsNoEvent ==
  ASSUME NEW j, NEW number, Unwritten(j, number)
  PROVE j.todo # <<>>
<1>1. \A e : <<e>> # <<>> OBVIOUS
<1>2. \A e, f : <<e, f>> # <<>> OBVIOUS
<1>. QED BY <1>1, <1>2 DEF Unwritten

\* Neither the log nor the table changes; a job begins, or ends before it has
\* written everything.
LEMMA LagKept ==
  ASSUME LagInv, UNCHANGED <<start, log, game, seq>>, row.ended => row'.ended, up' => up,
         \/ job' = job
         \/ /\ ~(job.stage = "write" /\ job.todo = <<>>)
            /\ job'.stage = "write" => Unwritten(job', seq)
  PROVE LagInv'
<1>1. CASE job' = job BY <1>1 DEF LagInv, Unwritten
<1>2. CASE /\ ~(job.stage = "write" /\ job.todo = <<>>)
           /\ job'.stage = "write" => Unwritten(job', seq)
  <2>1. job'.stage = "write" => Unwritten(job', seq') BY <1>2
  <2>2. up' /\ ~row'.ended /\ seq' # Len(log') =>
          /\ seq' + 1 = Len(log')
          /\ Good(log') => Replay(start', log') = ApplyEvent(game', Last(log'))
    BY <1>2 DEF LagInv
  <2>. QED BY <2>1, <2>2 DEF LagInv, Unwritten
<1>. QED BY <1>1, <1>2

\* The first of two events leaves the log one event ahead of the table; the last
\* one leaves nothing to write.
LEMMA PersistLag ==
  ASSUME TablesInv, FaithInv, LagInv, Persist
  PROVE LagInv'
<1>1. /\ job.stage = "write" /\ job.todo # <<>> /\ job.at = Len(log)
      /\ Head(job.todo) \in Entries
      /\ job' = Writing(job.kind, job.next, Tail(job.todo), job.at + 1)
      /\ log' = Append(log, Head(job.todo))
      /\ UNCHANGED <<start, game, seq, row, up>>
  BY PersistShape
<1>2. /\ log \in Seq(Entries) /\ Len(log) \in Nat /\ seq \in Nat
      /\ start \in GameState /\ game \in GameState
  BY DEF TablesInv
<1>3. /\ Len(log') = Len(log) + 1 /\ job'.todo = Tail(job.todo) /\ job'.at = Len(log')
      /\ job'.stage = "write"
  BY <1>1, <1>2, WritingFields
<1>4. Unwritten(job, seq) BY <1>1 DEF LagInv
<1>5. CASE \E e : job.todo = <<e>>
  <2>1. job'.todo = <<>> BY <1>3, <1>5
  <2>. QED BY <1>3, <2>1 DEF LagInv
<1>6. CASE \E e \in Requests : \E f : job.todo = <<e, f>> /\ job.at <= seq
  <2>0. PICK e \in Requests : \E f : job.todo = <<e, f>> /\ job.at <= seq BY <1>6
  <2>1. PICK f : job.todo = <<e, f>> /\ job.at <= seq BY <2>0
  <2>2. log' = Append(log, e) /\ job'.todo = <<f>> BY <1>1, <1>3, <2>1
  <2>3. seq = Len(log) BY <1>1, <1>2, <2>1 DEF FaithInv
  <2>4. e \in Entries /\ e.type # "REVERTED" BY RequestFields DEF Entries
  <2>5. Last(Append(log, e)) = e BY <1>2, <2>4 DEF Last
  <2>6. ASSUME ~row.ended, Good(Append(log, e))
        PROVE Replay(start, Append(log, e)) = ApplyEvent(game, e)
    <3>1. Good(log) BY <1>2, <2>4, <2>6, GoodAppend
    <3>2. Replay(start, log) = game BY <2>3, <2>6, <3>1 DEF FaithInv
    <3>. QED BY <1>2, <2>4, <3>2, ReplayAppend
  <2>7. Unwritten(job', seq') BY <2>2 DEF Unwritten
  <2>8. up' /\ ~row'.ended =>
          /\ seq' + 1 = Len(log')
          /\ Good(log') => Replay(start', log') = ApplyEvent(game', Last(log'))
    BY <1>1, <1>3, <2>2, <2>3, <2>5, <2>6
  <2>. QED BY <2>7, <2>8 DEF LagInv
<1>. QED BY <1>4, <1>5, <1>6 DEF Unwritten

LEMMA LagStep == TablesInv /\ RowInv /\ FaithInv /\ LagInv /\ [LogNext]_vars => LagInv'
<1>. SUFFICES ASSUME TablesInv, RowInv, FaithInv, LagInv, [LogNext]_vars PROVE LagInv'
  OBVIOUS
<1>0. /\ row.ended => row'.ended
      /\ Idle.stage # "write" /\ (job = Idle => job.stage # "write")
      /\ seq \in Nat /\ Len(log) \in Nat /\ seq <= Len(log)
  BY RowStaysEnded DEF TablesInv, FaithInv, Idle
<1>1. ASSUME NEW e \in Requests, Act(e) PROVE LagInv'
  <2>1. /\ job' = Writing("act", Outcome(game, e), EventsOf(game, e), seq) /\ job = Idle
        /\ UNCHANGED <<start, log, row, game, seq, up>>
    BY <1>1 DEF Act, disk
  <2>2. job'.todo = EventsOf(game, e) /\ job'.at = seq BY <2>1, WritingFields
  <2>3. Unwritten(job', seq)
    <3>1. \/ EventsOf(game, e) = <<e>> \/ EventsOf(game, e) = <<e, PhaseChanged>>
          \/ EventsOf(game, e) = <<e, GameEnded>>
      BY EventsTyped
    <3>2. job'.at <= seq BY <1>0, <2>2
    <3>. QED BY <2>2, <3>1, <3>2 DEF Unwritten
  <2>. QED BY <1>0, <2>1, <2>3, LagKept
<1>2. CASE JudgeRevert
  <2>. DEFINE prev == Last(history)
  <2>1. /\ job' = Writing("revert", prev.game, <<Reverted(prev.game)>>, SeqForRevert(prev))
        /\ job = Idle /\ UNCHANGED <<start, log, row, game, seq, up>>
    BY <1>2 DEF JudgeRevert, disk
  <2>2. Unwritten(job', seq) BY <2>1, WritingFields DEF Unwritten
  <2>. QED BY <1>0, <2>1, <2>2, LagKept
<1>3. CASE Persist BY <1>3, PersistLag
<1>4. CASE Commit
  <2>1. /\ job.stage = "write" /\ job.todo = <<>> /\ seq' = job.at /\ log' = log
        /\ job' = Idle \/ job' = [stage |-> "end"]
    BY <1>4 DEF Commit, disk
  <2>2. job'.stage # "write" BY <2>1 DEF Idle
  <2>3. seq' = Len(log') BY <2>1, EmptyIsNoEvent DEF LagInv
  <2>. QED BY <2>2, <2>3 DEF LagInv
<1>5. CASE CloseUnderLock
  <2>1. job = Idle /\ UNCHANGED <<start, log, row, game, seq, up>>
    BY <1>5 DEF CloseUnderLock, disk, memory
  <2>2. job' = Idle \/ job' = Writing("close", ApplyJudgeEndGame(game), <<GameEnded>>, seq)
    BY <1>5 DEF CloseUnderLock
  <2>3. job'.stage = "write" => Unwritten(job', seq)
    BY <1>0, <2>2, WritingFields DEF Unwritten
  <2>. QED BY <1>0, <2>1, <2>3, LagKept
<1>6. CASE BootReplays
  <2>1. UNCHANGED <<start, log, row, job>> BY <1>6 DEF BootReplays, disk
  <2>2. CASE UNCHANGED <<game, up, seq>> BY <2>1, <2>2, LagKept
  <2>3. CASE seq' = Len(log)
    <3>1. ASSUME job.stage = "write", Unwritten(job, seq) PROVE Unwritten(job, Len(log))
      <4>1. job.at \in Nat BY <3>1, WriterTyped
      <4>2. job.at <= seq => job.at <= Len(log) BY <1>0, <4>1
      <4>. QED BY <3>1, <4>2 DEF Unwritten
    <3>2. job'.stage = "write" =>
            (job'.todo = <<>> /\ job'.at = Len(log')) \/ Unwritten(job', seq')
      BY <2>1, <2>3, <3>1 DEF LagInv
    <3>. QED BY <2>1, <2>3, <3>2 DEF LagInv
  <2>. QED BY <1>6, <2>2, <2>3 DEF BootReplays
<1>7. CASE PersistCollides \/ EndGame \/ ScheduleCleanup
  <2>1. /\ UNCHANGED <<start, log, game, seq, up>> /\ job'.stage # "write"
        /\ ~(job.stage = "write" /\ job.todo = <<>>)
    BY <1>0, <1>7 DEF PersistCollides, EndGame, ScheduleCleanup, disk, memory
  <2>. QED BY <1>0, <2>1, LagKept
<1>8. CASE WriteFails
  <2>1. /\ UNCHANGED <<start, log, game, seq, up>>
        /\ \/ job' = job
           \/ job'.stage # "write" /\ ~(job.stage = "write" /\ job.todo = <<>>)
    BY <1>0, <1>8 DEF WriteFails, disk, memory
  <2>. QED BY <1>0, <2>1, LagKept
<1>9. CASE CleanupFires \/ Crash
  <2>1. /\ ~up' /\ UNCHANGED <<log, seq>>
        /\ job' = job \/ job'.stage # "write"
    BY <1>0, <1>9 DEF CleanupFires, Crash, disk, service
  <2>2. job'.stage = "write" =>
          (job'.todo = <<>> /\ job'.at = Len(log')) \/ Unwritten(job', seq')
    BY <2>1 DEF LagInv
  <2>. QED BY <2>1, <2>2 DEF LagInv
<1>10. CASE CloseLobby \/ MarkEnded \/ BootReads
  <2>1. UNCHANGED <<start, log, game, seq, up, job>>
    BY <1>10 DEF CloseLobby, MarkEnded, BootReads, disk, memory
  <2>. QED BY <1>0, <2>1, LagKept
<1>11. ASSUME NEW caller, FinalizeReads(caller) \/ FinalizeWrites(caller) PROVE LagInv'
  <2>1. UNCHANGED <<start, log, game, seq, up, job>>
    BY <1>11 DEF FinalizeReads, FinalizeWrites, disk, memory
  <2>. QED BY <1>0, <2>1, LagKept
<1>12. CASE UNCHANGED vars BY <1>0, <1>12, LagKept DEF vars, disk, memory, service
<1>. QED
  BY <1>1, <1>2, <1>3, <1>4, <1>5, <1>6, <1>7, <1>8, <1>9, <1>10, <1>11, <1>12 DEF LogNext

\* A crash between two actions brings back the very table that is being played,
\* whatever was reverted, restarted or failed before: an action writes what it is
\* going to commit, and what is written replays to it (recovery.ts:6-10,
\* internal.ts:96-127), as long as replay has a case for the events.  After an
\* action of two events whose second write failed, the log is that first event
\* ahead of the table, and never more (actions.ts:170-182, 206-223).
THEOREM ACrashBringsBackTheTable == LogSpec => []ReplayIsFaithful
<1>1. FaithInv /\ LagInv => ReplayIsFaithful
  <2>1. ASSUME Replayable PROVE Good(log)
    BY <2>1 DEF Replayable, SinceRevert, Good
  <2>. QED BY <2>1 DEF FaithInv, LagInv, ReplayIsFaithful, CrashNow, Replayed
<1>. QED
  BY <1>1, TablesInit, TablesStep, RowInit, RowStep, FaithInit, FaithStep, LagInit, LagStep, PTL
  DEF LogSpec

-----------------------------------------------------------------------------
(* The end of a game.  No operation of the engine takes it back.           *)

LEMMA SentencesStay ==
  ASSUME NEW g \in GameState, NEW queue
  PROVE /\ Acquit(g).finished = g.finished
        /\ Condemn(g, queue).finished = g.finished
        /\ OpenRunoff(g, queue).finished = g.finished
<1>1. Acquit(g).finished = g.finished BY DEF Acquit, GameState
<1>2. Condemn(g, queue).finished = g.finished BY DEF Condemn, KillSeats, GameState
<1>3. OpenRunoff(g, queue).finished = g.finished BY DEF OpenRunoff, GameState
<1>. QED BY <1>1, <1>2, <1>3

LEMMA VoteStays ==
  ASSUME NEW g \in GameState
  PROVE LeaveVote(g).finished = g.finished
<1>. DEFINE c == Condemn(g, <<ResolveVote(g)>>)
            tie == FindTiedSeats(g)
            h == LeaveVote(g)
<1>1. \/ h = Acquit(g) \/ h = OpenRunoff(g, tie) \/ h = [c EXCEPT !.nominations = <<>>]
      \/ h = [g EXCEPT !.votes = NoVotes, !.nominations = <<>>]
  BY DEF LeaveVote
<1>2. CASE h = Acquit(g) \/ h = OpenRunoff(g, tie) BY <1>2, SentencesStay
<1>3. CASE h = [c EXCEPT !.nominations = <<>>]
  BY <1>3 DEF Condemn, KillSeats, GameState
<1>4. CASE h = [g EXCEPT !.votes = NoVotes, !.nominations = <<>>] BY <1>4 DEF GameState
<1>. QED BY <1>1, <1>2, <1>3, <1>4

LEMMA RevoteStays ==
  ASSUME NEW g \in GameState
  PROVE LeaveRevote(g).finished = g.finished
<1>. DEFINE counted == [g EXCEPT !.shootoutIdx = 0]
            c == Condemn(counted, <<ResolveVote(g)>>)
            tie == FindTiedSeats(g)
            h == LeaveRevote(g)
<1>1. counted \in GameState BY ClearedTyped
<1>2. counted.finished = g.finished BY DEF GameState
<1>3. \/ h = Acquit(counted)
      \/ h = [Acquit(counted) EXCEPT !.tied = tie, !.lift = NoBallots]
      \/ h = [c EXCEPT !.nominations = <<>>, !.tied = <<>>]
  BY DEF LeaveRevote
<1>. HIDE DEF counted
<1>4. CASE h = Acquit(counted) BY <1>1, <1>2, <1>4, SentencesStay
<1>5. CASE h = [Acquit(counted) EXCEPT !.tied = tie, !.lift = NoBallots]
  <2>1. h.finished = counted.finished BY <1>1, <1>5 DEF Acquit, GameState
  <2>. QED BY <1>2, <2>1
<1>6. CASE h = [c EXCEPT !.nominations = <<>>, !.tied = <<>>]
  <2>1. h.finished = counted.finished BY <1>1, <1>6 DEF Condemn, KillSeats, GameState
  <2>. QED BY <1>2, <2>1
<1>. QED BY <1>3, <1>4, <1>5, <1>6

LEMMA LiftStays ==
  ASSUME NEW g \in GameState
  PROVE LeaveLiftVote(g).finished = g.finished
<1>. DEFINE closed == [g EXCEPT !.lift = NoBallots, !.tied = <<>>]
            c == Condemn(closed, g.tied)
            h == LeaveLiftVote(g)
<1>1. closed \in GameState BY ClearedTyped
<1>2. closed.finished = g.finished BY DEF GameState
<1>3. h = closed \/ h = [c EXCEPT !.multiKill = @ \/ LiftForfeitsBestMove(g)]
  BY DEF LeaveLiftVote
<1>. HIDE DEF closed
<1>4. CASE h = [c EXCEPT !.multiKill = @ \/ LiftForfeitsBestMove(g)]
  <2>1. h.finished = closed.finished BY <1>1, <1>4 DEF Condemn, KillSeats, GameState
  <2>. QED BY <1>2, <2>1
<1>. QED BY <1>2, <1>3, <1>4

LEMMA SpeechStays ==
  ASSUME NEW g \in GameState
  PROVE LeaveSpeech(g).finished = g.finished
<1>. DEFINE quiet == [g EXCEPT !.spoken = {}, !.speaker = NoSeat]
<1>1. quiet \in GameState BY ClearedTyped
<1>2. quiet.finished = g.finished BY DEF GameState
<1>3. LeaveSpeech(g) = Acquit(quiet) \/ LeaveSpeech(g) = quiet BY DEF LeaveSpeech
<1>. HIDE DEF quiet
<1>. QED BY <1>1, <1>2, <1>3, SentencesStay

LEMMA IntroStays ==
  ASSUME NEW g \in GameState, NEW to
  PROVE SettleIntro(g, to).finished = g.finished
<1>. DEFINE c == Condemn(g, g.nominations)
            h == SettleIntro(g, to)
<1>1. h = Acquit(g) \/ h = g \/ h = [c EXCEPT !.votes = NoVotes, !.nominations = <<>>]
  BY DEF SettleIntro
<1>2. CASE h = [c EXCEPT !.votes = NoVotes, !.nominations = <<>>]
  BY <1>2 DEF Condemn, KillSeats, GameState
<1>. QED BY <1>1, <1>2, SentencesStay

LEMMA ResolveStays ==
  ASSUME NEW g \in GameState
  PROVE Resolve(g).finished = g.finished
<1>1. CASE g.phase = "DAY_VOTE_INTRO" BY <1>1, IntroStays DEF Resolve, Leave
<1>2. CASE g.phase = "DAY_VOTE" BY <1>2, VoteStays DEF Resolve, Leave
<1>3. CASE g.phase = "DAY_REVOTE" BY <1>3, RevoteStays DEF Resolve, Leave
<1>4. CASE g.phase = "DAY_LIFT_VOTE" BY <1>4, LiftStays DEF Resolve, Leave
<1>5. CASE g.phase = "DAY_SPEECH" BY <1>5, SpeechStays DEF Resolve, Leave
<1>6. CASE g.phase = "NIGHT_SHERIFF"
  BY <1>6 DEF Resolve, Leave, LeaveNight, KillSeats, GameState
<1>7. CASE g.phase = "DAY_SHOOTOUT"
  <2>1. Resolve(g) = [g EXCEPT !.speaker = NoSeat, !.shootoutIdx = 0]
    BY <1>7 DEF Resolve, Leave
  <2>. QED BY <2>1 DEF GameState
<1>8. CASE g.phase = "DAY_LAST_WORD"
  <2>1. Resolve(g) = [g EXCEPT !.lastWord = <<>>, !.lastWordIdx = 0, !.speaker = NoSeat]
    BY <1>8 DEF Resolve, Leave
  <2>. QED BY <2>1 DEF GameState
<1>9. CASE g.phase = "MORNING_ANNOUNCEMENT"
  BY <1>9 DEF Resolve, Leave, LeaveMorning, GameState
<1>10. CASE g.phase \in {"PLAYER_INTRODUCTION", "ROLE_DISTRIBUTION", "NIGHT_ZERO",
                         "NIGHT_MAFIA", "NIGHT_DON", "GAME_OVER"}
  BY <1>10 DEF Resolve, Leave
<1>11. g.phase \in Phases BY DEF GameState
<1>. QED
  BY <1>1, <1>2, <1>3, <1>4, <1>5, <1>6, <1>7, <1>8, <1>9, <1>10, <1>11 DEF Phases

LEMMA EnterStays ==
  ASSUME NEW g \in GameState, NEW before, NEW to
  PROVE Enter(before, g, to).finished = g.finished
BY DEF Enter, GameState

LEMMA AdvanceStays ==
  ASSUME NEW g \in GameState, g.finished
  PROVE ApplyAdvancePhase(g).finished
<1>. DEFINE next == Resolve(g)
            to == NextPhase(Leave(g))
<1>1. next \in GameState /\ next.finished BY ResolveTyped, ResolveStays
<1>. HIDE DEF next
<1>2. Finish(next).finished BY <1>1 DEF Finish, GameState
<1>3. Enter(g, next, to).finished BY <1>1, EnterStays
<1>4. ApplyAdvancePhase(g) \in {g, Finish(next), Enter(g, next, to)}
  BY DEF ApplyAdvancePhase, next
<1>. QED BY <1>2, <1>3, <1>4

LEMMA RemovalStays ==
  ASSUME NEW g \in GameState, NEW s \in Seats, g.finished
  PROVE ApplyJudgeRemove(g, s).finished
<1>. DEFINE next == StrikeOut(g, s)
<1>1. next \in GameState BY StrikeOutTyped
<1>2. next.finished BY DEF StrikeOut, GameState
<1>. HIDE DEF next
<1>3. Finish(next).finished BY <1>1 DEF Finish, GameState
<1>. QED BY <1>2, <1>3 DEF ApplyJudgeRemove, next

LEMMA SpeakerStays ==
  ASSUME NEW g \in GameState, g.finished
  PROVE ApplyNextSpeaker(g).finished
BY DEF ApplyNextSpeaker, GameState

LEMMA FoulStays ==
  ASSUME NEW g \in GameState, NEW s \in Seats, g.finished, CanFoul(g, s)
  PROVE AddFoul(g, s).finished
<1>. DEFINE fouled == [g EXCEPT !.fouls[s] = @ + 1]
<1>1. fouled \in GameState
  <2>1. g.fouls \in [Seats -> 0..FoulRemove] /\ FoulRemove \in Nat
    BY RulesAssumption DEF GameState
  <2>2. g.fouls[s] + 1 \in 0..FoulRemove BY <2>1 DEF CanFoul
  <2>. QED BY <2>2 DEF GameState
<1>2. fouled.finished BY DEF GameState
<1>. HIDE DEF fouled
<1>3. ApplyJudgeRemove(fouled, s).finished BY <1>1, <1>2, RemovalStays
<1>. QED BY <1>2, <1>3 DEF AddFoul, fouled

\* A game that is over stays over, whatever is asked of it.
LEMMA FinishedStays ==
  ASSUME NEW g \in GameState, NEW e \in Requests, Allowed(g, e), g.finished
  PROVE Outcome(g, e).finished
<1>1. Applied(g, e).finished
  <2>1. CASE e.type \in {"PHASE_CHANGED", "SPEAKER_ADVANCED"}
    BY <2>1, AdvanceStays, SpeakerStays DEF Applied
  <2>2. CASE e.type = "JUDGE_LEFT" BY <2>2 DEF Applied, ApplyJudgeEndGame, GameState
  <2>3. CASE e.type \in {"PLAYER_NOMINATED", "PLAYER_UNNOMINATED", "FOUL_REVOKED"}
    BY <2>3 DEF Applied, ApplyNominate, ApplyJudgeUnnominate, ApplyJudgeUnfoul, GameState
  <2>4. CASE e.type = "FOUL_ISSUED"
    <3>1. e.seat \in Seats BY <2>4, RequestFields
    <3>2. CanFoul(g, e.seat) BY <2>4 DEF Allowed
    <3>. QED BY <2>4, <3>1, <3>2, FoulStays DEF Applied, ApplyJudgeFoul
  <2>5. CASE e.type = "PLAYER_REMOVED"
    <3>1. e.seat \in Seats BY <2>5, RequestFields
    <3>. QED BY <2>5, <3>1, RemovalStays DEF Applied
  <2>6. CASE e.type \in {"LIFTED", "NOT_LIFTED", "PLAYER_VOTED", "BEST_MOVE_GUESSED"}
    BY <2>6 DEF Applied, ApplyLiftAllVote, ApplyCastVote, ApplyBestMoveGuess, GameState
  <2>7. CASE e.type \in {"MAFIA_TARGETED", "DON_CHECKED", "SHERIFF_CHECKED", "ROLE_CARD_PICKED"}
    BY <2>7
    DEF Applied, ApplyMafiaTarget, ApplyDonCheck, ApplySheriffCheck, ApplyRoleCardPick, GameState
  <2>. QED BY <2>1, <2>2, <2>3, <2>4, <2>5, <2>6, <2>7, RequestFields
<1>2. Applied(g, e) \in GameState BY AppliedTyped
<1>. QED BY <1>1, <1>2, AdvanceStays DEF Outcome

\* Nothing has failed and nothing was reverted.
Quiet == Undisturbed /\ \A i \in DOMAIN log : log[i].type # "REVERTED"

\* A finished table has its row, except while the job that finished it is about to
\* write it; a running one has no winner there; and a job never takes a result back.
ResultInv ==
  /\ job.stage = "write" /\ job.kind = "close" => row.ended
  /\ Quiet =>
       /\ game.finished /\ job.stage # "end" => row.ended /\ row.winner = game.winner
       /\ ~game.finished => row.winner = "none"
       /\ job.stage \in {"end", "finalize"} => game.finished
       /\ job.stage = "write" =>
            /\ job.kind = "close" => ~game.finished /\ job.next.winner = "none"
            /\ job.kind = "act" /\ game.finished => job.next.finished
            /\ job.kind = "revert" => \E g : job.todo = <<Reverted(g)>>

LEMMA ResultInit == LogInit => ResultInv
<1>. SUFFICES ASSUME LogInit PROVE ResultInv
  OBVIOUS
<1>1. PICK evening \in Starts : start = evening.table /\ log = evening.log BY DEF LogInit
<1>2. ~game.finished BY <1>1, RunningAssumption DEF LogInit, Replayed
<1>3. job.stage = "idle" /\ row.winner = "none" BY DEF LogInit, Idle
<1>. QED BY <1>2, <1>3 DEF ResultInv

\* The table stays, nobody starts to write, and who was about to write the row
\* has done so or goes on.
LEMMA ResultKept ==
  ASSUME ResultInv, UNCHANGED <<game, log>>, Quiet' => Quiet,
         row.ended => row'.ended, row'.winner = row.winner,
         \/ job' = job
         \/ job' = Idle /\ (Quiet' => job.stage # "end")
  PROVE ResultInv'
<1>1. Idle.stage = "idle" BY DEF Idle
<1>. QED BY <1>1 DEF ResultInv, Undisturbed, Quiet

LEMMA QuietBefore ==
  ASSUME TablesInv, NumbersInv, [LogNext]_vars, Quiet'
  PROVE Quiet /\ mishaps' = mishaps /\ boot = "done"
<1>1. mishaps' = mishaps \/ mishaps' = mishaps + 1
  BY DEF LogNext, vars, memory, service, Act, JudgeRevert, Persist, PersistCollides, Commit,
         EndGame, ScheduleCleanup, FinalizeReads, FinalizeWrites, CloseLobby, MarkEnded,
         CloseUnderLock, CleanupFires, WriteFails, Crash, BootReads, BootReplays
<1>2. mishaps \in Nat /\ mishaps' = 0 BY DEF NumbersInv, Quiet, Undisturbed
<1>3. mishaps = 0 /\ mishaps' = mishaps BY <1>1, <1>2
<1>4. boot = "done" BY <1>3 DEF NumbersInv, Undisturbed
<1>5. \A i \in DOMAIN log : log[i].type # "REVERTED"
  <2>1. CASE UNCHANGED log BY <2>1 DEF Quiet
  <2>2. CASE Persist
    <3>1. log' = Append(log, Head(job.todo)) /\ Head(job.todo) \in Entries
      BY <2>2, PersistShape
    <3>2. log \in Seq(Entries) BY DEF TablesInv
    <3>3. \A i \in DOMAIN log : i \in DOMAIN log' /\ log'[i] = log[i] BY <3>1, <3>2
    <3>. QED BY <3>3 DEF Quiet
  <2>. QED
    BY <2>1, <2>2
    DEF LogNext, vars, disk, Act, JudgeRevert, PersistCollides, Commit, EndGame,
        ScheduleCleanup, FinalizeReads, FinalizeWrites, CloseLobby, MarkEnded, CloseUnderLock,
        CleanupFires, WriteFails, Crash, BootReads, BootReplays
<1>. QED BY <1>3, <1>4, <1>5 DEF Quiet, Undisturbed

LEMMA ResultStep ==
  TablesInv /\ NumbersInv /\ RowInv /\ FaithInv /\ ResultInv /\ [LogNext]_vars => ResultInv'
<1>. SUFFICES ASSUME TablesInv, NumbersInv, RowInv, FaithInv, ResultInv, [LogNext]_vars
              PROVE ResultInv'
  OBVIOUS
<1>0. /\ Quiet' => Quiet /\ mishaps' = mishaps /\ boot = "done"
      /\ row.ended => row'.ended
      /\ Idle.stage = "idle"
      /\ game \in GameState /\ log \in Seq(Entries)
  BY QuietBefore, RowStaysEnded DEF TablesInv, Idle
<1>1. /\ job.stage = "write" /\ job.kind = "close" => row.ended
      /\ Quiet =>
           /\ game.finished /\ job.stage # "end" => row.ended /\ row.winner = game.winner
           /\ ~game.finished => row.winner = "none"
           /\ job.stage \in {"end", "finalize"} => game.finished
           /\ job.stage = "write" =>
                /\ job.kind = "close" => ~game.finished /\ job.next.winner = "none"
                /\ job.kind = "act" /\ game.finished => job.next.finished
                /\ job.kind = "revert" => \E g : job.todo = <<Reverted(g)>>
  BY DEF ResultInv
<1>2. ASSUME NEW e \in Requests, Act(e) PROVE ResultInv'
  <2>1. /\ job' = Writing("act", Outcome(game, e), EventsOf(game, e), seq)
        /\ job = Idle /\ Allowed(game, e) /\ UNCHANGED <<game, log, row>>
    BY <1>2 DEF Act, disk
  <2>2. job'.stage = "write" /\ job'.kind = "act" /\ job'.next = Outcome(game, e)
    BY <2>1, WritingFields
  <2>3. game.finished => job'.next.finished BY <1>0, <2>1, <2>2, FinishedStays
  <2>. QED BY <1>0, <1>1, <2>1, <2>2, <2>3 DEF ResultInv
<1>3. CASE JudgeRevert
  <2>. DEFINE prev == Last(history)
  <2>1. /\ job' = Writing("revert", prev.game, <<Reverted(prev.game)>>, Len(log))
        /\ job = Idle /\ UNCHANGED <<game, log, row>>
    BY <1>3 DEF JudgeRevert, SeqForRevert, disk
  <2>. HIDE DEF prev
  <2>2. /\ job'.stage = "write" /\ job'.kind = "revert"
        /\ job'.todo = <<Reverted(prev.game)>>
    BY <2>1, WritingFields
  <2>. QED BY <1>0, <1>1, <2>1, <2>2 DEF ResultInv
<1>4. CASE Persist
  <2>1. /\ job.stage = "write" /\ job.todo # <<>> /\ Head(job.todo) \in Entries
        /\ job' = Writing(job.kind, job.next, Tail(job.todo), job.at + 1)
        /\ log' = Append(log, Head(job.todo)) /\ UNCHANGED <<game, row>>
    BY <1>4, PersistShape
  <2>2. job'.stage = "write" /\ job'.kind = job.kind /\ job'.next = job.next
    BY <2>1, WritingFields
  <2>3. Quiet' => job.kind # "revert"
    <3>1. SUFFICES ASSUME Quiet', job.kind = "revert" PROVE FALSE OBVIOUS
    <3>2. PICK g : job.todo = <<Reverted(g)>> BY <1>0, <1>1, <2>1, <3>1
    <3>3. Head(job.todo) = Reverted(g) BY <3>2
    <3>4. log'[Len(log) + 1] = Reverted(g) /\ Len(log) + 1 \in DOMAIN log'
      BY <1>0, <2>1, <3>3
    <3>5. Reverted(g).type = "REVERTED" BY DEF Reverted
    <3>. QED BY <3>1, <3>4, <3>5 DEF Quiet
  <2>. QED BY <1>0, <1>1, <2>1, <2>2, <2>3 DEF ResultInv
<1>5. CASE Commit
  <2>1. /\ job.stage = "write" /\ job.todo = <<>> /\ game' = job.next
        /\ UNCHANGED <<log, row>>
        /\ job' = IF job.kind = "act" /\ job.next.finished THEN [stage |-> "end"] ELSE Idle
    BY <1>5 DEF Commit, disk
  <2>2. job'.stage = IF job.kind = "act" /\ job.next.finished THEN "end" ELSE "idle"
    BY <1>0, <2>1
  <2>3. job.kind \in {"act", "revert", "close"} BY <2>1, WriterTyped
  <2>4. Quiet => job.kind # "revert"
    <3>1. \A g : <<>> # <<Reverted(g)>> OBVIOUS
    <3>. QED BY <1>1, <2>1, <3>1
  <2>5. ASSUME Quiet'
        PROVE /\ game'.finished /\ job'.stage # "end" => row'.ended /\ row'.winner = game'.winner
              /\ ~game'.finished => row'.winner = "none"
              /\ job'.stage = "end" => game'.finished
    <3>1. Quiet BY <1>0, <2>5
    <3>2. CASE job.kind = "act" BY <1>1, <2>1, <2>2, <3>1, <3>2
    <3>3. CASE job.kind = "close" BY <1>1, <2>1, <2>2, <3>1, <3>3
    <3>. QED BY <2>3, <2>4, <3>1, <3>2, <3>3
  <2>. QED BY <2>2, <2>5 DEF ResultInv
<1>6. CASE EndGame
  <2>1. /\ job.stage = "end" /\ job' = [stage |-> "finalize"] /\ UNCHANGED <<game, log>>
        /\ row' = [row EXCEPT !.ended = TRUE, !.winner = game.winner]
    BY <1>6 DEF EndGame, EndedRow, memory
  <2>2. PICK W : row \in Rows(W) BY DEF RowInv, Sound
  <2>3. row'.ended /\ row'.winner = game.winner BY <2>1, <2>2 DEF Rows
  <2>4. job'.stage = "finalize" BY <2>1
  <2>. QED BY <1>0, <1>1, <2>1, <2>3, <2>4 DEF ResultInv
<1>7. CASE CloseUnderLock
  <2>1. /\ closing = "marked" /\ job = Idle /\ UNCHANGED <<log, row, game>>
        /\ job' = IF up /\ ~game.finished
                  THEN Writing("close", ApplyJudgeEndGame(game), <<GameEnded>>, seq) ELSE Idle
    BY <1>7 DEF CloseUnderLock, disk, memory
  <2>2. CASE job' = Idle BY <1>0, <2>1, <2>2, ResultKept
  <2>3. CASE ~game.finished /\ job' = Writing("close", ApplyJudgeEndGame(game), <<GameEnded>>, seq)
    <3>1. row.ended BY <2>1 DEF FaithInv
    <3>2. job'.stage = "write" /\ job'.kind = "close" /\ job'.next = ApplyJudgeEndGame(game)
      BY <2>3, WritingFields
    <3>3. ApplyJudgeEndGame(game).winner = "none" BY <1>0 DEF ApplyJudgeEndGame, GameState
    <3>. QED BY <1>0, <1>1, <2>1, <2>3, <3>1, <3>2, <3>3 DEF ResultInv
  <2>. QED BY <2>1, <2>2, <2>3
<1>8. CASE MarkEnded
  <2>1. UNCHANGED <<game, log, job>> BY <1>8 DEF MarkEnded, memory
  <2>2. PICK W : row \in Rows(W) BY DEF RowInv, Sound
  <2>3. row'.ended /\ row'.winner = row.winner BY <1>8, <2>2 DEF MarkEnded, Rows
  <2>. QED BY <1>0, <2>1, <2>3, ResultKept
<1>9. CASE BootReplays
  <2>1. boot # "done" /\ UNCHANGED <<row, job>> BY <1>9 DEF BootReplays, disk
  <2>. QED BY <1>0, <1>1, <2>1 DEF ResultInv
<1>10. CASE WriteFails \/ Crash
  <2>1. /\ mishaps' = mishaps + 1 /\ UNCHANGED row
        /\ job' = job \/ job' = Idle
    BY <1>10 DEF WriteFails, Crash, disk
  <2>2. ~Quiet' BY <1>0, <2>1 DEF NumbersInv
  <2>. QED BY <1>0, <1>1, <2>1, <2>2 DEF ResultInv
<1>11. CASE UNCHANGED vars \/ CloseLobby \/ CleanupFires \/ BootReads
  <2>1. UNCHANGED <<game, log, job, row>>
    BY <1>11 DEF vars, disk, memory, service, CloseLobby, CleanupFires, BootReads
  <2>. QED BY <1>0, <2>1, ResultKept
<1>12. CASE PersistCollides \/ ScheduleCleanup
  <2>1. UNCHANGED <<game, log, row>> /\ job' = Idle /\ job.stage # "end"
    BY <1>12 DEF PersistCollides, ScheduleCleanup, disk, memory
  <2>. QED BY <1>0, <2>1, ResultKept
<1>13. ASSUME NEW caller, FinalizeReads(caller) PROVE ResultInv'
  <2>1. UNCHANGED <<game, log, job, row>> BY <1>13 DEF FinalizeReads, disk, memory
  <2>. QED BY <1>0, <2>1, ResultKept
<1>14. ASSUME NEW caller, FinalizeWrites(caller) PROVE ResultInv'
  <2>1. UNCHANGED <<game, log, job>> BY <1>14 DEF FinalizeWrites, memory
  <2>2. PICK W : row \in Rows(W) BY DEF RowInv, Sound
  <2>3. row'.winner = row.winner BY <1>14, <2>2 DEF FinalizeWrites, CountedRow, Rows
  <2>. QED BY <1>0, <2>1, <2>3, ResultKept
<1>. QED
  BY <1>2, <1>3, <1>4, <1>5, <1>6, <1>7, <1>8, <1>9, <1>10, <1>11, <1>12, <1>13, <1>14
  DEF LogNext

\* While nothing has failed and nothing was reverted, the result of a game that is
\* over is on disk by the time its lock is free, with the winner the table shows,
\* whichever of the judge, the verdict and the closing lobby ended it, and however
\* it was changed after the end (internal.ts:125-144, cleanup.ts:77-110).
THEOREM ResultsReachTheDisk == LogSpec => []ResultIsWritten
<1>1. ResultInv => ResultIsWritten
  <2>1. Idle.stage = "idle" BY DEF Idle
  <2>. QED BY <2>1 DEF ResultInv, ResultIsWritten, Quiet, Undisturbed
<1>. QED
  BY <1>1, TablesInit, TablesStep, NumbersInit, NumbersStep, RowInit, RowStep, FaithInit,
     FaithStep, ResultInit, ResultStep, PTL
  DEF LogSpec
=============================================================================
