------------------------------- MODULE GameLog -------------------------------
(***************************************************************************)
(* What surrounds the engine while a game runs: the registry with its      *)
(* snapshots, the event log every action writes before it takes effect,    *)
(* revert, the Game row and the statistics at the end, the lobby being     *)
(* closed meanwhile, a crash and the replay of the log after it.           *)
(*                                                                         *)
(* An action holds the lock over several writes, so it is a job done in    *)
(* steps here; a crash, a failed write, the cleanup timer and the closing  *)
(* of the lobby come between any two of them.                              *)
(***************************************************************************)
EXTENDS GameEngine

CONSTANTS
  Starts,       (* a table and the events it has had when a run starts     *)
  HistoryLimit, (* HISTORY_LIMIT: 10                                       *)
  MaxEvents,    (* bound: events of the log                                *)
  MaxMishaps    (* bound: crashes and failed writes                        *)

ASSUME LogAssumption ==
  /\ \A evening \in Starts : evening.table \in GameState
  /\ HistoryLimit \in Nat \ {0} /\ MaxEvents \in Nat /\ MaxMishaps \in Nat

VARIABLES
  start,      \* the table before the first event of log
  log,        \* GameEvent rows by seq; (gameId, seq) is unique
  up,         \* the registry has the game; it is then the table game
  seq,        \* its nextEventSeq
  history,    \* historyStacks: [game, seq] before each step of the judge and
              \* each nomination he withdrew
  job,        \* the action that holds the lock
  row,        \* the Game row: endedAt, winnerTeam, statsApplied; and how
              \* often the players' counters were raised
  finalizing, \* finalizeGameStats, called by commit or by the closing lobby
  closing,    \* endActiveGameForLobby
  cleanup,    \* cleanupTimers has a timer for the game
  boot,       \* recoverActiveGames
  mishaps

disk == <<log, row>>
memory == <<game, up, seq, history, cleanup>>
service == <<job, finalizing, closing, boot>>
vars == <<start, disk, memory, service, mishaps>>

-----------------------------------------------------------------------------
(* Events, and what they do to a table.                                    *)

Event(type, s, x) == [type |-> type, seat |-> s, arg |-> x]
PhaseChanged == Event("PHASE_CHANGED", NoSeat, NoSeat)
SpeakerAdvanced == Event("SPEAKER_ADVANCED", NoSeat, NoSeat)
GameEnded == Event("GAME_ENDED", NoSeat, NoSeat)
JudgeLeft == Event("JUDGE_LEFT", NoSeat, NoSeat)  \* GAME_ENDED, reason judge_left
Reverted(g) == [type |-> "REVERTED", snapshot |-> g]

\* What can be asked of a table. FOUL_ISSUED is also the player's own foul, whose
\* guard is narrower.
Requests ==
  {PhaseChanged, SpeakerAdvanced, JudgeLeft}
    \cup {Event(type, s, NoSeat) : s \in Seats, type \in
           {"PLAYER_NOMINATED", "PLAYER_UNNOMINATED", "FOUL_ISSUED", "FOUL_REVOKED",
            "PLAYER_REMOVED", "LIFTED", "NOT_LIFTED"}}
    \cup {Event(type, s, t) : s, t \in Seats, type \in
           {"PLAYER_VOTED", "MAFIA_TARGETED", "DON_CHECKED", "SHERIFF_CHECKED",
            "BEST_MOVE_GUESSED"}}
    \cup {Event("ROLE_CARD_PICKED", s, c) : s \in Seats, c \in Cards}

ASSUME StartAssumption == \A evening \in Starts : evening.log \in Seq(Requests \cup {GameEnded})

PlayersOwn ==
  {"LIFTED", "NOT_LIFTED", "PLAYER_VOTED", "MAFIA_TARGETED", "DON_CHECKED",
   "SHERIFF_CHECKED", "BEST_MOVE_GUESSED", "ROLE_CARD_PICKED"}

Allowed(g, e) ==
  CASE e.type = "PLAYER_NOMINATED" -> CanNominate(g, e.seat)
    [] e.type = "PLAYER_UNNOMINATED" -> CanUnnominate(g, e.seat)
    [] e.type = "FOUL_ISSUED" -> CanFoul(g, e.seat)
    [] e.type = "FOUL_REVOKED" -> CanUnfoul(g, e.seat)
    [] e.type \in {"LIFTED", "NOT_LIFTED"} -> CanLiftAllVote(g, e.seat)
    [] e.type = "BEST_MOVE_GUESSED" -> CanGuess(g, e.seat, {e.arg})
    [] e.type = "PLAYER_VOTED" -> CanCastVote(g, e.seat, e.arg)
    [] e.type = "MAFIA_TARGETED" -> CanTarget(g, e.seat, e.arg)
    [] e.type = "DON_CHECKED" -> CanDonCheck(g, e.seat, e.arg)
    [] e.type = "SHERIFF_CHECKED" -> CanSheriffCheck(g, e.seat, e.arg)
    [] e.type = "ROLE_CARD_PICKED" -> CanPickCard(g, e.seat, e.arg)
    [] OTHER -> TRUE

Applied(g, e) ==
  CASE e.type = "PHASE_CHANGED" -> ApplyAdvancePhase(g)
    [] e.type = "SPEAKER_ADVANCED" -> ApplyNextSpeaker(g)
    [] e.type = "JUDGE_LEFT" -> ApplyJudgeEndGame(g)
    [] e.type = "PLAYER_NOMINATED" -> ApplyNominate(g, e.seat)
    [] e.type = "PLAYER_UNNOMINATED" -> ApplyJudgeUnnominate(g, e.seat)
    [] e.type = "FOUL_ISSUED" -> ApplyJudgeFoul(g, e.seat)
    [] e.type = "FOUL_REVOKED" -> ApplyJudgeUnfoul(g, e.seat)
    [] e.type = "PLAYER_REMOVED" -> ApplyJudgeRemove(g, e.seat)
    [] e.type = "LIFTED" -> ApplyLiftAllVote(g, e.seat, "yes")
    [] e.type = "NOT_LIFTED" -> ApplyLiftAllVote(g, e.seat, "no")
    [] e.type = "BEST_MOVE_GUESSED" -> ApplyBestMoveGuess(g, e.seat)
    [] e.type = "PLAYER_VOTED" -> ApplyCastVote(g, e.seat, e.arg)
    [] e.type = "MAFIA_TARGETED" -> ApplyMafiaTarget(g, e.seat, e.arg)
    [] e.type = "DON_CHECKED" -> ApplyDonCheck(g, e.seat)
    [] e.type = "SHERIFF_CHECKED" -> ApplySheriffCheck(g, e.seat)
    [] e.type = "ROLE_CARD_PICKED" -> ApplyRoleCardPick(g, e.seat, e.arg)

\* judgeAdvanceSpeaker also leaves the phase once the speeches are done.
Outcome(g, e) ==
  IF e = SpeakerAdvanced /\ SpeechesDone(g) THEN ApplyAdvancePhase(Applied(g, e))
                                            ELSE Applied(g, e)

EventsOf(g, e) ==
  IF e = SpeakerAdvanced /\ SpeechesDone(g) THEN <<e, PhaseChanged>>
  ELSE IF e.type \in {"PHASE_CHANGED", "PLAYER_REMOVED"} /\ Outcome(g, e).finished
       THEN <<e, GameEnded>> ELSE <<e>>

\* Replay does nothing for these; GAME_ENDED follows the event that ended the game.
Forgotten == {"PLAYER_UNNOMINATED", "FOUL_REVOKED", "JUDGE_LEFT"}
Ignored == Forgotten \cup {"GAME_ENDED"}

\* Mutant: replay has no case for REVERTED.
ApplyEvent_NoRevert(g, e) ==
  IF e.type \in Ignored \cup {"REVERTED"} THEN g
  ELSE IF Allowed(g, e) THEN Applied(g, e) ELSE g

\* The snapshot carries the whole table except its status: back "in_progress".
RestoreFromSnapshot(g) == [g EXCEPT !.finished = FALSE]

ApplyEvent(g, e) ==
  IF e.type = "REVERTED" THEN RestoreFromSnapshot(e.snapshot)
  ELSE IF e.type \in Ignored THEN g
  ELSE IF Allowed(g, e) THEN Applied(g, e) ELSE g

\* replayState: one event after another.
Replay(from, events) ==
  LET after[i \in 0..Len(events)] ==
        IF i = 0 THEN from ELSE ApplyEvent(after[i - 1], events[i])
  IN after[Len(events)]

Replayed == Replay(start, log)

\* A stretch starts while the game runs.
ASSUME RunningAssumption ==
  \A evening \in Starts : ~Replay(evening.table, evening.log).finished

-----------------------------------------------------------------------------
(* An action under the lock.                                               *)

Idle == [stage |-> "idle"]

\* kind: "act" goes through commit, "revert" and "close" through setGame.
Writing(kind, next, events, at) ==
  [stage |-> "write", kind |-> kind, next |-> next, todo |-> events, at |-> at]

LogInit ==
  /\ \E evening \in Starts : start = evening.table /\ log = evening.log
  /\ game = Replayed /\ up = TRUE /\ seq = Len(log) /\ history = <<>> /\ cleanup = FALSE
  /\ job = Idle /\ closing = "no" /\ boot = "done" /\ mishaps = 0
  /\ finalizing = [caller \in {"commit", "closing"} |-> "none"]
  /\ row = [ended |-> FALSE, winner |-> "none", applied |-> FALSE, counted |-> 0]

LastFew(stack) ==
  IF Len(stack) > HistoryLimit THEN Tail(stack) ELSE stack

\* What the judge can take back: pushHistorySnapshot, after the guard and before
\* the first write, whatever becomes of it.
LeavesSnapshot(e) ==
  e \in {PhaseChanged, SpeakerAdvanced} \/ e.type = "PLAYER_UNNOMINATED"

\* Every action of GameEngine.
Act(e) ==
  /\ up /\ job = Idle /\ Allowed(game, e)
  /\ e.type \in PlayersOwn => e.seat \notin game.removed
  /\ Len(log) + Len(EventsOf(game, e)) <= MaxEvents
  /\ job' = Writing("act", Outcome(game, e), EventsOf(game, e), seq)
  /\ history' = IF LeavesSnapshot(e)
                THEN LastFew(Append(history, [game |-> game, seq |-> seq])) ELSE history
  /\ UNCHANGED <<start, disk, game, up, seq, cleanup, finalizing, closing, boot, mishaps>>

\* Mutant: the number that was current when the snapshot was taken.
SeqForRevert_Stale(snapshot) == snapshot.seq

\* The number after the last one in the database.
SeqForRevert(snapshot) == Len(log)

JudgeRevert ==
  /\ up /\ job = Idle /\ history # <<>> /\ Len(log) < MaxEvents
  /\ LET prev == Last(history)
     IN job' = Writing("revert", prev.game, <<Reverted(prev.game)>>, SeqForRevert(prev))
  /\ history' = Front(history)
  /\ UNCHANGED <<start, disk, game, up, seq, cleanup, finalizing, closing, boot, mishaps>>

\* persistEvent.
Persist ==
  /\ job.stage = "write" /\ job.todo # <<>> /\ job.at = Len(log)
  /\ log' = Append(log, Head(job.todo))
  /\ job' = [job EXCEPT !.todo = Tail(@), !.at = @ + 1]
  /\ UNCHANGED <<start, row, memory, finalizing, closing, boot, mishaps>>

\* The number is taken: the request fails, and has changed nothing in memory.
PersistCollides ==
  /\ job.stage = "write" /\ job.todo # <<>> /\ job.at < Len(log)
  /\ job' = Idle
  /\ UNCHANGED <<start, disk, memory, finalizing, closing, boot, mishaps>>

\* setGame: the table takes effect, and a finished one is to be closed.
Commit ==
  /\ job.stage = "write" /\ job.todo = <<>>
  /\ game' = job.next /\ up' = TRUE /\ seq' = job.at
  /\ job' = IF job.kind = "act" /\ job.next.finished THEN [stage |-> "end"] ELSE Idle
  /\ cleanup' = (cleanup \/ job.kind = "close")
  /\ UNCHANGED <<start, disk, history, finalizing, closing, boot, mishaps>>

\* Mutant: a row that has ended already keeps its winner.
EndedRow_FirstWins == IF row.ended THEN row
                      ELSE [row EXCEPT !.ended = TRUE, !.winner = game.winner]

EndedRow == [row EXCEPT !.ended = TRUE, !.winner = game.winner]

EndGame ==
  /\ job.stage = "end"
  /\ row' = EndedRow /\ job' = [stage |-> "finalize"]
  /\ finalizing' = [finalizing EXCEPT !["commit"] = "reading"]
  /\ UNCHANGED <<start, log, memory, closing, boot, mishaps>>

ScheduleCleanup ==
  /\ job.stage = "finalize" /\ finalizing["commit"] = "none"
  /\ job' = Idle /\ cleanup' = TRUE
  /\ UNCHANGED <<start, disk, game, up, seq, history, finalizing, closing, boot, mishaps>>

-----------------------------------------------------------------------------
(* finalizeGameStats: one read, then one transaction.                      *)

FinalizeReads(caller) ==
  /\ finalizing[caller] = "reading"
  /\ finalizing' = [finalizing EXCEPT ![caller] =
       IF row.applied \/ ~row.ended THEN "none"
       ELSE IF row.winner = "none" THEN "skipping" ELSE "counting"]
  /\ UNCHANGED <<start, disk, memory, job, closing, boot, mishaps>>

\* Mutant: the flag is not looked at again in the transaction.
CountedRow_Unguarded == [row EXCEPT !.applied = TRUE, !.counted = @ + 1]

\* The transaction counts only if it is the one to raise the flag.
CountedRow == IF row.applied THEN row
              ELSE [row EXCEPT !.applied = TRUE, !.counted = @ + 1]

FinalizeWrites(caller) ==
  /\ finalizing[caller] \in {"skipping", "counting"}
  /\ row' = IF finalizing[caller] = "counting" THEN CountedRow
            ELSE [row EXCEPT !.applied = TRUE]
  /\ finalizing' = [finalizing EXCEPT ![caller] = "none"]
  /\ UNCHANGED <<start, log, memory, job, closing, boot, mishaps>>

-----------------------------------------------------------------------------
(* The lobby is closed: endActiveGameForLobby, once.                       *)

CloseLobby ==
  /\ closing = "no" /\ ~row.ended
  /\ closing' = "found"
  /\ UNCHANGED <<start, disk, memory, job, finalizing, boot, mishaps>>

\* The sweeper of abandoned games leaves the statistics alone.
MarkEnded ==
  /\ closing = "found" /\ closing' = "marked"
  /\ row' = [row EXCEPT !.ended = TRUE]
  /\ \E step \in {"reading", "none"} :
       finalizing' = [finalizing EXCEPT !["closing"] = step]
  /\ UNCHANGED <<start, log, memory, job, boot, mishaps>>

CloseUnderLock ==
  /\ closing = "marked" /\ finalizing["closing"] = "none" /\ job = Idle
  /\ closing' = "over"
  /\ job' = IF up /\ ~game.finished
            THEN Writing("close", ApplyJudgeEndGame(game), <<GameEnded>>, seq) ELSE Idle
  /\ UNCHANGED <<start, disk, memory, finalizing, boot, mishaps>>

-----------------------------------------------------------------------------
(* What nobody asked for.                                                  *)

\* Ten minutes after the end, whatever has happened to the game since.
CleanupFires ==
  /\ cleanup /\ cleanup' = FALSE
  /\ up' = FALSE /\ history' = <<>>
  /\ UNCHANGED <<start, disk, game, seq, service, mishaps>>

\* A write or a transaction fails and the request with it.
WriteFails ==
  /\ mishaps < MaxMishaps /\ mishaps' = mishaps + 1
  /\ \/ /\ job # Idle /\ ~(job.stage = "write" /\ job.todo = <<>>)
        /\ job' = Idle /\ UNCHANGED closing
        /\ finalizing' = [finalizing EXCEPT !["commit"] = "none"]
     \/ /\ closing \in {"found", "marked"} /\ closing' = "over"
        /\ closing = "found" \/ finalizing["closing"] # "none"
        /\ finalizing' = [finalizing EXCEPT !["closing"] = "none"] /\ UNCHANGED job
  /\ UNCHANGED <<start, disk, memory, boot>>

Crash ==
  /\ mishaps < MaxMishaps /\ mishaps' = mishaps + 1
  /\ up' = FALSE /\ history' = <<>> /\ cleanup' = FALSE
  /\ job' = Idle /\ boot' = "reading"
  /\ finalizing' = [caller \in DOMAIN finalizing |-> "none"]
  /\ closing' = IF closing = "no" THEN "no" ELSE "over"
  /\ UNCHANGED <<start, disk, game, seq>>

\* recoverActiveGames lists the games that have not ended, ...
BootReads ==
  /\ boot = "reading" /\ boot' = IF row.ended THEN "done" ELSE "replaying"
  /\ UNCHANGED <<start, disk, memory, job, finalizing, closing, mishaps>>

\* ... then reads and replays their events.
BootReplays ==
  /\ boot = "replaying" /\ boot' = "done"
  /\ IF Replayed.finished THEN UNCHANGED <<game, up, seq>>
     ELSE game' = Replayed /\ up' = TRUE /\ seq' = Len(log)
  /\ UNCHANGED <<start, disk, history, cleanup, job, finalizing, closing, mishaps>>

LogNext ==
  \/ \E e \in Requests : Act(e)
  \/ JudgeRevert \/ Persist \/ PersistCollides \/ Commit \/ EndGame \/ ScheduleCleanup
  \/ \E caller \in DOMAIN finalizing : FinalizeReads(caller) \/ FinalizeWrites(caller)
  \/ CloseLobby \/ MarkEnded \/ CloseUnderLock
  \/ CleanupFires \/ WriteFails \/ Crash \/ BootReads \/ BootReplays

LogSpec == LogInit /\ [][LogNext]_vars

-----------------------------------------------------------------------------

\* The events that replay applies on top of the last revert, if any.
SinceRevert ==
  {i \in DOMAIN log : \A j \in DOMAIN log : log[j].type = "REVERTED" => j < i}

\* Nothing since the last revert is forgotten by replay.
Replayable ==
  /\ \A i \in SinceRevert : log[i].type \notin Forgotten
  /\ \A i \in DOMAIN log : log[i].type = "REVERTED" => ~log[i].snapshot.finished

\* A game a restart would bring back, while nobody writes.
CrashNow == up /\ ~row.ended /\ job.stage \in {"idle", "end"}

\* A crash now would bring back the very table that is being played, whatever
\* was reverted, restarted or failed before (recovery.ts:6-10), as long as replay
\* has a case for the events.  If the second write of an action has failed, the
\* log is that one first event ahead of the table, and never more: what is asked
\* next finds its number taken, and the crash would bring back the first half of
\* the action (actions.ts:170-182, 206-223).
ReplayIsFaithful ==
  CrashNow /\ Replayable =>
    IF seq = Len(log) THEN Replayed = game
    ELSE seq + 1 = Len(log) /\ Replayed = ApplyEvent(game, Last(log))

\* Without a failed write no action ever finds its number taken, and a revert
\* never does: it is the way out of the collision a failure leaves behind
\* (actions.ts:260-271; cleanup.ts:99-102).
NoCollision ==
  job.stage = "write" /\ job.todo # <<>> /\ (mishaps = 0 \/ job.kind = "revert") =>
    job.at = Len(log)

\* The players' counters are raised at most once, whoever finalizes the game
\* how often and at the same time (stats.ts:4-7).
StatsCountedOnce == row.counted <= 1

\* A game that is over in memory is over on disk, with the same winner, also
\* when the table is changed after the end or the lobby is closed meanwhile:
\* as long as nothing failed and nothing was reverted (commit, internal.ts:125-144).
ResultIsWritten ==
  /\ up /\ job = Idle /\ game.finished
  /\ mishaps = 0 /\ \A i \in DOMAIN log : log[i].type # "REVERTED"
  => row.ended /\ row.winner = game.winner

\* recovery.ts:6-10: "every state-changing action of every game has been
\* persisted" and is replayed "through the same engine functions", "landing the
\* in-memory state where the crash interrupted it".
LogIsEnough == CrashNow /\ seq = Len(log) => Replayed = game
=============================================================================
