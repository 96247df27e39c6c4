-------------------------------- MODULE Mutex --------------------------------
(***************************************************************************)
(* withLock (lib/mutex.ts): tasks of one key run one after another, in the *)
(* order they were asked for.  There is no queue in the code, only a chain *)
(* of promises and, per key, the chain's tail.                             *)
(*                                                                         *)
(* The calls are numbered in the order they are made; a call's promise and *)
(* its task go by its number.  Microtasks may run in any order here.       *)
(***************************************************************************)
EXTENDS Naturals

CONSTANTS
  Keys,      (* the games                                                  *)
  MaxCalls   (* bound: calls of withLock altogether                        *)

ASSUME MutexAssumption == MaxCalls \in Nat

Calls == 1..MaxCalls
NoCall == 0
CallOrNone == Calls \cup {NoCall}

VARIABLES
  made,      \* calls made so far
  key,
  previous,  \* the promise a call was chained to; NoCall is Promise.resolve()
  promise,   \* what became of a call's own promise
  returned,  \* calls whose withLock is over
  tail       \* queues: the last promise of a key's chain, or no entry

vars == <<made, key, previous, promise, returned, tail>>

Settled == {"resolved", "rejected"}

Init ==
  /\ made = 0 /\ returned = {}
  /\ key \in [Calls -> Keys]       \* a call's key counts once it is made
  /\ previous = [c \in Calls |-> NoCall]
  /\ promise = [c \in Calls |-> "none"]
  /\ tail = [k \in Keys |-> NoCall]

-----------------------------------------------------------------------------

\* The synchronous part: append to the chain.
WithLock(c) ==
  /\ c = made + 1
  /\ made' = c
  /\ previous' = [previous EXCEPT ![c] = tail[key[c]]]
  /\ promise' = [promise EXCEPT ![c] = "queued"]
  /\ tail' = [tail EXCEPT ![key[c]] = c]
  /\ UNCHANGED <<key, returned>>

\* Mutant: previous.then(task) only, so a failed task breaks the chain.
Ready_Resolved(c) == previous[c] # NoCall => promise[previous[c]] = "resolved"

\* previous.then(task, task)
Ready(c) == previous[c] # NoCall => promise[previous[c]] \in Settled

Begin(c) ==
  /\ promise[c] = "queued" /\ Ready(c)
  /\ promise' = [promise EXCEPT ![c] = "running"]
  /\ UNCHANGED <<made, key, previous, returned, tail>>

\* The task is over, or it threw.
Settle(c) ==
  /\ promise[c] = "running"
  /\ \E outcome \in Settled : promise' = [promise EXCEPT ![c] = outcome]
  /\ UNCHANGED <<made, key, previous, returned, tail>>

\* Mutant: the entry is dropped without looking whose it is.
Tail_Dropped(c) == TRUE

\* Mutant: the entry is kept.
Tail_Kept(c) == FALSE

IsTail(c) == tail[key[c]] = c

\* The finally block.
Return(c) ==
  /\ promise[c] \in Settled /\ c \notin returned
  /\ returned' = returned \cup {c}
  /\ tail' = IF IsTail(c) THEN [tail EXCEPT ![key[c]] = NoCall] ELSE tail
  /\ UNCHANGED <<made, key, previous, promise>>

Next == \E c \in Calls : WithLock(c) \/ Begin(c) \/ Settle(c) \/ Return(c)

\* Promises are kept by the runtime, and every task ends.
Spec ==
  /\ Init /\ [][Next]_vars
  /\ \A c \in Calls : WF_vars(Begin(c)) /\ WF_vars(Settle(c)) /\ WF_vars(Return(c))

-----------------------------------------------------------------------------

\* Every variable has its type.
TypeOK ==
  /\ made \in 0..MaxCalls /\ returned \subseteq Calls
  /\ key \in [Calls -> Keys] /\ previous \in [Calls -> CallOrNone]
  /\ promise \in [Calls -> {"none", "queued", "running"} \cup Settled]
  /\ tail \in [Keys -> CallOrNone]

\* c came before d, for the same key.
Before(c, d) == c < d /\ key[c] = key[d]

\* Once a task has started, every earlier task of its key is over: one at a
\* time and in order, also when a call arrives while the entry of the last
\* one is being dropped, or after a task that threw (mutex.ts:13-26).
InOrder ==
  \A d \in Calls : promise[d] \notin {"none", "queued"} =>
    \A c \in Calls : Before(c, d) => promise[c] \in Settled

\* An entry of the map is the promise of a call that has yet to return: with
\* everybody gone, nothing leaks (mutex.ts:21-24).
NoLeak == \A k \in Keys : tail[k] # NoCall => tail[k] \notin returned

\* Whatever happens to the tasks before it, a call returns (mutex.ts:16).
EveryCallReturns == \A c \in Calls : promise[c] = "queued" ~> c \in returned
=============================================================================
