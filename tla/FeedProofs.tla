------------------------------ MODULE FeedProofs ------------------------------
(***************************************************************************)
(* withLock runs the tasks of a key in order and leaks no entry, for any   *)
(* number of calls and keys.  InOrder follows by itself along one link of  *)
(* the chain; what has to be known is that the links skip nobody, and that *)
(* a missing entry means nobody is left to wait for.                       *)
(*                                                                         *)
(* Around it, for any browsers, games and lost connections: screens only   *)
(* go forward, and a click acts on the game of its page.  That is about    *)
(* what is on the way: the tables sent to a browser are in order, and no   *)
(* click arrives before the join of the page it was made on.               *)
(***************************************************************************)
EXTENDS Feed, TLAPS

Over(c) == promise[c] \in Settled

\* Calls are made in the order of their numbers; only what is over returns.
Numbered ==
  /\ \A c \in Calls : promise[c] = "none" <=> c > made
  /\ \A c \in returned : Over(c)

\* An entry is the latest call of its key; no entry, nothing unfinished.
TailIsLatest ==
  \A c \in Calls : promise[c] # "none" =>
    IF tail[key[c]] = NoCall THEN Over(c) ELSE c <= tail[key[c]]

TailIsOfKey ==
  \A k \in Keys : tail[k] # NoCall => tail[k] <= made /\ key[tail[k]] = k

\* A call is chained to the one before it, or nothing before it is unfinished.
ChainSkipsNobody ==
  \A c, d \in Calls : Before(d, c) /\ promise[c] # "none" =>
    IF previous[c] = NoCall THEN Over(d) ELSE d <= previous[c]

ChainStaysInKey ==
  \A c \in Calls : promise[c] # "none" /\ previous[c] # NoCall => Before(previous[c], c)

IInv ==
  /\ TypeOK /\ Numbered /\ TailIsLatest /\ TailIsOfKey
  /\ ChainSkipsNobody /\ ChainStaysInKey /\ InOrder /\ NoLeak

-----------------------------------------------------------------------------

LEMMA InitIInv == Init => IInv
BY MutexAssumption
DEF Init, IInv, TypeOK, Numbered, TailIsLatest, TailIsOfKey, ChainSkipsNobody,
    ChainStaysInKey, InOrder, NoLeak, Calls, NoCall, CallOrNone, Settled, Over

\* A new call goes to the end of its key's chain.
LEMMA WithLockKeeps == ASSUME IInv, NEW c \in Calls, WithLock(c) PROVE IInv'
<1>. USE MutexAssumption DEF Calls, NoCall, CallOrNone, Settled, Over, Before
<1>1. TypeOK' BY DEF IInv, TypeOK, WithLock
<1>2. /\ c = made + 1 /\ promise[c] = "none" /\ c \notin returned
      /\ \A d \in Calls : d # c => promise'[d] = promise[d] /\ previous'[d] = previous[d]
      /\ promise'[c] = "queued" /\ previous'[c] = tail[key[c]]
      /\ \A k \in Keys : tail'[k] = IF k = key[c] THEN c ELSE tail[k]
      /\ made' = c /\ key' = key /\ returned' = returned /\ key[c] \in Keys
  BY DEF IInv, TypeOK, Numbered, WithLock
<1>3. Numbered' BY <1>1, <1>2 DEF IInv, TypeOK, Numbered
<1>4. TailIsLatest'
  <2>. SUFFICES ASSUME NEW d \in Calls, promise'[d] # "none"
                PROVE IF tail'[key[d]] = NoCall THEN Over(d)' ELSE d <= tail'[key[d]]
    BY <1>2 DEF TailIsLatest
  <2>1. key[d] \in Keys /\ made \in Nat BY DEF IInv, TypeOK
  <2>2. CASE key[d] = key[c]
    <3>1. tail'[key[d]] = c /\ c # NoCall BY <1>2, <2>1, <2>2
    <3>2. d <= c BY <1>2, <2>1 DEF IInv, Numbered
    <3>. QED BY <3>1, <3>2
  <2>3. CASE key[d] # key[c]
    <3>1. d # c /\ tail'[key[d]] = tail[key[d]] BY <1>2, <2>1, <2>3
    <3>2. promise'[d] = promise[d] BY <1>2, <3>1
    <3>. QED BY <3>1, <3>2 DEF IInv, TailIsLatest
  <2>. QED BY <2>2, <2>3
<1>5. TailIsOfKey' BY <1>1, <1>2 DEF IInv, TypeOK, TailIsOfKey
<1>6. ChainSkipsNobody'
  BY <1>1, <1>2 DEF IInv, TypeOK, Numbered, TailIsLatest, ChainSkipsNobody
<1>7. ChainStaysInKey' BY <1>1, <1>2 DEF IInv, TypeOK, TailIsOfKey, ChainStaysInKey
<1>8. InOrder' BY <1>1, <1>2 DEF IInv, TypeOK, Numbered, InOrder
<1>9. NoLeak' BY <1>1, <1>2 DEF IInv, TypeOK, NoLeak
<1>. QED BY <1>1, <1>3, <1>4, <1>5, <1>6, <1>7, <1>8, <1>9 DEF IInv

\* A task starts when the promise before it is settled, and so are, along the
\* chain, all before that.
LEMMA BeginKeeps == ASSUME IInv, NEW c \in Calls, Begin(c) PROVE IInv'
<1>. USE MutexAssumption DEF Calls, NoCall, CallOrNone, Settled, Over, Before
<1>1. TypeOK' BY DEF IInv, TypeOK, Begin
<1>2. /\ promise[c] = "queued" /\ promise'[c] = "running"
      /\ \A d \in Calls : d # c => promise'[d] = promise[d]
      /\ previous[c] # NoCall => promise[previous[c]] \in Settled
      /\ UNCHANGED <<made, key, previous, returned, tail>>
  BY DEF IInv, TypeOK, Begin, Ready
<1>3. \A d \in Calls : Before(d, c) => Over(d)
  <2>. TAKE d \in Calls
  <2>. HAVE Before(d, c)
  <2>1. CASE previous[c] = NoCall BY <1>2, <2>1 DEF IInv, ChainSkipsNobody
  <2>2. CASE previous[c] # NoCall
    <3>1. previous[c] \in Calls /\ Before(previous[c], c) /\ d <= previous[c]
      BY <1>2, <2>2 DEF IInv, TypeOK, ChainSkipsNobody, ChainStaysInKey
    <3>. QED BY <1>2, <2>2, <3>1 DEF IInv, TypeOK, InOrder
  <2>. QED BY <2>1, <2>2
<1>4. InOrder' BY <1>1, <1>2, <1>3 DEF IInv, TypeOK, InOrder
<1>5. Numbered' /\ TailIsLatest' /\ TailIsOfKey'
  BY <1>1, <1>2 DEF IInv, TypeOK, Numbered, TailIsLatest, TailIsOfKey
<1>6. ChainSkipsNobody' /\ ChainStaysInKey' /\ NoLeak'
  BY <1>1, <1>2 DEF IInv, TypeOK, ChainSkipsNobody, ChainStaysInKey, NoLeak
<1>. QED BY <1>1, <1>4, <1>5, <1>6 DEF IInv

\* What is over stays over.
LEMMA SettleKeeps == ASSUME IInv, NEW c \in Calls, Settle(c) PROVE IInv'
<1>. USE MutexAssumption DEF Calls, NoCall, CallOrNone, Settled, Over, Before
<1>1. TypeOK' BY DEF IInv, TypeOK, Settle
<1>2. /\ promise[c] = "running" /\ promise'[c] \in Settled
      /\ \A d \in Calls : d # c => promise'[d] = promise[d]
      /\ UNCHANGED <<made, key, previous, returned, tail>>
  BY DEF IInv, TypeOK, Settle
<1>3. Numbered' /\ TailIsLatest' /\ TailIsOfKey'
  BY <1>1, <1>2 DEF IInv, TypeOK, Numbered, TailIsLatest, TailIsOfKey
<1>4. ChainSkipsNobody' /\ ChainStaysInKey' /\ NoLeak'
  BY <1>1, <1>2 DEF IInv, TypeOK, ChainSkipsNobody, ChainStaysInKey, NoLeak
<1>5. InOrder' BY <1>1, <1>2 DEF IInv, TypeOK, InOrder
<1>. QED BY <1>1, <1>3, <1>4, <1>5 DEF IInv

\* The entry goes only with the latest call, and then everything is over.
LEMMA ReturnKeeps == ASSUME IInv, NEW c \in Calls, Return(c) PROVE IInv'
<1>. USE MutexAssumption DEF Calls, NoCall, CallOrNone, Settled, Over, Before
<1>1. TypeOK' BY DEF IInv, TypeOK, Return
<1>2. /\ Over(c) /\ returned' = returned \cup {c}
      /\ \A k \in Keys : tail'[k] = IF k = key[c] /\ tail[k] = c THEN NoCall ELSE tail[k]
      /\ UNCHANGED <<made, key, previous, promise>>
  BY DEF IInv, TypeOK, Return, IsTail
<1>3. ASSUME tail[key[c]] = c, NEW d \in Calls, key[d] = key[c], promise[d] # "none"
      PROVE Over(d)
  BY <1>2, <1>3 DEF IInv, TypeOK, TailIsLatest, InOrder
<1>4. TailIsLatest' BY <1>1, <1>2, <1>3 DEF IInv, TypeOK, TailIsLatest
<1>5. Numbered' /\ TailIsOfKey' /\ NoLeak'
  BY <1>1, <1>2 DEF IInv, TypeOK, Numbered, TailIsOfKey, NoLeak
<1>6. ChainSkipsNobody' /\ ChainStaysInKey' /\ InOrder'
  BY <1>1, <1>2 DEF IInv, TypeOK, ChainSkipsNobody, ChainStaysInKey, InOrder
<1>. QED BY <1>1, <1>4, <1>5, <1>6 DEF IInv

LEMMA StutterKeeps == IInv /\ UNCHANGED vars => IInv'
BY DEF vars, IInv, TypeOK, Numbered, TailIsLatest, TailIsOfKey, ChainSkipsNobody,
       ChainStaysInKey, InOrder, NoLeak, Over, Before

LEMMA Inductive == Spec => []IInv
<1>1. IInv /\ [Next]_vars => IInv'
  BY WithLockKeeps, BeginKeeps, SettleKeeps, ReturnKeeps, StutterKeeps DEF Next
<1>. QED BY InitIInv, <1>1, PTL DEF Spec

\* One task of a key at a time, in the order of the calls, whatever throws and
\* however the microtasks fall (mutex.ts:13-26).
THEOREM LockIsInOrder == Spec => []InOrder
<1>1. IInv => InOrder BY DEF IInv
<1>. QED BY Inductive, <1>1, PTL

\* The map holds no entry of a key whose calls have all returned.
THEOREM LockLeaksNothing == Spec => []NoLeak
<1>1. IInv => NoLeak BY DEF IInv
<1>. QED BY Inductive, <1>1, PTL

-----------------------------------------------------------------------------
(* The table on its way to the screens.                                    *)

Shown == Keys \X Nat
Clicks == [what : {"click"}, page : Keys, shown : Keys, live : BOOLEAN]
Joins == [what : {"join"}, page : Keys]

FeedTypes ==
  /\ revision \in [Keys -> Nat] /\ known \subseteq Keys
  /\ link \in [Clients -> {"up", "down"}] /\ rooms \in [Clients -> SUBSET Keys]
  /\ toServer \in [Clients -> Seq(Clicks \cup Joins)]
  /\ toClient \in [Clients -> Seq(Shown \cup {Refused})]
  /\ kept \in [Clients -> Seq({m \in Clicks : ~m.live})]
  /\ page \in [Clients -> Keys \cup {NoPage}]
  /\ screen \in [Clients -> Shown \cup {Nothing}]
  /\ failed \in [Clients -> BOOLEAN]
  /\ origin \in [Calls -> Clicks \cup [what : {"server", "lobby"}]]

LEMMA NoScreen == Refused \notin Shown /\ Nothing \notin Shown /\ Refused # Nothing
BY DEF Refused, Nothing, Shown

LEMMA TypesInit == FeedInit => FeedTypes
BY DEF FeedInit, FeedTypes, ByItself, NoPage, Nothing

LEMMA SomeMessages ==
  ASSUME FeedTypes, NEW b \in Clients
  PROVE /\ \A g \in Keys : Join(g) \in Joins /\ Table(g) \in Shown
        /\ page[b] # NoPage /\ screen[b] # Nothing => Clicked(b) \in Clicks
        /\ link[b] = "down" => ~Clicked(b).live
<1>1. \A g \in Keys : Join(g) \in Joins /\ Table(g) \in Shown
  BY DEF Join, Joins, Table, Shown, FeedTypes
<1>2. ASSUME page[b] # NoPage, screen[b] # Nothing PROVE Clicked(b) \in Clicks
  <2>1. page[b] \in Keys /\ screen[b] \in Shown BY <1>2 DEF FeedTypes
  <2>2. screen[b][1] \in Keys BY <2>1 DEF Shown
  <2>. QED BY <2>1, <2>2 DEF Clicked, Clicks
<1>3. link[b] = "down" => ~Clicked(b).live BY DEF Clicked
<1>. QED BY <1>1, <1>2, <1>3

LEMMA TypesOpen ==
  ASSUME FeedTypes, NEW b \in Clients, NEW g \in Keys, OpenPage(b, g) PROVE FeedTypes'
<1>1. JoinsOnMount(b, g) \in Seq(Clicks \cup Joins)
  BY SomeMessages DEF JoinsOnMount, FeedTypes
<1>. QED BY <1>1 DEF OpenPage, FeedTypes, lockVars, serverVars

LEMMA TypesClose ==
  ASSUME FeedTypes, NEW b \in Clients, ClosePage(b) PROVE FeedTypes'
BY DEF ClosePage, FeedTypes, lockVars, serverVars, wireVars

LEMMA TypesConnects ==
  ASSUME FeedTypes, NEW b \in Clients, Connects(b) PROVE FeedTypes'
<1>1. page[b] \in Keys BY DEF Connects, FeedTypes
<1>2. kept[b] \in Seq(Clicks \cup Joins)
  <2>1. kept[b] \in Seq({m \in Clicks : ~m.live}) BY DEF FeedTypes
  <2>2. {m \in Clicks : ~m.live} \subseteq Clicks \cup Joins OBVIOUS
  <2>. HIDE DEF Clicks, Joins
  <2>. QED BY <2>1, <2>2
<1>3. <<Join(page[b])>> \in Seq(Clicks \cup Joins) BY <1>1, SomeMessages
<1>4. OnConnect(b) \in Seq(Clicks \cup Joins) BY <1>2, <1>3 DEF OnConnect, Connects
<1>. QED BY <1>4 DEF Connects, FeedTypes, lockVars, serverVars

LEMMA TypesDrops ==
  ASSUME FeedTypes, NEW b \in Clients, Drops(b) PROVE FeedTypes'
BY DEF Drops, FeedTypes, lockVars, serverVars, browserVars

LEMMA TypesClick ==
  ASSUME FeedTypes, NEW b \in Clients, Click(b) PROVE FeedTypes'
<1>1. Clicked(b) \in Clicks BY SomeMessages DEF Click
<1>2. link[b] # "up" => ~Clicked(b).live BY DEF Clicked
<1>3. link[b] # "up" => Append(kept[b], Clicked(b)) \in Seq({m \in Clicks : ~m.live})
  BY <1>1, <1>2 DEF FeedTypes
<1>4. Append(toServer[b], Clicked(b)) \in Seq(Clicks \cup Joins) BY <1>1 DEF FeedTypes
<1>. QED BY <1>3, <1>4 DEF Click, FeedTypes, lockVars, serverVars

LEMMA TypesReceives ==
  ASSUME FeedTypes, NEW b \in Clients, Receives(b) PROVE FeedTypes'
<1>1. /\ Head(toClient[b]) \in Shown \cup {Refused}
      /\ Tail(toClient[b]) \in Seq(Shown \cup {Refused})
  BY DEF Receives, FeedTypes
<1>2. screen' \in [Clients -> Shown \cup {Nothing}] BY <1>1 DEF Receives, FeedTypes
<1>. QED BY <1>1, <1>2 DEF Receives, FeedTypes, lockVars, serverVars

LEMMA TypesJoin ==
  ASSUME FeedTypes, NEW b \in Clients, HandlesJoin(b) PROVE FeedTypes'
<1>1. /\ toServer[b] \in Seq(Clicks \cup Joins) /\ toServer[b] # <<>>
      /\ Head(toServer[b]) \in Clicks \cup Joins
  BY DEF HandlesJoin, Takes, FeedTypes
<1>2. PICK g \in Keys : g = Head(toServer[b]).page BY <1>1 DEF Clicks, Joins
<1>3. /\ Append(toClient[b], Table(g)) \in Seq(Shown \cup {Refused})
      /\ Append(toClient[b], Refused) \in Seq(Shown \cup {Refused})
  BY SomeMessages DEF FeedTypes
<1>4. Tail(toServer[b]) \in Seq(Clicks \cup Joins) BY <1>1
<1>5. /\ rooms' \in [Clients -> SUBSET Keys]
      /\ toClient' \in [Clients -> Seq(Shown \cup {Refused})]
  <2>. DEFINE M == Shown \cup {Refused}
  <2>1. toClient \in [Clients -> Seq(M)] /\ rooms \in [Clients -> SUBSET Keys] BY DEF FeedTypes
  <2>2. /\ rooms' = rooms \/ rooms' = [rooms EXCEPT ![b] = {g}]
        /\ \E q \in Seq(M) : toClient' = [toClient EXCEPT ![b] = q]
    BY <1>2, <1>3 DEF HandlesJoin, RoomsAfterJoin
  <2>. HIDE DEF M
  <2>3. toClient' \in [Clients -> Seq(M)] BY <2>1, <2>2
  <2>4. rooms' \in [Clients -> SUBSET Keys] BY <2>1, <2>2
  <2>. QED BY <2>3, <2>4 DEF M
<1>. QED
  BY <1>4, <1>5 DEF HandlesJoin, Takes, FeedTypes, lockVars, serverVars, browserVars

LEMMA TypesHandlesClick ==
  ASSUME FeedTypes, NEW b \in Clients, HandlesClick(b) PROVE FeedTypes'
<1>1. /\ toServer[b] \in Seq(Clicks \cup Joins) /\ toServer[b] # <<>>
      /\ Head(toServer[b]) \in Clicks
  BY DEF HandlesClick, Takes, FeedTypes, Joins
<1>2. Tail(toServer[b]) \in Seq(Clicks \cup Joins) BY <1>1
<1>3. origin' \in [Calls -> Clicks \cup [what : {"server", "lobby"}]]
  BY <1>1 DEF HandlesClick, FeedTypes
<1>. QED BY <1>2, <1>3 DEF HandlesClick, Takes, FeedTypes, browserVars

LEMMA TypesCalls ==
  ASSUME FeedTypes, TypeOK, NEW c \in Calls,
         ServerCalls(c) \/ Begins(c) \/ Settles(c) \/ Returns(c)
  PROVE FeedTypes'
<1>1. CASE ServerCalls(c)
  <2>1. \A who \in {"server", "lobby"} : ByItself(who) \in [what : {"server", "lobby"}]
    BY DEF ByItself
  <2>. QED BY <1>1, <2>1 DEF ServerCalls, FeedTypes, wireVars, browserVars
<1>2. CASE Begins(c)
  BY <1>2 DEF Begins, FeedTypes, serverVars, wireVars, browserVars
<1>3. CASE Settles(c)
  <2>1. key[c] \in Keys BY DEF TypeOK
  <2>2. revision' \in [Keys -> Nat] BY <1>3, <2>1 DEF Settles, FeedTypes
  <2>. QED BY <1>3, <2>2 DEF Settles, FeedTypes, wireVars, browserVars
<1>4. CASE Returns(c)
  <2>1. Table(key[c]) \in Shown BY SomeMessages DEF TypeOK, Table, Shown, FeedTypes
  <2>2. toClient' \in [Clients -> Seq(Shown \cup {Refused})]
    <3>. DEFINE M == Shown \cup {Refused}
    <3>1. toClient \in [Clients -> Seq(M)] /\ Table(key[c]) \in M BY <2>1 DEF FeedTypes
    <3>2. \/ toClient' = toClient
          \/ toClient' = [b \in Clients |-> IF key[c] \in rooms[b]
                                            THEN Append(toClient[b], Table(key[c]))
                                            ELSE toClient[b]]
      BY <1>4 DEF Returns, Sent
    <3>. HIDE DEF M
    <3>3. \A b \in Clients : Append(toClient[b], Table(key[c])) \in Seq(M) BY <3>1
    <3>4. toClient' \in [Clients -> Seq(M)] BY <3>1, <3>2, <3>3
    <3>. QED BY <3>4 DEF M
  <2>. QED BY <1>4, <2>2 DEF Returns, FeedTypes, browserVars
<1>. QED BY <1>1, <1>2, <1>3, <1>4

-----------------------------------------------------------------------------
(* The lock, and what the screens are sent.                                *)

\* The calls of the lock go on as in Mutex.
LEMMA LockGoesOn == [FeedNext]_feedVars => [Next]_vars
BY DEF FeedNext, feedVars, lockVars, vars, Next, OpenPage, ClosePage, Connects, Drops, Click,
       Receives, HandlesJoin, HandlesClick, ServerCalls, Begins, Settles, Returns, Recovers

LEMMA TypesStep ==
  ASSUME FeedTypes, TypeOK, [FeedNext]_feedVars PROVE FeedTypes'
<1>1. CASE UNCHANGED feedVars
  BY <1>1 DEF feedVars, FeedTypes, lockVars, serverVars, wireVars, browserVars
<1>2. ASSUME NEW g \in Keys, Recovers(g) PROVE FeedTypes'
  BY <1>2 DEF Recovers, FeedTypes, wireVars, browserVars
<1>. QED
  BY <1>1, <1>2, TypesOpen, TypesClose, TypesConnects, TypesDrops, TypesClick, TypesReceives,
     TypesJoin, TypesHandlesClick, TypesCalls
  DEF FeedNext

\* The tables of one game on the way to a browser come in the order of their
\* revisions, none is ahead of the game, and the screen is behind them all.
Ordered(q) ==
  \A i, j \in DOMAIN q : i <= j /\ q[i] \in Shown /\ q[j] \in Shown /\ q[i][1] = q[j][1]
    => q[i][2] <= q[j][2]
NotAhead(q, now) == \A i \in DOMAIN q : q[i] \in Shown => q[i][2] <= now[q[i][1]]
Behind(s, q, now) ==
  s \in Shown => /\ s[2] <= now[s[1]]
                 /\ \A i \in DOMAIN q : q[i] \in Shown /\ q[i][1] = s[1] => s[2] <= q[i][2]

InStep(s, q, now) == Ordered(q) /\ NotAhead(q, now) /\ Behind(s, q, now)
Feeds == \A b \in Clients : InStep(screen[b], toClient[b], revision)

LEMMA InStepLater ==
  ASSUME NEW s, NEW q \in Seq(Shown \cup {Refused}), NEW now \in [Keys -> Nat],
         NEW later \in [Keys -> Nat], \A g \in Keys : now[g] <= later[g],
         InStep(s, q, now)
  PROVE InStep(s, q, later)
<1>. USE DEF Shown
<1>1. NotAhead(q, later) BY DEF InStep, NotAhead
<1>2. Behind(s, q, later) BY DEF InStep, Behind
<1>. QED BY <1>1, <1>2 DEF InStep

LEMMA InStepSent ==
  ASSUME NEW s, NEW q \in Seq(Shown \cup {Refused}), NEW now \in [Keys -> Nat],
         NEW m \in Shown \cup {Refused}, m \in Shown => m[2] = now[m[1]],
         InStep(s, q, now)
  PROVE InStep(s, Append(q, m), now)
<1>. DEFINE r == Append(q, m)
            M == Shown \cup {Refused}
<1>1. /\ Len(r) = Len(q) + 1 /\ DOMAIN r = 1..Len(q) + 1 /\ DOMAIN q = 1..Len(q)
      /\ Len(q) \in Nat /\ r[Len(q) + 1] = m
      /\ \A i \in DOMAIN q : r[i] = q[i]
      /\ \A i \in DOMAIN q : q[i] \in M
  <2>. HIDE DEF M
  <2>1. q \in Seq(M) /\ m \in M BY DEF M
  <2>. QED BY <2>1
<1>. HIDE DEF r, M
<1>2. \A i \in DOMAIN r : i \in DOMAIN q \/ i = Len(q) + 1 BY <1>1
<1>3. NotAhead(r, now) BY <1>1, <1>2 DEF InStep, NotAhead, Shown
<1>4. Behind(s, r, now) BY <1>1, <1>2 DEF InStep, Behind, Shown
<1>5. Ordered(r)
  <2>. SUFFICES ASSUME NEW i \in DOMAIN r, NEW j \in DOMAIN r, i <= j, r[i] \in Shown,
                       r[j] \in Shown, r[i][1] = r[j][1]
                PROVE r[i][2] <= r[j][2]
    BY DEF Ordered
  <2>1. CASE j \in DOMAIN q
    <3>1. i \in DOMAIN q BY <1>1, <1>2, <2>1
    <3>. QED BY <1>1, <2>1, <3>1 DEF InStep, Ordered
  <2>2. CASE j = Len(q) + 1
    <3>1. r[j][2] = now[r[i][1]] BY <1>1, <2>2
    <3>. QED BY <1>3, <3>1 DEF NotAhead
  <2>. QED BY <1>2, <2>1, <2>2
<1>. QED BY <1>3, <1>4, <1>5 DEF InStep, r

LEMMA InStepShown ==
  ASSUME NEW s, NEW q \in Seq(Shown \cup {Refused}), NEW now, q # <<>>, InStep(s, q, now)
  PROVE /\ InStep(s, Tail(q), now)
        /\ InStep(Head(q), Tail(q), now)
        /\ s \in Shown /\ Head(q) \in Shown /\ Head(q)[1] = s[1] => s[2] <= Head(q)[2]
<1>. DEFINE M == Shown \cup {Refused}
<1>1. /\ Len(q) \in Nat \ {0} /\ DOMAIN q = 1..Len(q) /\ Head(q) = q[1]
      /\ DOMAIN Tail(q) = 1..(Len(q) - 1)
      /\ \A i \in DOMAIN Tail(q) : Tail(q)[i] = q[i + 1]
  <2>. HIDE DEF M
  <2>1. q \in Seq(M) BY DEF M
  <2>. QED BY <2>1
<1>2. 1 \in DOMAIN q /\ \A i \in DOMAIN Tail(q) : i + 1 \in DOMAIN q /\ 1 <= i + 1 BY <1>1
<1>3. Ordered(Tail(q)) BY <1>1, <1>2 DEF InStep, Ordered
<1>4. NotAhead(Tail(q), now) BY <1>1, <1>2 DEF InStep, NotAhead
<1>5. Behind(s, Tail(q), now) BY <1>1, <1>2 DEF InStep, Behind
<1>6. Behind(Head(q), Tail(q), now) BY <1>1, <1>2 DEF InStep, Behind, Ordered, NotAhead
<1>7. s \in Shown /\ Head(q) \in Shown /\ Head(q)[1] = s[1] => s[2] <= Head(q)[2]
  BY <1>1, <1>2 DEF InStep, Behind
<1>. QED BY <1>3, <1>4, <1>5, <1>6, <1>7 DEF InStep

\* A page that shows nothing, a browser nothing is sent to.
LEMMA InStepEmpty ==
  ASSUME NEW s, NEW q, NEW now, Behind(s, <<>>, now)
  PROVE /\ InStep(s, <<>>, now)
        /\ Ordered(q) /\ NotAhead(q, now) => InStep(Nothing, q, now)
BY NoScreen DEF InStep, Ordered, NotAhead, Behind

LEMMA FeedsJoin ==
  ASSUME FeedTypes, Feeds, NEW b \in Clients, HandlesJoin(b) PROVE Feeds'
<1>. DEFINE g == Head(toServer[b]).page
<1>1. g \in Keys
  <2>1. Head(toServer[b]) \in Clicks \cup Joins BY DEF HandlesJoin, Takes, FeedTypes
  <2>. QED BY <2>1 DEF Clicks, Joins
<1>. HIDE DEF g
<1>2. PICK m \in {Table(g), Refused} : toClient' = [toClient EXCEPT ![b] = Append(@, m)]
  BY DEF HandlesJoin, g
<1>3. m \in Shown \cup {Refused} /\ (m \in Shown => m[2] = revision[m[1]])
  BY <1>1, SomeMessages, NoScreen DEF Table
<1>4. UNCHANGED <<revision, screen>> BY DEF HandlesJoin, serverVars, browserVars
<1>5. ASSUME NEW d \in Clients PROVE InStep(screen[d], toClient'[d], revision)
  <2>1. toClient[d] \in Seq(Shown \cup {Refused}) /\ revision \in [Keys -> Nat]
    BY DEF FeedTypes
  <2>2. InStep(screen[d], toClient[d], revision) BY DEF Feeds
  <2>3. InStep(screen[d], Append(toClient[d], m), revision) BY <1>3, <2>1, <2>2, InStepSent
  <2>4. toClient'[d] = IF d = b THEN Append(toClient[d], m) ELSE toClient[d]
    BY <1>2 DEF FeedTypes
  <2>. QED BY <2>2, <2>3, <2>4
<1>. QED BY <1>4, <1>5 DEF Feeds

LEMMA FeedsReceives ==
  ASSUME FeedTypes, Feeds, NEW b \in Clients, Receives(b)
  PROVE /\ Feeds'
        /\ screen[b] \in Shown /\ screen'[b] \in Shown /\ screen[b][1] = screen'[b][1]
             => screen[b][2] <= screen'[b][2]
        /\ \A d \in Clients \ {b} : screen'[d] = screen[d]
<1>. DEFINE q == toClient[b]
<1>1. q # <<>> /\ q \in Seq(Shown \cup {Refused}) /\ InStep(screen[b], q, revision)
  BY DEF Receives, FeedTypes, Feeds
<1>2. /\ InStep(screen[b], Tail(q), revision) /\ InStep(Head(q), Tail(q), revision)
      /\ screen[b] \in Shown /\ Head(q) \in Shown /\ Head(q)[1] = screen[b][1]
           => screen[b][2] <= Head(q)[2]
  BY <1>1, InStepShown
<1>3. /\ toClient'[b] = Tail(q) /\ screen'[b] \in {screen[b], Head(q)}
      /\ \A d \in Clients \ {b} : toClient'[d] = toClient[d] /\ screen'[d] = screen[d]
      /\ revision' = revision
  BY DEF Receives, FeedTypes, serverVars
<1>. HIDE DEF q
<1>4. Feeds' BY <1>2, <1>3 DEF Feeds
<1>5. screen[b] \in Shown => screen[b][2] <= screen[b][2] BY DEF Shown
<1>. QED BY <1>2, <1>3, <1>4, <1>5

LEMMA FeedsReturns ==
  ASSUME FeedTypes, TypeOK, Feeds, NEW c \in Calls, Returns(c) PROVE Feeds'
<1>. DEFINE m == Table(key[c])
<1>1. /\ m \in Shown \cup {Refused} /\ m[2] = revision[m[1]]
      /\ revision \in [Keys -> Nat]
  BY SomeMessages DEF TypeOK, Table, Shown, FeedTypes
<1>2. /\ UNCHANGED <<revision, screen>>
      /\ \A d \in Clients : toClient'[d] \in {toClient[d], Append(toClient[d], m)}
  BY DEF Returns, Sent, browserVars
<1>. HIDE DEF m
<1>3. ASSUME NEW d \in Clients PROVE InStep(screen[d], toClient'[d], revision)
  <2>1. toClient[d] \in Seq(Shown \cup {Refused}) BY DEF FeedTypes
  <2>2. InStep(screen[d], toClient[d], revision) BY DEF Feeds
  <2>3. InStep(screen[d], Append(toClient[d], m), revision) BY <1>1, <2>1, <2>2, InStepSent
  <2>. QED BY <1>2, <2>2, <2>3
<1>. QED BY <1>2, <1>3 DEF Feeds

LEMMA FeedsSettles ==
  ASSUME FeedTypes, TypeOK, Feeds, NEW c \in Calls, Settles(c) PROVE Feeds'
<1>1. /\ UNCHANGED <<toClient, screen>> /\ revision \in [Keys -> Nat]
      /\ revision' \in [Keys -> Nat] /\ \A g \in Keys : revision[g] <= revision'[g]
  <2>1. UNCHANGED <<toClient, screen>> /\ revision \in [Keys -> Nat] /\ key[c] \in Keys
    BY DEF Settles, wireVars, browserVars, FeedTypes, TypeOK
  <2>2. revision' = revision \/ revision' = [revision EXCEPT ![key[c]] = @ + 1]
    BY DEF Settles
  <2>. QED BY <2>1, <2>2
<1>2. ASSUME NEW d \in Clients PROVE InStep(screen[d], toClient[d], revision')
  <2>1. toClient[d] \in Seq(Shown \cup {Refused}) BY DEF FeedTypes
  <2>2. InStep(screen[d], toClient[d], revision) BY DEF Feeds
  <2>. QED BY <1>1, <2>1, <2>2, InStepLater
<1>. QED BY <1>1, <1>2 DEF Feeds

LEMMA FeedsOthers ==
  ASSUME FeedTypes, Feeds,
         \/ \E b \in Clients : ClosePage(b) \/ Drops(b)
         \/ UNCHANGED <<revision, toClient, screen>>
  PROVE Feeds'
<1>1. ASSUME NEW b \in Clients, ClosePage(b) PROVE Feeds'
  <2>1. /\ UNCHANGED <<revision, toClient>> /\ screen'[b] = Nothing
        /\ \A d \in Clients \ {b} : screen'[d] = screen[d]
    BY <1>1 DEF ClosePage, serverVars, wireVars, FeedTypes
  <2>2. InStep(Nothing, toClient[b], revision) BY NoScreen DEF Feeds, InStep, Behind
  <2>. QED BY <2>1, <2>2 DEF Feeds
<1>2. ASSUME NEW b \in Clients, Drops(b) PROVE Feeds'
  <2>1. /\ UNCHANGED <<revision, screen>> /\ toClient'[b] = <<>>
        /\ \A d \in Clients \ {b} : toClient'[d] = toClient[d]
    BY <1>2 DEF Drops, serverVars, browserVars, FeedTypes
  <2>2. InStep(screen[b], <<>>, revision) BY DEF Feeds, InStep, Behind, Ordered, NotAhead
  <2>. QED BY <2>1, <2>2 DEF Feeds
<1>3. CASE UNCHANGED <<revision, toClient, screen>> BY <1>3 DEF Feeds
<1>. QED BY <1>1, <1>2, <1>3

LEMMA KindsOfSteps ==
  ASSUME [FeedNext]_feedVars
  PROVE \/ \E b \in Clients : HandlesJoin(b) \/ Receives(b) \/ ClosePage(b) \/ Drops(b)
        \/ \E c \in Calls : Settles(c) \/ Returns(c)
        \/ UNCHANGED <<revision, toClient, screen>>
BY DEF FeedNext, feedVars, serverVars, wireVars, browserVars, OpenPage, Connects, Click,
       HandlesClick, ServerCalls, Begins, Recovers

LEMMA FeedsStep ==
  ASSUME FeedTypes, TypeOK, Feeds, [FeedNext]_feedVars PROVE Feeds'
BY KindsOfSteps, FeedsJoin, FeedsReceives, FeedsReturns, FeedsSettles, FeedsOthers

LEMMA FeedsInit == FeedInit => Feeds
BY NoScreen DEF FeedInit, Feeds, InStep, Ordered, NotAhead, Behind

LEMMA FeedsAlways == FeedSpec => [](FeedTypes /\ TypeOK /\ Feeds)
<1>1. FeedInit => FeedTypes /\ IInv /\ Feeds BY TypesInit, FeedsInit, InitIInv DEF FeedInit
<1>2. IInv => TypeOK BY DEF IInv
<1>3. IInv /\ [FeedNext]_feedVars => IInv'
  BY LockGoesOn, WithLockKeeps, BeginKeeps, SettleKeeps, ReturnKeeps, StutterKeeps DEF Next
<1>4. FeedTypes /\ IInv /\ Feeds /\ [FeedNext]_feedVars => FeedTypes' /\ Feeds'
  BY <1>2, TypesStep, FeedsStep
<1>. QED BY <1>1, <1>2, <1>3, <1>4, PTL DEF FeedSpec

\* A screen never goes back to an older table of its game, for any number of
\* browsers, calls and lost connections: each broadcast reads the registry when
\* it is sent, and a connection keeps its messages in order.
THEOREM ScreensGoForward == FeedSpec => ScreenNeverGoesBack
<1>. DEFINE Forward == \A b \in Clients, g \in Keys :
              screen[b] # Nothing /\ screen'[b] # Nothing /\ screen[b][1] = g
                /\ screen'[b][1] = g => screen'[b][2] >= screen[b][2]
<1>1. ASSUME FeedTypes, TypeOK, Feeds, [FeedNext]_feedVars PROVE Forward
  <2>1. FeedTypes' BY <1>1, TypesStep
  <2>2. \A b \in Clients : /\ screen[b] # Nothing => screen[b] \in Shown
                           /\ screen'[b] # Nothing => screen'[b] \in Shown
    BY <1>1, <2>1 DEF FeedTypes
  <2>3. \A s \in Shown : s[2] \in Nat BY DEF Shown
  <2>4. CASE UNCHANGED screen BY <2>2, <2>3, <2>4
  <2>5. ASSUME NEW b \in Clients, Receives(b) PROVE Forward
    <3>1. /\ screen[b] \in Shown /\ screen'[b] \in Shown /\ screen[b][1] = screen'[b][1]
               => screen[b][2] <= screen'[b][2]
          /\ \A d \in Clients \ {b} : screen'[d] = screen[d]
      BY <1>1, <2>5, FeedsReceives
    <3>. QED BY <2>2, <2>3, <3>1
  <2>6. ASSUME NEW b \in Clients, ClosePage(b) PROVE Forward
    <3>1. /\ screen'[b] = Nothing /\ \A d \in Clients \ {b} : screen'[d] = screen[d]
      BY <1>1, <2>6 DEF ClosePage, FeedTypes
    <3>. QED BY <2>2, <2>3, <3>1
  <2>7. \/ UNCHANGED screen
        \/ \E b \in Clients : Receives(b) \/ ClosePage(b)
    BY <1>1 DEF FeedNext, feedVars, browserVars, OpenPage, Connects, Drops, Click,
       HandlesJoin, HandlesClick, ServerCalls, Begins, Settles, Returns, Recovers
  <2>. QED BY <2>4, <2>5, <2>6, <2>7
<1>2. FeedTypes /\ TypeOK /\ Feeds /\ [FeedNext]_feedVars => [Forward]_feedVars BY <1>1
<1>. QED BY <1>2, FeedsAlways, PTL DEF FeedSpec, ScreenNeverGoesBack

-----------------------------------------------------------------------------
(* The room a click is made in, once recovery is over.                     *)

NoJoins(q, i) == \A k \in DOMAIN q : k < i => q[k] \notin Joins

\* Whoever reads q up to its i-th message is then in the room of g or in none.
Means(q, room, i, g) ==
  \/ \E j \in DOMAIN q : /\ j < i /\ q[j] = Join(g)
                         /\ \A k \in DOMAIN q : j < k /\ k < i => q[k] \notin Joins
  \/ room \subseteq {g} /\ NoJoins(q, i)

\* A click is for the room its page has asked to be in; one kept while offline
\* is read before its socket is in any room.
RightRoom(q, room, i) ==
  q[i] \in Clicks => IF q[i].live THEN Means(q, room, i, q[i].page)
                     ELSE room = {} /\ NoJoins(q, i)

AllRight(q, room) == \A i \in DOMAIN q : RightRoom(q, room, i)

RoomOK(b) ==
  /\ AllRight(toServer[b], rooms[b])
  /\ page[b] # NoPage /\ link[b] = "up" => Means(toServer[b], rooms[b], Len(toServer[b]) + 1, page[b])
  /\ link[b] = "down" => toServer[b] = <<>> /\ rooms[b] = {}

ClicksMean ==
  \A c \in Calls : c <= made /\ origin[c].what = "click" =>
                     key[c] = origin[c].page /\ origin[c].live

RoomInv == known = Keys /\ ClicksMean /\ \A b \in Clients : RoomOK(b)

LEMMA KindsOfMessages == \A m \in Clicks : m \notin Joins /\ m.what = "click"
BY DEF Clicks, Joins

LEMMA MeansPrefix ==
  ASSUME NEW q \in Seq(Clicks \cup Joins), NEW m \in Clicks \cup Joins, NEW room,
         NEW i \in 1..Len(q) + 1
  PROVE /\ NoJoins(q, i) => NoJoins(Append(q, m), i)
        /\ \A g : Means(q, room, i, g) => Means(Append(q, m), room, i, g)
<1>. DEFINE r == Append(q, m)
            M == Clicks \cup Joins
            n == Len(q)
<1>1. /\ n \in Nat /\ DOMAIN r = 1..n + 1 /\ DOMAIN q = 1..n
      /\ \A k \in 1..n : r[k] = q[k]
  <2>. HIDE DEF M
  <2>1. q \in Seq(M) /\ m \in M BY DEF M
  <2>. QED BY <2>1
<1>. HIDE DEF r, M, n
<1>2. i \in 1..n + 1 BY DEF n
<1>3. NoJoins(q, i) => NoJoins(r, i) BY <1>1, <1>2 DEF NoJoins
<1>4. ASSUME NEW g, Means(q, room, i, g) PROVE Means(r, room, i, g)
  <2>1. CASE room \subseteq {g} /\ NoJoins(q, i) BY <1>3, <2>1 DEF Means
  <2>2. ASSUME NEW j \in 1..n, j < i, q[j] = Join(g),
               \A k \in 1..n : j < k /\ k < i => q[k] \notin Joins
        PROVE Means(r, room, i, g)
    <3>1. \A k \in DOMAIN r : j < k /\ k < i => r[k] \notin Joins BY <1>1, <1>2, <2>2
    <3>2. j \in DOMAIN r /\ r[j] = Join(g) BY <1>1, <2>2
    <3>. QED BY <2>2, <3>1, <3>2 DEF Means
  <2>. QED BY <1>1, <1>4, <2>1, <2>2 DEF Means
<1>. QED BY <1>3, <1>4 DEF r

LEMMA MeansSent ==
  ASSUME NEW q \in Seq(Clicks \cup Joins), NEW m \in Clicks \cup Joins, NEW room,
         AllRight(q, room), RightRoom(Append(q, m), room, Len(q) + 1)
  PROVE /\ AllRight(Append(q, m), room)
        /\ \A g \in Keys : m = Join(g) => Means(Append(q, m), room, Len(q) + 2, g)
        /\ \A g : m \in Clicks /\ Means(q, room, Len(q) + 1, g)
                    => Means(Append(q, m), room, Len(q) + 2, g)
<1>. DEFINE r == Append(q, m)
            M == Clicks \cup Joins
            n == Len(q)
<1>1. /\ n \in Nat /\ DOMAIN r = 1..n + 1 /\ DOMAIN q = 1..n /\ r[n + 1] = m
      /\ \A i \in 1..n : r[i] = q[i]
  <2>. HIDE DEF M
  <2>1. q \in Seq(M) /\ m \in M BY DEF M
  <2>. QED BY <2>1
<1>. HIDE DEF r, M, n
<1>2. \A i \in 1..n + 1 : NoJoins(q, i) => NoJoins(r, i) BY MeansPrefix DEF r, n
<1>3. \A i \in 1..n + 1 : \A g : Means(q, room, i, g) => Means(r, room, i, g)
  BY MeansPrefix DEF r, n
<1>4. ASSUME NEW i \in 1..n PROVE RightRoom(r, room, i)
  <2>1. r[i] = q[i] /\ i \in 1..n + 1 /\ RightRoom(q, room, i) BY <1>1, <1>4 DEF AllRight
  <2>. QED BY <1>2, <1>3, <2>1 DEF RightRoom
<1>5. RightRoom(r, room, n + 1) BY DEF r, n
<1>6. AllRight(r, room) BY <1>1, <1>4, <1>5 DEF AllRight
<1>7. ASSUME NEW g \in Keys, m = Join(g) PROVE Means(r, room, n + 2, g)
  <2>1. n + 1 \in DOMAIN r /\ n + 1 < n + 2 /\ r[n + 1] = Join(g) BY <1>1, <1>7
  <2>2. \A k \in DOMAIN r : n + 1 < k /\ k < n + 2 => r[k] \notin Joins BY <1>1
  <2>. QED BY <2>1, <2>2 DEF Means
<1>8. ASSUME NEW g, m \in Clicks, Means(q, room, n + 1, g) PROVE Means(r, room, n + 2, g)
  <2>1. m \notin Joins BY <1>8, KindsOfMessages
  <2>2. CASE room \subseteq {g} /\ NoJoins(q, n + 1)
    <3>1. NoJoins(r, n + 2) BY <1>1, <2>1, <2>2 DEF NoJoins
    <3>. QED BY <2>2, <3>1 DEF Means
  <2>3. ASSUME NEW j \in 1..n, q[j] = Join(g),
               \A k \in 1..n : j < k /\ k < n + 1 => q[k] \notin Joins
        PROVE Means(r, room, n + 2, g)
    <3>1. \A k \in DOMAIN r : j < k /\ k < n + 2 => r[k] \notin Joins BY <1>1, <2>1, <2>3
    <3>2. j \in DOMAIN r /\ r[j] = Join(g) /\ j < n + 2 BY <1>1, <2>3
    <3>. QED BY <3>1, <3>2 DEF Means
  <2>. QED BY <1>1, <1>8, <2>2, <2>3 DEF Means
<1>. QED BY <1>6, <1>7, <1>8 DEF r, n

\* Reading the first message: a join puts the socket into its room.
LEMMA MeansRead ==
  ASSUME NEW q \in Seq(Clicks \cup Joins), q # <<>>, NEW room, NEW then,
         \/ Head(q) \in Clicks /\ then = room
         \/ Head(q) \in Joins /\ then = {Head(q).page},
         AllRight(q, room)
  PROVE /\ AllRight(Tail(q), then)
        /\ \A g \in Keys : Means(q, room, Len(q) + 1, g)
                             => Means(Tail(q), then, Len(Tail(q)) + 1, g)
<1>. DEFINE r == Tail(q)
            M == Clicks \cup Joins
            n == Len(q)
<1>1. /\ n \in Nat \ {0} /\ DOMAIN r = 1..n - 1 /\ DOMAIN q = 1..n /\ Len(r) = n - 1
      /\ \A i \in 1..n - 1 : r[i] = q[i + 1]
      /\ Head(q) = q[1] /\ \A i \in 1..n : q[i] \in M
  <2>. HIDE DEF M
  <2>1. q \in Seq(M) BY DEF M
  <2>. QED BY <2>1
<1>2. \A g : Join(g) \in Joins => Join(g).page = g BY DEF Join
<1>3. \A g \in Keys : Join(g) \in Joins BY DEF Join, Joins
<1>. HIDE DEF r, M, n
<1>4. ASSUME NEW i \in 2..n + 1, NEW g \in Keys, Means(q, room, i, g)
      PROVE Means(r, then, i - 1, g)
  <2>1. ASSUME room \subseteq {g}, NoJoins(q, i) PROVE Means(r, then, i - 1, g)
    <3>1. 1 \in DOMAIN q /\ 1 < i BY <1>1
    <3>2. q[1] \notin Joins BY <2>1, <3>1 DEF NoJoins
    <3>3. then = room BY <1>1, <3>2
    <3>4. NoJoins(r, i - 1) BY <1>1, <2>1 DEF NoJoins
    <3>. QED BY <2>1, <3>3, <3>4 DEF Means
  <2>2. ASSUME NEW j \in 1..n, j < i, q[j] = Join(g),
               \A k \in 1..n : j < k /\ k < i => q[k] \notin Joins
        PROVE Means(r, then, i - 1, g)
    <3>1. \A k \in DOMAIN r : j - 1 < k /\ k < i - 1 => r[k] \notin Joins BY <1>1, <2>2
    <3>2. CASE j = 1
      <4>1. then = {g}
        <5>1. Head(q) = Join(g) /\ Join(g) \in Joins /\ Join(g).page = g
          BY <1>1, <1>2, <1>3, <2>2, <3>2
        <5>. QED BY <5>1, KindsOfMessages
      <4>2. NoJoins(r, i - 1) BY <1>1, <3>1, <3>2 DEF NoJoins
      <4>. QED BY <4>1, <4>2 DEF Means
    <3>3. CASE j # 1
      <4>1. j - 1 \in DOMAIN r /\ r[j - 1] = Join(g) /\ j - 1 < i - 1 BY <1>1, <2>2, <3>3
      <4>. QED BY <3>1, <4>1 DEF Means
    <3>. QED BY <3>2, <3>3
  <2>. QED BY <1>1, <1>4, <2>1, <2>2 DEF Means
<1>5. ASSUME NEW i \in 1..n - 1 PROVE RightRoom(r, then, i)
  <2>1. r[i] = q[i + 1] /\ RightRoom(q, room, i + 1) /\ i + 1 \in 2..n + 1 /\ (i + 1) - 1 = i
    BY <1>1 DEF AllRight
  <2>2. SUFFICES ASSUME r[i] \in Clicks
                 PROVE IF r[i].live THEN Means(r, then, i, r[i].page)
                       ELSE then = {} /\ NoJoins(r, i)
    BY DEF RightRoom
  <2>3. r[i].page \in Keys /\ r[i].live \in BOOLEAN BY <2>2 DEF Clicks
  <2>4. CASE r[i].live
    <3>1. Means(q, room, i + 1, r[i].page) BY <2>1, <2>2, <2>4 DEF RightRoom
    <3>2. Means(r, then, (i + 1) - 1, r[i].page) BY <1>4, <2>1, <2>3, <3>1
    <3>. QED BY <2>1, <2>4, <3>2
  <2>5. CASE ~r[i].live
    <3>1. room = {} /\ NoJoins(q, i + 1) BY <2>1, <2>2, <2>5 DEF RightRoom
    <3>2. 1 \in DOMAIN q /\ 1 < i + 1 BY <1>1
    <3>3. then = {} BY <1>1, <3>1, <3>2 DEF NoJoins
    <3>4. ASSUME NEW k \in DOMAIN r, k < i PROVE r[k] \notin Joins
      <4>1. k + 1 \in DOMAIN q /\ k + 1 < i + 1 /\ r[k] = q[k + 1] BY <1>1, <3>4
      <4>. QED BY <3>1, <4>1 DEF NoJoins
    <3>5. NoJoins(r, i) BY <3>4 DEF NoJoins
    <3>. QED BY <2>5, <3>3, <3>5
  <2>. QED BY <2>4, <2>5
<1>6. AllRight(r, then) BY <1>1, <1>5 DEF AllRight
<1>7. \A g \in Keys : Means(q, room, n + 1, g) => Means(r, then, Len(r) + 1, g)
  <2>1. n + 1 \in 2..n + 1 /\ (n + 1) - 1 = Len(r) + 1 BY <1>1
  <2>. QED BY <1>4, <2>1
<1>. QED BY <1>6, <1>7 DEF r, n

\* Clicks kept while offline, in front of the join of the page that is open.
LEMMA MeansKept ==
  ASSUME NEW q \in Seq({m \in Clicks : ~m.live}), NEW g \in Keys
  PROVE /\ AllRight(q \o <<Join(g)>>, {})
        /\ Means(q \o <<Join(g)>>, {}, Len(q \o <<Join(g)>>) + 1, g)
<1>. DEFINE K == {m \in Clicks : ~m.live}
            r == q \o <<Join(g)>>
            n == Len(q)
<1>1. /\ n \in Nat /\ DOMAIN r = 1..n + 1 /\ Len(r) = n + 1 /\ r[n + 1] = Join(g)
      /\ \A i \in 1..n : r[i] = q[i] /\ q[i] \in K
  <2>. HIDE DEF K
  <2>1. q \in Seq(K) BY DEF K
  <2>. QED BY <2>1
<1>2. \A i \in 1..n : r[i] \in Clicks /\ ~r[i].live /\ r[i] \notin Joins
  BY <1>1, KindsOfMessages
<1>3. Join(g) \in Joins /\ Join(g) \notin Clicks BY DEF Join, Joins, Clicks
<1>. HIDE DEF r, K, n
<1>4. \A i \in 1..n + 1 : NoJoins(r, i) BY <1>1, <1>2 DEF NoJoins
<1>5. AllRight(r, {}) BY <1>1, <1>2, <1>3, <1>4 DEF AllRight, RightRoom
<1>6. Means(r, {}, Len(r) + 1, g)
  <2>1. n + 1 \in DOMAIN r /\ n + 1 < Len(r) + 1 /\ r[n + 1] = Join(g) BY <1>1
  <2>2. \A k \in DOMAIN r : ~(n + 1 < k) BY <1>1
  <2>. QED BY <2>1, <2>2 DEF Means
<1>. QED BY <1>5, <1>6 DEF r

LEMMA MeansNothing ==
  ASSUME NEW room PROVE AllRight(<<>>, room)
BY DEF AllRight

LEMMA RoomOpen ==
  ASSUME FeedTypes, NEW b \in Clients, RoomOK(b), NEW g \in Keys, OpenPage(b, g)
  PROVE RoomOK(b)'
<1>1. /\ page'[b] = g /\ UNCHANGED <<rooms, link>>
      /\ toServer'[b] = JoinsOnMount(b, g) /\ Join(g) \in Joins
  BY SomeMessages DEF OpenPage, FeedTypes
<1>2. CASE link[b] = "down" BY <1>1, <1>2 DEF RoomOK, JoinsOnMount
<1>3. CASE link[b] = "up"
  <2>. DEFINE q == toServer[b]
              r == Append(q, Join(g))
  <2>1. q \in Seq(Clicks \cup Joins) /\ AllRight(q, rooms[b]) BY DEF FeedTypes, RoomOK
  <2>2. toServer'[b] = r BY <1>1, <1>3 DEF JoinsOnMount
  <2>3. Len(r) = Len(q) + 1 /\ r[Len(q) + 1] = Join(g) /\ Len(q) \in Nat BY <1>1, <2>1
  <2>4. Join(g) \notin Clicks BY <1>1, KindsOfMessages
  <2>. HIDE DEF q
  <2>5. RightRoom(r, rooms[b], Len(q) + 1) BY <2>3, <2>4 DEF RightRoom
  <2>6. AllRight(r, rooms[b]) /\ Means(r, rooms[b], Len(q) + 2, g)
    BY <1>1, <2>1, <2>5, MeansSent
  <2>7. Means(r, rooms[b], Len(r) + 1, g) BY <2>3, <2>6
  <2>. QED BY <1>1, <1>3, <2>2, <2>6, <2>7 DEF RoomOK
<1>. QED BY <1>2, <1>3 DEF FeedTypes

LEMMA RoomClick ==
  ASSUME FeedTypes, NEW b \in Clients, RoomOK(b), Click(b)
  PROVE RoomOK(b)'
<1>1. /\ UNCHANGED <<rooms, link, page>> /\ page[b] \in Keys
      /\ Clicked(b) \in Clicks /\ Clicked(b).page = page[b]
      /\ Clicked(b).live <=> link[b] = "up"
  BY SomeMessages DEF Click, FeedTypes, Clicked
<1>2. CASE link[b] # "up" BY <1>1, <1>2 DEF RoomOK, Click
<1>3. CASE link[b] = "up"
  <2>. DEFINE q == toServer[b]
              r == Append(q, Clicked(b))
              room == rooms[b]
  <2>1. /\ q \in Seq(Clicks \cup Joins) /\ AllRight(q, room)
        /\ Means(q, room, Len(q) + 1, page[b])
    BY <1>1, <1>3 DEF FeedTypes, RoomOK, Click
  <2>2. toServer'[b] = r BY <1>3 DEF Click, FeedTypes
  <2>3. Len(r) = Len(q) + 1 /\ r[Len(q) + 1] = Clicked(b) /\ Len(q) \in Nat BY <1>1, <2>1
  <2>. HIDE DEF q
  <2>4. Means(r, room, Len(q) + 1, page[b])
    BY <1>1, <2>1, <2>3, MeansPrefix
  <2>5. RightRoom(r, room, Len(q) + 1) BY <1>1, <1>3, <2>3, <2>4 DEF RightRoom
  <2>6. AllRight(r, room) /\ Means(r, room, Len(q) + 2, page[b])
    BY <1>1, <2>1, <2>5, MeansSent
  <2>7. Means(r, room, Len(r) + 1, page[b]) BY <2>3, <2>6
  <2>. QED BY <1>1, <1>3, <2>2, <2>6, <2>7 DEF RoomOK
<1>. QED BY <1>2, <1>3

LEMMA RoomConnects ==
  ASSUME FeedTypes, NEW b \in Clients, RoomOK(b), Connects(b)
  PROVE RoomOK(b)'
<1>1. /\ page[b] \in Keys /\ UNCHANGED <<rooms, page>> /\ link'[b] = "up"
      /\ toServer'[b] = kept[b] \o <<Join(page[b])>> /\ rooms[b] = {}
      /\ kept[b] \in Seq({m \in Clicks : ~m.live})
  BY DEF Connects, OnConnect, FeedTypes, RoomOK
<1>2. /\ AllRight(toServer'[b], {})
      /\ Means(toServer'[b], {}, Len(toServer'[b]) + 1, page[b])
  BY <1>1, MeansKept
<1>. QED BY <1>1, <1>2 DEF RoomOK

LEMMA RoomReads ==
  ASSUME FeedTypes, NEW b \in Clients, RoomOK(b), known = Keys,
         HandlesJoin(b) \/ HandlesClick(b)
  PROVE RoomOK(b)'
<1>. DEFINE q == toServer[b]
<1>1. /\ q \in Seq(Clicks \cup Joins) /\ q # <<>> /\ Head(q) \in Clicks \cup Joins
      /\ toServer'[b] = Tail(q) /\ UNCHANGED <<link, page>>
      /\ AllRight(q, rooms[b])
  BY DEF HandlesJoin, HandlesClick, Takes, FeedTypes, RoomOK, browserVars
<1>2. \/ Head(q) \in Clicks /\ rooms'[b] = rooms[b]
      \/ Head(q) \in Joins /\ rooms'[b] = {Head(q).page}
  <2>1. CASE HandlesJoin(b)
    <3>1. Head(q) \in Joins BY <1>1, <2>1, KindsOfMessages DEF HandlesJoin, Takes
    <3>2. Head(q).page \in Keys BY <3>1 DEF Joins
    <3>. QED BY <2>1, <3>1, <3>2 DEF HandlesJoin, RoomsAfterJoin, FeedTypes
  <2>2. CASE HandlesClick(b)
    <3>1. Head(q) \in Clicks BY <1>1, <2>2 DEF HandlesClick, Takes, Joins
    <3>. QED BY <2>2, <3>1 DEF HandlesClick
  <2>. QED BY <2>1, <2>2
<1>3. /\ AllRight(Tail(q), rooms'[b])
      /\ \A g \in Keys : Means(q, rooms[b], Len(q) + 1, g)
                           => Means(Tail(q), rooms'[b], Len(Tail(q)) + 1, g)
  BY <1>1, <1>2, MeansRead
<1>4. page[b] # NoPage => page[b] \in Keys BY DEF FeedTypes
<1>5. link[b] # "down" BY <1>1 DEF RoomOK
<1>. QED BY <1>1, <1>3, <1>4, <1>5 DEF RoomOK

LEMMA RoomDropsCloses ==
  ASSUME FeedTypes, NEW b \in Clients, RoomOK(b), Drops(b) \/ ClosePage(b)
  PROVE RoomOK(b)'
<1>1. CASE Drops(b)
  <2>1. toServer'[b] = <<>> /\ rooms'[b] = {} /\ link'[b] = "down"
    BY <1>1 DEF Drops, FeedTypes
  <2>. QED BY <2>1, MeansNothing DEF RoomOK
<1>2. CASE ClosePage(b)
  <2>1. UNCHANGED <<toServer, rooms, link>> /\ page'[b] = NoPage
    BY <1>2 DEF ClosePage, FeedTypes, wireVars
  <2>. QED BY <2>1 DEF RoomOK
<1>. QED BY <1>1, <1>2

LEMMA RoomsStep ==
  ASSUME FeedTypes, RoomInv, [FeedNext]_feedVars, NEW d \in Clients
  PROVE RoomOK(d)'
<1>0. RoomOK(d) /\ known = Keys BY DEF RoomInv
<1>1. CASE UNCHANGED <<toServer, rooms, link, page>> BY <1>0, <1>1 DEF RoomOK
<1>2. ASSUME NEW b \in Clients \ {d},
             \/ \E g \in Keys : OpenPage(b, g)
             \/ ClosePage(b) \/ Connects(b) \/ Drops(b) \/ Click(b)
             \/ HandlesJoin(b) \/ HandlesClick(b)
      PROVE RoomOK(d)'
  <2>1. /\ toServer'[d] = toServer[d] /\ rooms'[d] = rooms[d]
        /\ link'[d] = link[d] /\ page'[d] = page[d]
    <3>1. CASE \/ \E g \in Keys : OpenPage(b, g)
               \/ ClosePage(b) \/ Connects(b) \/ Drops(b) \/ Click(b)
      BY <1>2, <3>1
      DEF OpenPage, ClosePage, Connects, Drops, Click, FeedTypes, wireVars, browserVars
    <3>2. CASE HandlesJoin(b) \/ HandlesClick(b)
      BY <1>2, <3>2 DEF HandlesJoin, HandlesClick, Takes, FeedTypes, browserVars
    <3>. QED BY <1>2, <3>1, <3>2
  <2>. QED BY <1>0, <2>1 DEF RoomOK
<1>3. CASE \/ \E g \in Keys : OpenPage(d, g)
           \/ ClosePage(d) \/ Connects(d) \/ Drops(d) \/ Click(d)
           \/ HandlesJoin(d) \/ HandlesClick(d)
  BY <1>0, <1>3, RoomOpen, RoomDropsCloses, RoomConnects, RoomClick, RoomReads
<1>4. \/ UNCHANGED <<toServer, rooms, link, page>>
      \/ \E b \in Clients : \/ \E g \in Keys : OpenPage(b, g)
                            \/ ClosePage(b) \/ Connects(b) \/ Drops(b) \/ Click(b)
                            \/ HandlesJoin(b) \/ HandlesClick(b)
  BY DEF FeedNext, feedVars, wireVars, browserVars, Receives, ServerCalls, Begins, Settles,
     Returns, Recovers
<1>. QED BY <1>1, <1>2, <1>3, <1>4

LEMMA ClicksStep ==
  ASSUME FeedTypes, TypeOK, RoomInv, [FeedNext]_feedVars
  PROVE ClicksMean'
<1>0. ClicksMean /\ made \in Nat BY DEF RoomInv, TypeOK
<1>1. CASE UNCHANGED <<made, key, origin>> BY <1>0, <1>1 DEF ClicksMean
<1>2. ASSUME NEW c \in Calls, WithLock(c), NEW o, origin' = [origin EXCEPT ![c] = o],
             o.what = "click" => key[c] = o.page /\ o.live
      PROVE ClicksMean'
  <2>1. made' = c /\ c = made + 1 /\ key' = key BY <1>2 DEF WithLock
  <2>2. \A a \in Calls : origin'[a] = IF a = c THEN o ELSE origin[a] BY <1>2 DEF FeedTypes
  <2>3. \A a \in Calls : a <= made' => a <= made \/ a = c BY <1>0, <2>1 DEF Calls
  <2>. QED BY <1>0, <1>2, <2>1, <2>2, <2>3 DEF ClicksMean
<1>3. ASSUME NEW b \in Clients, HandlesClick(b) PROVE ClicksMean'
  <2>. DEFINE q == toServer[b]
              room == rooms[b]
              o == Head(q)
  <2>1. /\ q \in Seq(Clicks \cup Joins) /\ q # <<>> /\ o \in Clicks
        /\ RoomOK(b)
    BY <1>3 DEF HandlesClick, Takes, FeedTypes, Joins, RoomInv
  <2>2. 1 \in DOMAIN q /\ o = q[1] /\ DOMAIN q \subseteq Nat \ {0}
    <3>. DEFINE M == Clicks \cup Joins
    <3>. HIDE DEF M
    <3>1. q \in Seq(M) /\ q # <<>> BY <2>1 DEF M
    <3>. QED BY <3>1
  <2>3. RightRoom(q, room, 1) BY <2>1, <2>2 DEF RoomOK, AllRight
  <2>. HIDE DEF q
  <2>4. ASSUME NEW g \in room PROVE o.live /\ g = o.page
    <3>1. o.live BY <2>1, <2>2, <2>3, <2>4 DEF RightRoom
    <3>2. Means(q, room, 1, o.page) BY <2>1, <2>2, <2>3, <3>1 DEF RightRoom
    <3>3. room \subseteq {o.page} BY <2>2, <3>2 DEF Means
    <3>. QED BY <2>4, <3>1, <3>3
  <2>5. CASE UNCHANGED <<made, key, origin>> BY <1>1, <2>5
  <2>6. ASSUME NEW c \in Calls, WithLock(c), key[c] \in room, origin' = [origin EXCEPT ![c] = o]
        PROVE ClicksMean'
    <3>1. o.what = "click" => key[c] = o.page /\ o.live BY <2>4, <2>6
    <3>. HIDE DEF o
    <3>. QED BY <1>2, <2>6, <3>1
  <2>7. \/ UNCHANGED <<made, key, origin>>
        \/ \E c \in Calls : WithLock(c) /\ key[c] \in room /\ origin' = [origin EXCEPT ![c] = o]
    BY <1>3 DEF HandlesClick, lockVars, q
  <2>. QED BY <2>5, <2>6, <2>7
<1>4. ASSUME NEW c \in Calls, ServerCalls(c) PROVE ClicksMean'
  <2>1. PICK who \in {"server", "lobby"} : origin' = [origin EXCEPT ![c] = ByItself(who)]
    BY <1>4 DEF ServerCalls
  <2>2. ByItself(who).what # "click" BY DEF ByItself
  <2>3. WithLock(c) BY <1>4 DEF ServerCalls
  <2>. QED BY <1>2, <2>1, <2>2, <2>3
<1>5. \/ UNCHANGED <<made, key, origin>>
      \/ \E b \in Clients : HandlesClick(b)
      \/ \E c \in Calls : ServerCalls(c)
  BY DEF FeedNext, feedVars, lockVars, serverVars, OpenPage, ClosePage, Connects, Drops, Click,
     Receives, HandlesJoin, Begins, Settles, Returns, Recovers, Begin, Settle, Return
<1>. QED BY <1>1, <1>3, <1>4, <1>5

LEMMA RoomInvStep ==
  ASSUME FeedTypes, TypeOK, RoomInv, [FeedNext]_feedVars
  PROVE RoomInv'
<1>1. known' = Keys
  <2>1. known = Keys BY DEF RoomInv
  <2>. QED
    BY <2>1 DEF FeedNext, feedVars, serverVars, OpenPage, ClosePage, Connects, Drops, Click,
       Receives, HandlesJoin, HandlesClick, ServerCalls, Begins, Settles, Returns, Recovers
<1>. QED BY <1>1, RoomsStep, ClicksStep DEF RoomInv

LEMMA RoomInit == FeedInit /\ known = Keys => RoomInv
<1>. SUFFICES ASSUME FeedInit, known = Keys PROVE RoomInv
  OBVIOUS
<1>1. ASSUME NEW b \in Clients PROVE RoomOK(b)
  <2>1. toServer[b] = <<>> /\ rooms[b] = {} /\ page[b] = NoPage BY DEF FeedInit
  <2>. QED BY <2>1, MeansNothing DEF RoomOK
<1>2. ClicksMean
  <2>1. \A c \in Calls : origin[c].what # "click" BY DEF FeedInit, ByItself
  <2>. QED BY <2>1 DEF ClicksMean
<1>. QED BY <1>1, <1>2 DEF RoomInv

\* Once recovery has put every game back, an accepted click acts on the very game
\* of the page it was made on, however many pages a browser leaves and opens while
\* its messages are on the way, and what was clicked offline acts on nothing: the
\* join of a page and its clicks travel in one line, and what was kept offline
\* travels ahead of the join.  (During recovery a join may be refused, and the
\* socket stays in an older room.)
THEOREM ClicksMeanTheirPage == FeedSpec /\ known = Keys => []ClickMeansThePage
<1>1. ASSUME RoomInv, TypeOK PROVE ClickMeansThePage
  <2>1. made \in 0..MaxCalls /\ MaxCalls \in Nat BY <1>1, MutexAssumption DEF TypeOK
  <2>2. \A c \in 1..made : c \in Calls /\ c <= made BY <2>1 DEF Calls
  <2>. QED BY <1>1, <2>2 DEF RoomInv, ClicksMean, ClickMeansThePage
<1>2. FeedTypes /\ TypeOK /\ RoomInv /\ [FeedNext]_feedVars => RoomInv' BY RoomInvStep
<1>. QED BY <1>1, <1>2, RoomInit, FeedsAlways, PTL DEF FeedSpec
=============================================================================
