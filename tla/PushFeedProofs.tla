----------------------------- MODULE PushFeedProofs -----------------------------
(***************************************************************************)
(* The push feed, for any broker details, messages, delays and queue length:  *)
(* the type of its state, what stop() leaves to do, when a live connection     *)
(* is given up, and how long it waits after a failure.                        *)
(*                                                                          *)
(* After stop() nothing brings the coroutine back to the pump, because every   *)
(* way in looks at stop first; so the pump waits with a stop it has not seen     *)
(* at most once, and until then no handler call was late.                      *)
(*                                                                          *)
(* The delay is that of the failures counted so far, doubled once for each and *)
(* cut at its limit: doubling and cutting may be done in either order.         *)
(***************************************************************************)
EXTENDS PushFeed, FiniteSetTheorems, TLAPS

\* No handler call is late before stop(), nor while the pump still waits.
StopInv ==
    /\ stop \in BOOLEAN
    /\ history \in [fails : 0..MaxFails, late : 0..2]
    /\ ~stop => history.late = 0
    /\ at = "pump" => history.late = 0
    /\ history.late <= 1
---------------------------------------------------------------------------------
\* What the handler is told of any message is one of three outcomes.
LEMMA ReadingOutcome ==
    ASSUME NEW m
    PROVE  Reading(m).outcome \in {"applied", "refused", "unknown"}
BY DEF Reading, Outcome

\* The next backoff stays within its bounds.
LEMMA DoubledDelay ==
    ASSUME NEW d \in FirstDelay..MaxDelay
    PROVE  Least(2 * d, MaxDelay) \in FirstDelay..MaxDelay
BY PushAssumption DEF Least

\* A failure leaves every part of the state its type.
LEMMA FailTyped ==
    ASSUME TypeOK, Fail
    PROVE  TypeOK'
<1>1. delay' \in FirstDelay..MaxDelay
  BY PushAssumption DEF TypeOK, Fail
<1>2. history' \in [fails : 0..MaxFails, late : 0..2]
  BY PushAssumption DEF TypeOK, Fail, Least
<1>3. inbox' \in Seq(Messages)
  BY DEF Fail
<1>4. waited' \in 0..MaxDelay
  BY PushAssumption DEF Fail
<1> QED
  BY <1>1, <1>2, <1>3, <1>4 DEF TypeOK, Fail, Connected, Over

\* A round's step that is not a failure leaves every part of the state its type.
LEMMA RunTyped ==
    ASSUME TypeOK, Run
    PROVE  TypeOK'
<1> USE PushAssumption
<1>1. CASE Begin
  BY <1>1 DEF TypeOK, Begin, Go, Forget, Connected, Over
<1>2. CASE FetchFails \/ ConnectFails \/ LinkLost \/ DisconnectFails
  BY <1>2, FailTyped DEF FetchFails, ConnectFails, LinkLost, DisconnectFails
<1>3. CASE \E d \in Details : Fetched(d)
  BY <1>3 DEF TypeOK, Fetched, Connected, Over
<1>4. CASE Connect
  <2>1. client' \in [connected : BOOLEAN, broker : Details \cup {NoDetails}, refused : BOOLEAN]
    BY <1>4 DEF TypeOK, Connect
  <2> QED
    BY <1>4, <2>1 DEF TypeOK, Connect, Go, Connected, Over
<1>5. CASE Take
  <2>1. inbox' \in Seq(Messages)
    BY <1>5 DEF TypeOK, Take
  <2>2. history' \in [fails : 0..MaxFails, late : 0..2]
    BY <1>5 DEF TypeOK, Take, Least
  <2>3. shown'.outcome \in {"applied", "refused", "unknown"}
    BY <1>5, ReadingOutcome DEF Take
  <2> QED
    BY <1>5, <2>1, <2>2, <2>3 DEF TypeOK, Take, Go, Connected, Over
<1>6. CASE HandlerDone \/ StopSeen \/ CleanEnd
  BY <1>6 DEF TypeOK, HandlerDone, StopSeen, CleanEnd, Go, Connected, Over
<1>7. CASE Disconnect
  <2>1. client' \in [connected : BOOLEAN, broker : Details \cup {NoDetails}, refused : BOOLEAN]
    BY <1>7 DEF TypeOK, Disconnect
  <2>2. inbox' \in Seq(Messages)
    BY <1>7 DEF Disconnect
  <2> QED
    BY <1>7, <2>1, <2>2 DEF TypeOK, Disconnect, Go, Connected, Over
<1>8. CASE Wake
  <2>1. delay' \in FirstDelay..MaxDelay
    BY <1>8, DoubledDelay DEF TypeOK, Wake
  <2> QED
    BY <1>8, <2>1 DEF TypeOK, Wake, Go, Connected, Over
<1> QED
  BY <1>1, <1>2, <1>3, <1>4, <1>5, <1>6, <1>7, <1>8 DEF Run

\* What the world does leaves every part of the state its type.
LEMMA WorldTyped ==
    ASSUME TypeOK, World
    PROVE  TypeOK'
<1> USE PushAssumption
<1>1. CASE Stop
  BY <1>1 DEF TypeOK, Stop
<1>2. CASE Cancel
  <2>1. client' \in [connected : BOOLEAN, broker : Details \cup {NoDetails}, refused : BOOLEAN]
    BY <1>2 DEF TypeOK, Cancel
  <2>2. inbox' \in Seq(Messages)
    BY <1>2 DEF Cancel
  <2> QED
    BY <1>2, <2>1, <2>2 DEF TypeOK, Cancel, Connected, Over
<1>3. CASE \E m \in Messages : Arrive(m)
  BY <1>3 DEF TypeOK, Arrive
<1>4. CASE Drop
  BY <1>4 DEF TypeOK, Drop
<1>5. CASE Tick
  <2>1. age' \in {None} \cup 0..Stable
    BY <1>5 DEF TypeOK, Tick, Least, None
  <2>2. waited' \in 0..MaxDelay
    BY <1>5 DEF TypeOK, Tick, Least
  <2> QED
    BY <1>5, <2>1, <2>2 DEF TypeOK, Tick
<1> QED
  BY <1>1, <1>2, <1>3, <1>4, <1>5 DEF World

\* The delay never leaves FirstDelay..MaxDelay, whatever fails how often, and every other part of
\* the state keeps its type (run, lines 240 and 271 to 277).
THEOREM PushFeedTyped == Spec => []TypeOK
<1>1. Init => TypeOK
  <2> SUFFICES ASSUME Init PROVE TypeOK
    OBVIOUS
  <2>1. history \in [fails : 0..MaxFails, late : 0..2] /\ inbox \in Seq(Messages)
    BY PushAssumption DEF Init
  <2>2. client \in [connected : BOOLEAN, broker : Details \cup {NoDetails}, refused : BOOLEAN]
    BY DEF Init
  <2>3. shown.outcome \in {"applied", "refused", "unknown"}
    BY DEF Init, Unread
  <2>4. delay \in FirstDelay..MaxDelay /\ waited \in 0..MaxDelay
    BY PushAssumption DEF Init
  <2> QED
    BY <2>1, <2>2, <2>3, <2>4 DEF Init, TypeOK
<1>2. TypeOK /\ [Next]_vars => TypeOK'
  <2> SUFFICES ASSUME TypeOK, [Next]_vars PROVE TypeOK'
    OBVIOUS
  <2>1. CASE Run
    BY <2>1, RunTyped
  <2>2. CASE World
    BY <2>2, WorldTyped
  <2>3. CASE Finished \/ UNCHANGED vars
    BY <2>3 DEF TypeOK, Finished, vars
  <2> QED
    BY <2>1, <2>2, <2>3 DEF Next
<1> QED
  BY <1>1, <1>2, PTL DEF Spec
---------------------------------------------------------------------------------
\* A failure calls no handler and does not lead to the pump.
LEMMA FailStops ==
    ASSUME StopInv, Fail
    PROVE  StopInv'
<1>1. history'.late = history.late /\ history' \in [fails : 0..MaxFails, late : 0..2]
  BY PushAssumption DEF StopInv, Fail, Least
<1> QED
  BY <1>1 DEF StopInv, Fail

\* After stop() at most one more message reaches the handler, whatever the broker has queued and
\* however often the connection fails and comes back (_pump, lines 293 to 297).
THEOREM PushFeedStops == Spec => []AtMostOneAfterStop
<1>1. Init => StopInv
  <2> SUFFICES ASSUME Init PROVE StopInv
    OBVIOUS
  <2>1. history \in [fails : 0..MaxFails, late : 0..2]
    BY PushAssumption DEF Init
  <2>2. history.late = 0
    BY DEF Init
  <2>3. stop \in BOOLEAN
    BY DEF Init
  <2> QED
    BY <2>1, <2>2, <2>3 DEF StopInv
<1>2. StopInv /\ [Next]_vars => StopInv'
  <2> SUFFICES ASSUME StopInv, [Next]_vars PROVE StopInv'
    OBVIOUS
  <2> USE PushAssumption DEF StopInv
  <2>1. CASE FetchFails \/ ConnectFails \/ LinkLost \/ DisconnectFails
    BY <2>1, FailStops DEF FetchFails, ConnectFails, LinkLost, DisconnectFails
  <2>2. CASE Begin \/ (\E d \in Details : Fetched(d)) \/ Connect
    BY <2>2 DEF Begin, Fetched, Connect, Go
  <2>3. CASE Take
    BY <2>3 DEF Take, Go, Least
  <2>4. CASE HandlerDone \/ StopSeen \/ CleanEnd \/ Disconnect \/ Wake
    BY <2>4 DEF HandlerDone, StopSeen, CleanEnd, Disconnect, Wake, Go
  <2>5. CASE World
    BY <2>5 DEF World, Stop, Cancel, Arrive, Drop, Tick
  <2>6. CASE Finished \/ UNCHANGED vars
    BY <2>6 DEF Finished, vars
  <2> QED
    BY <2>1, <2>2, <2>3, <2>4, <2>5, <2>6 DEF Next, Run
<1>3. StopInv => AtMostOneAfterStop
  BY DEF StopInv, AtMostOneAfterStop
<1> QED
  BY <1>1, <1>2, <1>3, PTL DEF Spec

\* No message, no handler and nothing that fails elsewhere makes run() give up a connection that
\* is up: only stop() and a cancellation do (_pump, lines 293 to 309).
THEOREM PushFeedKeeps == Spec => FeedKept
<1>1. [Next]_vars =>
        [link = "up" /\ at \in {"pump", "handle"} /\ at' \notin {"pump", "handle"} =>
           stop \/ at' = "cancelled"]_vars
  <2> SUFFICES ASSUME Next, link = "up", at \in {"pump", "handle"}, at' \notin {"pump", "handle"}
               PROVE  stop \/ at' = "cancelled"
    OBVIOUS
  <2>1. CASE Run
    BY <2>1 DEF Run, Begin, FetchFails, Fetched, ConnectFails, Connect, Take, HandlerDone, StopSeen,
       LinkLost, CleanEnd, Disconnect, DisconnectFails, Wake, Go
  <2>2. CASE World
    BY <2>2 DEF World, Stop, Cancel, Arrive, Drop, Tick
  <2>3. CASE Finished
    BY <2>3 DEF Finished, Over
  <2> QED
    BY <2>1, <2>2, <2>3 DEF Next
<1> QED
  BY <1>1, PTL DEF Spec, FeedKept
---------------------------------------------------------------------------------
(* The backoff *)

\* Some number of a set of numbers is the least.
LEMMA LeastNumber ==
    ASSUME NEW S \in SUBSET Nat, S # {}
    PROVE  \E n \in S : \A m \in S : n <= m
<1> DEFINE Below == {0..n : n \in S}
<1>1. Below \subseteq FiniteSubsetsOf(Nat) /\ Below # {}
  <2>1. \A n \in Nat : 0..n \in SUBSET Nat /\ IsFiniteSet(0..n)
    BY FS_Interval
  <2> QED
    BY <2>1 DEF FiniteSubsetsOf
<1>2. PICK x \in Below : \A y \in Below : <<y, x>> \notin StrictSubsetOrdering(Nat)
  BY <1>1, WFMin, FS_StrictSubsetOrderingWellFounded
<1>3. PICK n \in S : x = 0..n
  BY <1>2
<1>4. ASSUME NEW m \in S, m < n PROVE FALSE
  <2>1. 0..m \in SUBSET Nat /\ 0..n \in SUBSET Nat /\ 0..m \subseteq 0..n /\ 0..m # 0..n
    BY <1>4
  <2>2. <<0..m, 0..n>> \in StrictSubsetOrdering(Nat)
    BY <2>1 DEF StrictSubsetOrdering
  <2> QED
    BY <2>2, <1>2, <1>3
<1> QED
  BY <1>4

\* The powers of two up to the n-th.
Doubling(n, g) ==
    /\ g \in [0..n -> Nat]
    /\ \A k \in 0..n : g[k] = IF k = 0 THEN 1 ELSE 2 * g[k - 1]

\* There are such lists of powers, of any length.
LEMMA DoublingExists ==
    ASSUME NEW n \in Nat
    PROVE  \E g : Doubling(n, g)
<1> DEFINE Missing == {k \in Nat : ~ \E g : Doubling(k, g)}
<1> SUFFICES ASSUME Missing # {} PROVE FALSE
  OBVIOUS
<1>1. PICK k \in Missing : \A j \in Missing : k <= j
  <2>1. Missing \in SUBSET Nat
    OBVIOUS
  <2> HIDE DEF Missing
  <2> QED
    BY <2>1, LeastNumber
<1>2. CASE k = 0
  <2>1. Doubling(0, [j \in 0..0 |-> 1])
    BY DEF Doubling
  <2> QED
    BY <1>1, <1>2, <2>1
<1>3. CASE k # 0
  <2>1. k - 1 \in Nat /\ k - 1 \notin Missing
    BY <1>1, <1>3
  <2>2. PICK g : Doubling(k - 1, g)
    BY <2>1
  <2> DEFINE h == [j \in 0..k |-> IF j = k THEN 2 * g[k - 1] ELSE g[j]]
  <2>3. g[k - 1] \in Nat /\ \A j \in 0..(k - 1) : g[j] \in Nat
    BY <2>1, <2>2 DEF Doubling
  <2>4. h \in [0..k -> Nat]
    BY <2>1, <2>3
  <2>5. ASSUME NEW j \in 0..k PROVE h[j] = IF j = 0 THEN 1 ELSE 2 * h[j - 1]
    <3>1. CASE j = k
      BY <1>3, <2>1, <3>1
    <3>2. CASE j # k
      <4>1. j \in 0..(k - 1) /\ (j # 0 => j - 1 \in 0..k /\ j - 1 # k)
        BY <2>1, <3>2
      <4>2. h[j] = g[j] /\ (j # 0 => h[j - 1] = g[j - 1])
        BY <3>2, <4>1
      <4>3. g[j] = IF j = 0 THEN 1 ELSE 2 * g[j - 1]
        BY <2>2, <4>1 DEF Doubling
      <4> QED
        BY <4>2, <4>3
    <3> QED
      BY <3>1, <3>2
  <2>6. Doubling(k, h)
    BY <2>4, <2>5 DEF Doubling
  <2> QED
    BY <1>1, <2>6
<1> QED
  BY <1>2, <1>3

\* A longer list begins as a shorter one.
LEMMA DoublingAgrees ==
    ASSUME NEW n \in Nat, NEW m \in Nat, n <= m, NEW g, NEW h, Doubling(n, g), Doubling(m, h)
    PROVE  \A k \in 0..n : g[k] = h[k]
<1> DEFINE Odd == {k \in 0..n : g[k] # h[k]}
<1> SUFFICES ASSUME Odd # {} PROVE FALSE
  OBVIOUS
<1>1. PICK k \in Odd : \A j \in Odd : k <= j
  <2>1. Odd \in SUBSET Nat
    OBVIOUS
  <2> HIDE DEF Odd
  <2> QED
    BY <2>1, LeastNumber
<1>2. k \in 0..n /\ k \in 0..m
  BY <1>1
<1>3. k # 0
  BY <1>1, <1>2 DEF Doubling
<1>4. k - 1 \in 0..n /\ k - 1 \notin Odd
  BY <1>1, <1>3
<1>5. g[k - 1] = h[k - 1]
  BY <1>4
<1> QED
  BY <1>1, <1>2, <1>3, <1>5 DEF Doubling

\* Power is what its recursive definition says.
LEMMA PowerStep ==
    /\ Power \in [Nat -> Nat]
    /\ Power[0] = 1
    /\ \A n \in Nat : Power[n + 1] = 2 * Power[n]
<1> DEFINE list(n) == CHOOSE g : Doubling(n, g)
           f == [n \in Nat |-> list(n)[n]]
<1>1. ASSUME NEW n \in Nat PROVE Doubling(n, list(n))
  BY DoublingExists
<1> HIDE DEF list
<1>2. ASSUME NEW n \in Nat PROVE f[n] \in Nat /\ f[n] = IF n = 0 THEN 1 ELSE 2 * f[n - 1]
  <2>1. /\ n \in 0..n /\ list(n)[n] \in Nat
        /\ list(n)[n] = IF n = 0 THEN 1 ELSE 2 * list(n)[n - 1]
    BY <1>1 DEF Doubling
  <2>2. ASSUME n # 0 PROVE list(n)[n - 1] = f[n - 1]
    <3>1. n - 1 \in Nat /\ n - 1 <= n /\ n - 1 \in 0..(n - 1)
      BY <2>2
    <3>2. Doubling(n - 1, list(n - 1)) /\ Doubling(n, list(n))
      BY <1>1, <3>1
    <3> QED
      BY <3>1, <3>2, DoublingAgrees
  <2> QED
    BY <2>1, <2>2
<1>3. f = [n \in Nat |-> IF n = 0 THEN 1 ELSE 2 * f[n - 1]]
  BY <1>2
<1> HIDE DEF f
<1>4. Power = [n \in Nat |-> IF n = 0 THEN 1 ELSE 2 * Power[n - 1]]
  BY <1>3 DEF Power
<1>5. Power[0] = 1 /\ \A n \in Nat : Power[n + 1] = 2 * Power[n]
  <2>1. \A n \in Nat : Power[n] = IF n = 0 THEN 1 ELSE 2 * Power[n - 1]
    BY <1>4
  <2>2. ASSUME NEW n \in Nat PROVE Power[n + 1] = 2 * Power[n]
    <3>1. n + 1 \in Nat /\ n + 1 # 0 /\ (n + 1) - 1 = n
      OBVIOUS
    <3> QED
      BY <2>1, <3>1
  <2> QED
    BY <2>1, <2>2
<1> DEFINE Odd == {n \in Nat : Power[n] \notin Nat}
<1>6. Odd = {}
  <2> SUFFICES ASSUME Odd # {} PROVE FALSE
    OBVIOUS
  <2>1. PICK k \in Odd : \A j \in Odd : k <= j
    <3>1. Odd \in SUBSET Nat
      OBVIOUS
    <3> HIDE DEF Odd
    <3> QED
      BY <3>1, LeastNumber
  <2>2. k # 0
    BY <1>5, <2>1
  <2>3. k - 1 \in Nat /\ k - 1 \notin Odd /\ (k - 1) + 1 = k
    BY <2>1, <2>2
  <2>4. Power[k - 1] \in Nat
    BY <2>3
  <2>5. Power[k] = 2 * Power[k - 1]
    BY <1>5, <2>3
  <2> QED
    BY <2>1, <2>4, <2>5
<1> QED
  BY <1>4, <1>5, <1>6

\* The backoff after n failures (run, lines 240 and 277).
Wait(n) == Least(FirstDelay * Power[n], MaxDelay)

\* The delay is that of the failures counted, before a failure as after it; only a connection has
\* an age, since every round forgets the one before.
BackoffInv ==
    /\ history \in [fails : 0..MaxFails, late : 0..2]
    /\ at \in {"fetch", "connect"} => age = None
    /\ at = "backoff" => history.fails >= 1 /\ delay = Wait(history.fails - 1)
    /\ at \notin Over \cup {"backoff"} => delay = Wait(history.fails)

\* The backoff is doubled from one failure to the next, up to its limit.
LEMMA WaitDoubles ==
    ASSUME NEW n \in Nat
    PROVE  Least(2 * Wait(n), MaxDelay) = Wait(n + 1)
<1> DEFINE x == FirstDelay * Power[n]
<1>1. x \in Nat /\ FirstDelay * Power[n + 1] = 2 * x
  <2>1. Power[n] \in Nat /\ Power[n + 1] = 2 * Power[n]
    BY PowerStep
  <2>2. \A p \in Nat : FirstDelay * p \in Nat /\ FirstDelay * (2 * p) = 2 * (FirstDelay * p)
    BY PushAssumption
  <2> QED
    BY <2>1, <2>2
<1> HIDE DEF x
<1>2. Wait(n) = Least(x, MaxDelay) /\ Wait(n + 1) = Least(2 * x, MaxDelay)
  BY <1>1 DEF Wait, x
<1> QED
  BY <1>1, <1>2, PushAssumption DEF Least

\* The first backoff, and the last two that are told apart.
LEMMA WaitEnds == Wait(0) = FirstDelay /\ Wait(MaxFails) = Wait(MaxFails - 1)
<1>1. Wait(0) = FirstDelay
  BY PowerStep, PushAssumption DEF Wait, Least
<1>2. Wait(MaxFails - 1) = MaxDelay
  <2> DEFINE x == FirstDelay * Power[MaxFails - 1]
  <2>1. MaxFails - 1 \in Nat
    BY PushAssumption
  <2>2. Power[MaxFails - 1] \in Nat
    BY <2>1, PowerStep
  <2>3. x \in Nat /\ x >= MaxDelay
    BY <2>2, PushAssumption, BoundAssumption
  <2>4. Wait(MaxFails - 1) = Least(x, MaxDelay)
    BY DEF Wait
  <2> HIDE DEF x
  <2> QED
    BY <2>3, <2>4, PushAssumption DEF Least
<1>3. Wait(MaxFails) = Least(2 * MaxDelay, MaxDelay)
  <2>1. MaxFails - 1 \in Nat /\ (MaxFails - 1) + 1 = MaxFails
    BY PushAssumption
  <2> QED
    BY <1>2, <2>1, WaitDoubles
<1>4. Least(2 * MaxDelay, MaxDelay) = MaxDelay
  BY PushAssumption DEF Least
<1> QED
  BY <1>1, <1>2, <1>3, <1>4

\* A failure waits as long as those before it ask for, and is counted.
LEMMA FailBacksOff ==
    ASSUME TypeOK, BackoffInv, Fail, at \in {"fetch", "connect"} \cup Connected
    PROVE  BackoffInv'
<1> USE PushAssumption
<1>1. at' = "backoff" /\ delay = Wait(history.fails) /\ history.fails \in 0..MaxFails
  BY DEF Fail, BackoffInv, Over, Connected
<1>2. CASE at \in Connected /\ age >= Stable
  <2>1. history'.fails = 1 /\ history' \in [fails : 0..MaxFails, late : 0..2] /\ delay' = FirstDelay
    BY <1>2 DEF Fail, BackoffInv
  <2> QED
    BY <1>1, <2>1, WaitEnds DEF BackoffInv
<1>3. CASE ~(at \in Connected /\ age >= Stable)
  <2>1. ~(age >= Stable)
    BY <1>3 DEF BackoffInv, None
  <2>2. /\ history'.fails = Least(history.fails + 1, MaxFails) /\ delay' = delay
        /\ history' = [history EXCEPT !.fails = Least(history.fails + 1, MaxFails)]
    BY <1>3, <2>1 DEF Fail, BackoffInv
  <2>3. Least(history.fails + 1, MaxFails) \in 1..MaxFails
    BY <1>1 DEF Least
  <2>4. history' \in [fails : 0..MaxFails, late : 0..2] /\ history'.fails >= 1
    BY <2>2, <2>3 DEF BackoffInv
  <2>5. delay' = Wait(history'.fails - 1)
    <3>1. CASE history.fails < MaxFails
      <4>1. history'.fails - 1 = history.fails
        BY <1>1, <2>2, <3>1 DEF Least
      <4> QED
        BY <1>1, <2>2, <4>1
    <3>2. CASE history.fails = MaxFails
      <4>1. history'.fails = MaxFails
        BY <2>2, <3>2 DEF Least
      <4> QED
        BY <1>1, <2>2, <3>2, <4>1, WaitEnds
    <3> QED
      BY <1>1, <3>1, <3>2
  <2> QED
    BY <1>1, <2>4, <2>5 DEF BackoffInv
<1> QED
  BY <1>2, <1>3

\* However often connections fail, and whether they were up before or not: the wait is doubled by
\* each failure since the last connection that held, up to its limit, and by nothing else (run,
\* lines 268 to 277).
THEOREM PushFeedBackoff == Spec => []BackoffFits
<1>1. Init => BackoffInv
  <2> SUFFICES ASSUME Init PROVE BackoffInv
    OBVIOUS
  <2>1. history \in [fails : 0..MaxFails, late : 0..2] /\ history.fails = 0
    BY PushAssumption DEF Init
  <2> QED
    BY <2>1, WaitEnds DEF Init, BackoffInv
<1>2. TypeOK /\ BackoffInv /\ [Next]_vars => BackoffInv'
  <2> SUFFICES ASSUME TypeOK, BackoffInv, [Next]_vars PROVE BackoffInv'
    OBVIOUS
  <2> USE PushAssumption
  <2>1. CASE FetchFails \/ ConnectFails \/ LinkLost \/ DisconnectFails
    BY <2>1, FailBacksOff DEF FetchFails, ConnectFails, LinkLost, DisconnectFails, Connected
  <2>2. CASE Begin
    BY <2>2 DEF Begin, Go, Forget, BackoffInv, Over
  <2>3. CASE \E d \in Details : Fetched(d)
    BY <2>3 DEF Fetched, BackoffInv, Over
  <2>4. CASE Connect \/ HandlerDone \/ StopSeen \/ CleanEnd \/ Disconnect
    BY <2>4 DEF Connect, HandlerDone, StopSeen, CleanEnd, Disconnect, Go, BackoffInv, Over
  <2>5. CASE Take
    <3>1. history' \in [fails : 0..MaxFails, late : 0..2] /\ history'.fails = history.fails
      BY <2>5 DEF Take, BackoffInv, Least
    <3> QED
      BY <2>5, <3>1 DEF Take, Go, BackoffInv, Over
  <2>6. CASE Wake
    <3>1. /\ at = "backoff" /\ at' = "check" /\ delay' = Least(2 * delay, MaxDelay)
          /\ history' = history
      BY <2>6 DEF Wake, Go
    <3>2. /\ history.fails - 1 \in Nat /\ (history.fails - 1) + 1 = history.fails
          /\ delay = Wait(history.fails - 1)
      BY <3>1 DEF BackoffInv
    <3>3. delay' = Wait(history.fails)
      BY <3>1, <3>2, WaitDoubles
    <3> QED
      BY <3>1, <3>3 DEF BackoffInv
  <2>7. CASE Cancel
    BY <2>7 DEF Cancel, BackoffInv, Over
  <2>8. CASE Stop \/ (\E m \in Messages : Arrive(m)) \/ Drop
    BY <2>8 DEF Stop, Arrive, Drop, BackoffInv
  <2>9. CASE Tick
    BY <2>9 DEF Tick, BackoffInv
  <2>10. CASE Finished \/ UNCHANGED vars
    BY <2>10 DEF Finished, vars, BackoffInv
  <2> QED
    BY <2>1, <2>2, <2>3, <2>4, <2>5, <2>6, <2>7, <2>8, <2>9, <2>10 DEF Next, Run, World
<1>3. BackoffInv => BackoffFits
  BY DEF BackoffInv, BackoffFits, Wait
<1> QED
  BY <1>1, <1>2, <1>3, PushFeedTyped, PTL DEF Spec
=================================================================================
