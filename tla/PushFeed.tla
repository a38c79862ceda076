-------------------------------- MODULE PushFeed --------------------------------
(***************************************************************************)
(* push.py: PushClient.run and _pump, the subscription to command results.  *)
(* One coroutine fetches the broker's details, connects, hands each message  *)
(* to the handler and starts over when the connection fails, until stop() is  *)
(* called or its task is cancelled.  The service that hands out the details,   *)
(* the broker, the MQTT library that queues its messages and the handler are   *)
(* external: each may fail whenever it is used.                              *)
(***************************************************************************)
EXTENDS CommandResult

CONSTANTS
    FirstDelay, MaxDelay,   \* seconds between attempts: 5, doubled up to 300
    Stable,                 \* STABLE_SECONDS
    AllowPlaintext,         \* the caller's allow_plaintext
    Decrypts,               \* a decryptor was configured
    Details,                \* broker details the service may hand out
    Messages,               \* messages the broker may deliver
    MaxCauses,              \* causes a result names: 4
    MaxInbox, MaxFails      \* bounds: queued messages, failures counted

ASSUME PushAssumption ==
    /\ FirstDelay \in Nat \ {0} /\ MaxDelay \in Nat /\ FirstDelay <= MaxDelay
    /\ Stable \in Nat \ {0} /\ MaxInbox \in Nat /\ MaxFails \in Nat \ {0}
    /\ AllowPlaintext \in BOOLEAN /\ Decrypts \in BOOLEAN

Power[n \in Nat] == IF n = 0 THEN 1 ELSE 2 * Power[n - 1]

\* Failures are counted until the backoff has reached its limit.
ASSUME BoundAssumption == FirstDelay * Power[MaxFails - 1] >= MaxDelay

VARIABLES
    at,         \* where run() is
    stop,       \* the stop event
    delay,      \* the next backoff
    age,        \* seconds since connected_at, None if it is not set
    waited,     \* seconds spent in the backoff
    info,       \* the details this round fetched
    client,     \* PushClient's attributes: connected, broker, refused (refused_plaintext)
    link,       \* the MQTT connection: none, up, lost
    inbox,      \* messages the library has queued
    shown,      \* the message the handler was given last, and how it was read
    history     \* failures since the backoff last started over; handler calls begun after stop

vars == <<at, stop, delay, age, waited, info, client, link, inbox, shown, history>>

None == -1
NoDetails == [none |-> TRUE]
Unread == [message |-> NoDetails, outcome |-> "unknown", causes |-> <<>>]
Over == {"ended", "cancelled"}
Connected == {"pump", "handle", "leave"}
Least(m, n) == IF m < n THEN m ELSE n

Init ==
    /\ at = "check" /\ stop = FALSE
    /\ delay = FirstDelay /\ age = None /\ waited = 0
    /\ info = NoDetails
    /\ client = [connected |-> FALSE, broker |-> NoDetails, refused |-> FALSE]
    /\ link = "none" /\ inbox = <<>> /\ shown = Unread
    /\ history = [fails |-> 0, late |-> 0]
---------------------------------------------------------------------------------
\* BrokerInfo.from_data: the port, inside the host only if the details name none besides.
PortOf(d) == IF d.port # 0 THEN d.port ELSE d.hostPort

\* BrokerInfo.from_data: an explicit scheme decides the transport, else the standard TLS port.
Tls(d) == IF d.scheme = "none" THEN PortOf(d) = 8883 ELSE d.scheme = "secure"

\* Details that can be used: a host, a topic, a known scheme, a port that is a number.
Usable(d) == d.host /\ d.topics # {} /\ d.scheme # "other" /\ PortOf(d) # None

\* _unwrap: with a decryptor, only an envelope that opens has a payload.
Opens(m) == IF Decrypts THEN m.envelope = "good" ELSE m.envelope = "plain"

\* What the handler is told of a message: its outcome and the car's causes.
Reading(m) ==
    IF Opens(m) THEN [message |-> m, outcome |-> Outcome(m), causes |-> Causes(m, MaxCauses)]
    ELSE [message |-> m, outcome |-> "unknown", causes |-> <<>>]
---------------------------------------------------------------------------------
Go(from, to) == at = from /\ at' = to

\* Each round starts without a connection time.
Forget == age' = None

\* Mutant of Begin: the loop never looks at the stop event.
BeginAnyway ==
    /\ Go("check", "fetch") /\ Forget
    /\ UNCHANGED <<stop, delay, waited, info, client, link, inbox, shown, history>>

\* while not stop: ask for the broker's details, or end.
Begin ==
    /\ IF stop THEN Go("check", "ended") /\ UNCHANGED age ELSE Go("check", "fetch") /\ Forget
    /\ UNCHANGED <<stop, delay, waited, info, client, link, inbox, shown, history>>

\* The exception handler of run(): a connection that held starts the backoff over.
Fail ==
    /\ at' = "backoff" /\ waited' = 0 /\ link' = "none" /\ inbox' = <<>>
    /\ client' = [client EXCEPT !.connected = FALSE]
    /\ delay' = IF age >= Stable THEN FirstDelay ELSE delay
    /\ history' = [history EXCEPT !.fails =
           IF at \in Connected /\ age >= Stable THEN 1 ELSE Least(@ + 1, MaxFails)]
    /\ UNCHANGED <<stop, age, info, shown>>

\* fetch_info raises, or the details cannot be used.
FetchFails == at = "fetch" /\ Fail

\* Details that can be used: a plaintext broker the caller does not allow ends the feed for good.
Fetched(d) ==
    /\ at = "fetch" /\ Usable(d)
    /\ info' = d
    /\ IF Tls(d) \/ AllowPlaintext
       THEN at' = "connect" /\ UNCHANGED client
       ELSE at' = "ended" /\ client' = [client EXCEPT !.refused = TRUE]
    /\ UNCHANGED <<stop, delay, age, waited, link, inbox, shown, history>>

ConnectFails == at = "connect" /\ Fail

\* Connected and subscribed to every topic; _pump looks at stop before it waits.
Connect ==
    /\ Go("connect", IF stop THEN "leave" ELSE "pump")
    /\ link' = "up" /\ age' = 0
    /\ client' = [client EXCEPT !.connected = TRUE, !.broker = info]
    /\ UNCHANGED <<stop, delay, waited, info, inbox, shown, history>>

\* _pump waits for a message and for stop; if both are there, the message goes first.
Take ==
    /\ inbox # <<>>
    /\ Go("pump", "handle")
    /\ shown' = Reading(Head(inbox))
    /\ inbox' = Tail(inbox)
    /\ history' = [history EXCEPT !.late = IF stop THEN Least(@ + 1, 2) ELSE @]
    /\ UNCHANGED <<stop, delay, age, waited, info, client, link>>

\* Mutant of HandlerDone: what the handler raises reaches run().
HandlerRaises ==
    /\ at = "handle"
    /\ IF stop THEN at' = "leave" /\ UNCHANGED <<delay, waited, client, link, inbox, history>>
       ELSE at' = "backoff" /\ link' = "none" /\ UNCHANGED <<delay, waited, client, inbox, history>>
    /\ UNCHANGED <<stop, age, info, shown>>

\* Mutant of HandlerDone: the pump waits for the next message without a look at stop.
HandlerOnly ==
    /\ Go("handle", "pump")
    /\ UNCHANGED <<stop, delay, age, waited, info, client, link, inbox, shown, history>>

\* The handler returns, or raises what _pump logs.
HandlerDone ==
    /\ Go("handle", IF stop THEN "leave" ELSE "pump")
    /\ UNCHANGED <<stop, delay, age, waited, info, client, link, inbox, shown, history>>

StopSeen ==
    /\ stop
    /\ Go("pump", "leave")
    /\ UNCHANGED <<stop, delay, age, waited, info, client, link, inbox, shown, history>>

\* The queue is empty and the link is gone: the library raises...
LinkLost == at = "pump" /\ link = "lost" /\ inbox = <<>> /\ Fail

\* ... or ends the iteration, and _pump returns.
CleanEnd ==
    /\ link = "lost" /\ inbox = <<>>
    /\ Go("pump", "leave")
    /\ UNCHANGED <<stop, delay, age, waited, info, client, link, inbox, shown, history>>

\* The client disconnects; run() looks at stop again, without a backoff.
Disconnect ==
    /\ Go("leave", "check")
    /\ link' = "none" /\ inbox' = <<>>
    /\ client' = [client EXCEPT !.connected = FALSE]
    /\ UNCHANGED <<stop, delay, age, waited, info, shown, history>>

DisconnectFails == at = "leave" /\ Fail

\* Mutant of Wake: every backoff is the first one.
WakeFlat ==
    /\ waited = delay \/ stop
    /\ Go("backoff", "check")
    /\ UNCHANGED <<stop, delay, age, waited, info, client, link, inbox, shown, history>>

\* Mutant of Wake: the backoff has no limit.
WakeUncapped ==
    /\ waited = delay \/ stop
    /\ Go("backoff", "check")
    /\ delay' = 2 * delay
    /\ UNCHANGED <<stop, age, waited, info, client, link, inbox, shown, history>>

\* The backoff is over, or stop ends it.
Wake ==
    /\ waited = delay \/ stop
    /\ Go("backoff", "check")
    /\ delay' = Least(2 * delay, MaxDelay)
    /\ UNCHANGED <<stop, age, waited, info, client, link, inbox, shown, history>>
---------------------------------------------------------------------------------
Stop ==
    /\ ~stop
    /\ stop' = TRUE
    /\ UNCHANGED <<at, delay, age, waited, info, client, link, inbox, shown, history>>

\* The task is cancelled at one of its awaits.
Cancel ==
    /\ at \notin Over \cup {"check"}
    /\ at' = "cancelled" /\ link' = "none" /\ inbox' = <<>>
    /\ client' = [client EXCEPT !.connected = FALSE]
    /\ UNCHANGED <<stop, delay, age, waited, info, shown, history>>

Arrive(m) ==
    /\ link = "up" /\ Len(inbox) < MaxInbox
    /\ inbox' = Append(inbox, m)
    /\ UNCHANGED <<at, stop, delay, age, waited, info, client, link, shown, history>>

Drop ==
    /\ link = "up"
    /\ link' = "lost"
    /\ UNCHANGED <<at, stop, delay, age, waited, info, client, inbox, shown, history>>

\* A second passes; ages beyond Stable are not told apart.
Tick ==
    /\ at \notin Over
    /\ age' = IF age = None THEN None ELSE Least(age + 1, Stable)
    /\ waited' = IF at = "backoff" THEN Least(waited + 1, delay) ELSE waited
    /\ UNCHANGED <<at, stop, delay, info, client, link, inbox, shown, history>>

Finished == at \in Over /\ UNCHANGED vars

Run ==
    \/ Begin \/ FetchFails \/ (\E d \in Details : Fetched(d))
    \/ ConnectFails \/ Connect
    \/ Take \/ HandlerDone \/ StopSeen \/ LinkLost \/ CleanEnd
    \/ Disconnect \/ DisconnectFails \/ Wake

World == Stop \/ Cancel \/ (\E m \in Messages : Arrive(m)) \/ Drop \/ Tick

Next == Run \/ World \/ Finished

Spec == Init /\ [][Next]_vars

\* The event loop runs the coroutine: requests, connections and the handler end (each of the
\* first two has a time limit), and time passes.
FairSpec == Spec /\ WF_vars(Run) /\ WF_vars(Tick)
---------------------------------------------------------------------------------
\* Every part of the state has its type.
TypeOK ==
    /\ at \in {"check", "fetch", "connect", "backoff"} \cup Connected \cup Over
    /\ stop \in BOOLEAN
    /\ delay \in FirstDelay..MaxDelay
    /\ age \in {None} \cup 0..Stable
    /\ waited \in 0..MaxDelay
    /\ info \in Details \cup {NoDetails}
    /\ client \in [connected : BOOLEAN, broker : Details \cup {NoDetails}, refused : BOOLEAN]
    /\ link \in {"none", "up", "lost"}
    /\ inbox \in Seq(Messages)
    /\ shown.outcome \in {"applied", "refused", "unknown"}
    /\ history \in [fails : 0..MaxFails, late : 0..2]

\* After stop() at most one more message reaches the handler: the one that was already there
\* when the pump was woken (_pump, lines 293 to 297).
AtMostOneAfterStop == history.late <= 1

\* The wait before an attempt is doubled by each failure since the last connection that held for
\* STABLE_SECONDS, up to five minutes, and by nothing else (run, lines 268 to 277): rounds that
\* end without an exception, or whose connection failed young, do not start it over.
BackoffFits ==
    at = "backoff" =>
        delay = Least(FirstDelay * Power[history.fails - 1], MaxDelay)

\* A live connection is given up only for stop() or a cancellation: a message that cannot be
\* read and a handler that raises leave the feed as it is (_pump, lines 303 to 309).
FeedKept ==
    [][link = "up" /\ at \in {"pump", "handle"} /\ at' \notin {"pump", "handle"} =>
       stop \/ at' = "cancelled"]_vars

\* stop() ends the feed, wherever it is (run, lines 241 and 274; _pump, lines 293 and 296).
Ends == stop ~> at \in Over
=================================================================================
