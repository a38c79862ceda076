---------------------------------- MODULE Puzzle ----------------------------------
(***************************************************************************)
(* The slide-puzzle step of signing in: PuzzleSession and the browser page of *)
(* puzzle.py, client.py's start_captcha and request_sms, and the little server *)
(* of cli.py between them.  The page may be open in several tabs.  The server's *)
(* threads read the session while the event loop changes it, so a poll reads    *)
(* its fields one by one, and a new puzzle is put in place in two steps.        *)
(* The services of the account and of the captcha are external.               *)
(***************************************************************************)
EXTENDS Integers, FiniteSets

CONSTANTS
    Tabs,
    \* Bounds of an instance.
    MaxPresses, MaxPuzzles, MaxNotices, MaxPolls, MaxFaults

ASSUME PuzzleAssumption ==
    /\ IsFiniteSet(Tabs)
    /\ {MaxPresses, MaxPuzzles, MaxNotices, MaxPolls, MaxFaults} \subseteq Nat /\ MaxPuzzles > 0

VARIABLES
    session,    \* the PuzzleSession; puzzle numbers its captcha
    page,       \* page[t]: tab t's script; seen holds the puzzles its two images are of
    poll,       \* poll[t]: tab t's request for the state; stage is the field read last
    press,      \* press[i]: the i-th Verify, its submit() and its reply
    server,     \* open, or shut by the command line
    budget,     \* replies that may be lost and answers nobody expects, still allowed
    history     \* what really happened: read by properties only

vars == <<session, page, poll, press, server, budget, history>>

Presses == 1..MaxPresses
Working == {"check", "send", "fetch", "install"}
Replies == {"verified", "no", "busy", "error"}
Idle == [stage |-> "idle", nid |-> 0, attempt |-> 0, status |-> "pending",
         background |-> 0, piece |-> 0]

Init ==
    /\ session = [status |-> "pending", busy |-> FALSE, needNew |-> FALSE,
                  attempt |-> 1, puzzle |-> 1, nid |-> 0]
    /\ page = [t \in Tabs |-> [at |-> 0, seen |-> {}, nid |-> 0, done |-> FALSE,
                               enabled |-> TRUE, timers |-> 0]]
    /\ poll = [t \in Tabs |-> Idle]
    /\ press = [i \in Presses |-> [stage |-> "unused"]]
    /\ server = "open"
    /\ budget = MaxFaults
    /\ history = [sms |-> 0, unheard |-> 0, rejected |-> {}, odd |-> {}, pressed |-> {},
                  blind |-> FALSE]
---------------------------------------------------------------------------------
(* submit(), one action per stretch between two awaits *)

Reach(i, from, to) == press[i].stage = from /\ press' = [press EXCEPT ![i].stage = to]

\* Mutant of Settled: a second slide is checked beside the first.
SettledUnguarded ==
    CASE session.status = "ok" -> "verified"
      [] session.status = "failed" -> "no"
      [] OTHER -> "none"

\* What submit() returns without asking anybody.
Settled ==
    CASE session.status = "ok" -> "verified"
      [] session.status = "failed" -> "no"
      [] session.status = "pending" /\ session.busy -> "busy"
      [] OTHER -> "none"

Answer(i) == Settled # "none" /\ Reach(i, "sent", Settled) /\ UNCHANGED <<session, history>>

\* The slide is sent to be checked, unless a new puzzle must be shown first.
Start(i) ==
    /\ Settled = "none"
    /\ Reach(i, "sent", IF session.needNew THEN "fetch" ELSE "check")
    /\ session' = [session EXCEPT !.busy = TRUE]
    /\ UNCHANGED history

Right(i) == Reach(i, "check", "send") /\ UNCHANGED <<session, history>>

\* Mutant of Wrong: the need of a new puzzle is not kept for the case it cannot be fetched.
WrongForgotten(i) ==
    /\ Reach(i, "check", "fetch")
    /\ history' = [history EXCEPT !.rejected = @ \cup {session.puzzle}]
    /\ UNCHANGED session

Wrong(i) ==
    /\ Reach(i, "check", "fetch")
    /\ session' = [session EXCEPT !.needNew = TRUE]
    /\ history' = [history EXCEPT !.rejected = @ \cup {session.puzzle}]

\* The SMS is on its way.
Sent(i) ==
    /\ Reach(i, "send", "verified")
    /\ session' = [session EXCEPT !.status = "ok", !.busy = FALSE]
    /\ history' = [history EXCEPT !.sms = @ + 1]

\* LoginError: another puzzle cannot help.
Refused(i) ==
    /\ Reach(i, "send", "no")
    /\ session' = [session EXCEPT !.status = "failed", !.busy = FALSE]
    /\ UNCHANGED history

\* Mutant of Install: the attempt is counted before its captcha is in place.
InstallSwapped(step, s) ==
    IF step = 2 THEN [s EXCEPT !.puzzle = @ + 1] ELSE [s EXCEPT !.attempt = @ + 1]

\* Mutant of Install: the attempt is counted with its captcha, and once more.
InstallTwice(step, s) ==
    IF step = 1 THEN [s EXCEPT !.puzzle = @ + 1, !.attempt = @ + 1] ELSE [s EXCEPT !.attempt = @ + 1]

\* _new_puzzle: the captcha first, then the attempt that tells the pages of it.
Install(step, s) ==
    IF step = 1 THEN [s EXCEPT !.puzzle = @ + 1] ELSE [s EXCEPT !.attempt = @ + 1]

NewPuzzle(i) ==
    /\ session.puzzle < MaxPuzzles
    /\ Reach(i, "fetch", "install")
    /\ session' = Install(1, session)
    /\ UNCHANGED history

CountAttempt(i) ==
    /\ Reach(i, "install", "no")
    /\ session' = [Install(2, session) EXCEPT !.needNew = FALSE, !.busy = FALSE]
    /\ UNCHANGED history

\* _show_notice, and the end of a submit() that could not reach the service.
Notice(i) ==
    /\ session.nid < MaxNotices
    /\ press' = [press EXCEPT ![i].stage = "no"]
    /\ session' = [session EXCEPT !.nid = @ + 1, !.busy = FALSE]

\* A rate limit, an error of the service or of the network: the pages show a notice.
CannotReach(i) ==
    /\ press[i].stage \in {"check", "send", "fetch"}
    /\ Notice(i)
    /\ UNCHANGED history

Submit(i) ==
    /\ Answer(i) \/ Start(i) \/ Right(i) \/ Wrong(i) \/ Sent(i) \/ Refused(i)
       \/ NewPuzzle(i) \/ CountAttempt(i) \/ CannotReach(i)
    /\ UNCHANGED <<page, poll, server, budget>>

\* The SMS is sent and its answer lost: for submit() an error of the network like any other.
SentUnheard(i) ==
    /\ press[i].stage = "send" /\ budget > 0
    /\ Notice(i)
    /\ history' = [history EXCEPT !.sms = @ + 1, !.unheard = @ + 1]
    /\ budget' = budget - 1
    /\ UNCHANGED <<page, poll, server>>

\* An answer that cannot be read: submit() raises, and the server drops the request.  The SMS
\* asked for may have been sent all the same.
Unexpected(i) ==
    /\ press[i].stage \in {"check", "send", "fetch"} /\ budget > 0
    /\ press' = [press EXCEPT ![i].stage = "error"]
    /\ session' = [session EXCEPT !.busy = FALSE]
    /\ budget' = budget - 1
    /\ \E n \in {0, IF press[i].stage = "send" THEN 1 ELSE 0} :
          history' = [history EXCEPT !.sms = @ + n, !.unheard = @ + n,
                                     !.odd = @ \cup {press[i].tab}]
    /\ UNCHANGED <<page, poll, server>>
---------------------------------------------------------------------------------
(* The page's script *)

Finish(p) == [p EXCEPT !.done = TRUE, !.enabled = FALSE]

\* Verify: the button is disabled until something enables it.  It can be pressed as soon as the
\* page is loaded, with no puzzle on show yet: blind.
Verify(t) ==
    /\ server = "open" /\ page[t].enabled /\ ~page[t].done
    /\ \E i \in Presses :
          /\ press[i].stage = "unused" /\ \A j \in 1..(i - 1) : press[j].stage # "unused"
          /\ press' = [press EXCEPT ![i] = [stage |-> "sent", tab |-> t, seen |-> page[t].seen]]
    /\ page' = [page EXCEPT ![t].enabled = FALSE]
    /\ history' = [history EXCEPT !.pressed = @ \cup {t}, !.blind = @ \/ page[t].seen = {}]
    /\ UNCHANGED <<session, poll, server, budget>>

\* Mutant of Heard: an error leaves the button as it is.
HeardNothing(p, reply) == IF reply = "verified" THEN Finish(p) ELSE p

\* The page hears of its Verify; an error enables the button again in three seconds.
Heard(p, reply) ==
    CASE reply = "verified" -> Finish(p)
      [] reply = "error" -> [p EXCEPT !.timers = @ + 1]
      [] OTHER -> p

\* The reply arrives, or is lost: the page's fetch raises.
Hear(i) ==
    /\ press[i].stage \in Replies
    /\ LET t == press[i].tab
       IN  \/ page' = [page EXCEPT ![t] = Heard(@, press[i].stage)] /\ UNCHANGED budget
           \/ /\ budget > 0
              /\ page' = [page EXCEPT ![t] = Heard(@, "error")]
              /\ budget' = budget - 1
    /\ press' = [press EXCEPT ![i] = [stage |-> "heard"]]
    /\ UNCHANGED <<session, poll, server, history>>

\* state() reads one more field of the session, in the server's thread.
Read(t, from, field, value) ==
    /\ poll[t].stage = from
    /\ poll' = [poll EXCEPT ![t] = [@ EXCEPT !.stage = field, ![field] = value]]
    /\ UNCHANGED <<session, page, press, server, budget, history>>

\* The page asks for the state, if fewer than MaxPolls requests for it are being answered.
Ask(t) ==
    /\ server = "open" /\ ~page[t].done
    /\ Cardinality({v \in Tabs : poll[v].stage # "idle"}) < MaxPolls
    /\ Read(t, "idle", "nid", session.nid)

\* The fields in the order of state(): each of the two images is of the captcha of its moment.
ReadOn(t) ==
    \/ Read(t, "nid", "attempt", session.attempt)
    \/ Read(t, "attempt", "status", session.status)
    \/ Read(t, "status", "background", session.puzzle)
    \/ Read(t, "background", "piece", session.puzzle)

\* What the page makes of a state: a new attempt, the end, or a notice with a time to wait.
Shown(p, s) ==
    LET fresh == IF s.attempt = p.at THEN p
                 ELSE [p EXCEPT !.at = s.attempt, !.seen = {s.background, s.piece}, !.enabled = TRUE]
    IN  IF p.done THEN p
        ELSE IF s.status # "pending" THEN Finish(fresh)
        ELSE IF s.nid # p.nid THEN [fresh EXCEPT !.nid = s.nid, !.timers = @ + 1]
        ELSE fresh

\* The state arrives; a lost one is asked for again.
Show(t) ==
    /\ poll[t].stage = "piece"
    /\ \/ page' = [page EXCEPT ![t] = Shown(@, poll[t])] /\ UNCHANGED budget
       \/ budget > 0 /\ budget' = budget - 1 /\ UNCHANGED page
    /\ poll' = [poll EXCEPT ![t] = Idle]
    /\ UNCHANGED <<session, press, server, history>>

\* A timer of the page runs out.
Enable(t) ==
    /\ page[t].timers > 0
    /\ page' = [page EXCEPT ![t].timers = @ - 1, ![t].enabled = IF page[t].done THEN @ ELSE TRUE]
    /\ UNCHANGED <<session, poll, press, server, budget, history>>
---------------------------------------------------------------------------------
\* The command line shuts the server down as soon as the session is no longer pending.
Shut ==
    /\ server = "open" /\ session.status # "pending"
    /\ server' = "shut"
    /\ UNCHANGED <<session, page, poll, press, budget, history>>

Serve == \E i \in Presses : Submit(i) \/ Hear(i)

Poll(t) == Ask(t) \/ ReadOn(t) \/ Show(t)

Next ==
    \/ Serve \/ Shut
    \/ \E i \in Presses : Unexpected(i) \/ SentUnheard(i)
    \/ \E t \in Tabs : Poll(t) \/ Verify(t) \/ Enable(t)

Spec == Init /\ [][Next]_vars

\* The event loop and the server's threads run, the service answers within the time limit, and
\* the page's timers fire; nobody has to press Verify.  An open page asks again and again (setTimeout),
\* although the bound MaxPolls keeps it from asking while another page's request is answered.
FairSpec ==
    /\ Spec
    /\ WF_vars(Serve) /\ WF_vars(\E t \in Tabs : Enable(t))
    /\ \A t \in Tabs :
          /\ WF_vars(Poll(t))
          /\ []<>(poll[t].stage # "idle" \/ page[t].done \/ server = "shut")
---------------------------------------------------------------------------------
\* Every part of the state has its type.
TypeOK ==
    /\ session \in [status : {"pending", "ok", "failed"}, busy : BOOLEAN, needNew : BOOLEAN,
                    attempt : 1..MaxPuzzles, puzzle : 1..MaxPuzzles, nid : 0..MaxNotices]
    /\ page \in [Tabs -> [at : 0..MaxPuzzles, seen : SUBSET (1..MaxPuzzles), nid : 0..MaxNotices,
                          done : BOOLEAN, enabled : BOOLEAN, timers : Nat]]
    /\ \A t \in Tabs : poll[t].stage \in {"idle", "nid", "attempt", "status", "background", "piece"}
    /\ \A i \in Presses : press[i].stage \in {"unused", "sent", "heard"} \cup Working \cup Replies
    /\ server \in {"open", "shut"}
    /\ budget \in 0..MaxFaults

\* A right slide sends one SMS, however many tabs press Verify at once or again: a second is sent
\* only if the answer to the first was lost or unreadable (submit's busy flag, its short answers).
SmsOnce == history.sms <= 1 + history.unheard

\* A puzzle whose slide was wrong is never sent to be checked again, although the fetch of the next
\* one may fail: the user solves a new puzzle before anything else is sent (submit, _need_new).
RejectedNotReused ==
    \A i \in Presses : press[i].stage = "check" => session.puzzle \notin history.rejected

\* Both images of the slide that is checked are of the puzzle it is checked against, as long as one
\* tab is used, its Verify is pressed with a puzzle on show, and the page hears all replies: the page
\* never shows an old or a mixed picture under a new attempt (submit, _new_puzzle, state, PAGE).
\* (After a blind press, the first puzzle that arrives enables the button while the press is still
\* being checked, and a slide drawn on it can be checked against the puzzle fetched meanwhile.)
SlideFits ==
    \A i \in Presses :
        press[i].stage = "check" /\ history.pressed = {press[i].tab} /\ ~history.blind
            /\ budget = MaxFaults => press[i].seen = {session.puzzle}

\* While the page is served its button never stays disabled: every Verify ends in a new attempt, a
\* notice, an error or an end the page comes to know of.  (Not so in a tab told "busy" if the
\* other tab's submit() then raises what it does not expect: nothing tells the first tab.)
ButtonReturns ==
    \A t \in Tabs :
        []<>(page[t].enabled \/ page[t].done \/ server = "shut" \/ history.odd \ {t} # {})
=================================================================================
