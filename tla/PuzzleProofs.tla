------------------------------- MODULE PuzzleProofs -------------------------------
(***************************************************************************)
(* The slide puzzle, for any number of tabs and presses of Verify: one SMS, and *)
(* no second look at a puzzle that was turned down.                            *)
(*                                                                          *)
(* Both rest on the busy flag: it is set as long as a submit() is between its   *)
(* check of the flag and its end, so at most one is, and the session is pending  *)
(* until that one says otherwise.  A rejected puzzle stays on show only while     *)
(* _need_new is set, and with it set nothing is sent to be checked.              *)
(*                                                                          *)
(* A slide fits its puzzle because a tab used alone has one thing at most that   *)
(* lets it press again: an enabled button, a timer, a submit() under way, or an  *)
(* attempt or a notice it has not seen (Rights).                                 *)
(***************************************************************************)
EXTENDS Puzzle, TLAPS

\* The fields of the session, and of a press, that the argument reads.
Shapes ==
    /\ session \in [status : {"pending", "ok", "failed"}, busy : BOOLEAN, needNew : BOOLEAN,
                    attempt : Int, puzzle : Int, nid : Int]
    /\ DOMAIN press = Presses
    /\ \A i \in Presses : "stage" \in DOMAIN press[i]
    /\ DOMAIN history = {"sms", "unheard", "rejected", "odd", "pressed", "blind"}
    /\ history.sms \in Int /\ history.unheard \in Int /\ history.blind \in BOOLEAN

\* At most one submit() is under way; while it is, the flag is set and nothing is settled.
OneSubmit ==
    \A i \in Presses : press[i].stage \in Working =>
        /\ session.busy = TRUE
        /\ session.status = "pending"
        /\ \A j \in Presses : press[j].stage \in Working => j = i

\* An SMS whose answer was heard is the one the session ended with.
SmsCounted == history.sms = history.unheard + (IF session.status = "ok" THEN 1 ELSE 0)

\* A rejected puzzle is on show only while a new one is needed.
Rejected ==
    /\ \A n \in history.rejected : n \in Int /\ n <= session.puzzle
    /\ session.puzzle \in history.rejected => session.needNew = TRUE
    /\ \A i \in Presses : press[i].stage = "check" => session.needNew = FALSE
    /\ \A i \in Presses : press[i].stage = "install" => session.puzzle \notin history.rejected

PuzzleInv == Shapes /\ OneSubmit /\ SmsCounted /\ Rejected
-----------------------------------------------------------------------------------
\* What moves one press leaves the others where they are.
LEMMA Moved ==
    ASSUME Shapes, NEW i \in Presses, NEW to, press' = [press EXCEPT ![i].stage = to]
    PROVE  /\ DOMAIN press' = Presses
           /\ \A j \in Presses : "stage" \in DOMAIN press'[j]
           /\ press'[i].stage = to
           /\ \A j \in Presses : j # i => press'[j] = press[j]
BY DEF Shapes

\* The end of a submit() that could not reach the service keeps the invariant, whatever SMS it sent.
LEMMA NoticeKeeps ==
    ASSUME PuzzleInv, NEW i \in Presses, press[i].stage \in {"check", "send", "fetch"}, Notice(i),
           DOMAIN history' = DOMAIN history, history'.rejected = history.rejected,
           history'.blind = history.blind,
           history'.sms \in Int, history'.unheard \in Int,
           history'.sms - history'.unheard = history.sms - history.unheard
    PROVE  PuzzleInv'
<1> USE DEF Notice, PuzzleInv
<1>1. /\ DOMAIN press' = Presses
      /\ \A j \in Presses : "stage" \in DOMAIN press'[j]
      /\ press'[i].stage = "no"
      /\ \A j \in Presses : j # i => press'[j] = press[j]
  BY Moved
<1>2. /\ session' \in [status : {"pending", "ok", "failed"}, busy : BOOLEAN, needNew : BOOLEAN,
                       attempt : Int, puzzle : Int, nid : Int]
      /\ session'.status = session.status /\ session'.needNew = session.needNew
      /\ session'.puzzle = session.puzzle
  <2>1. session' = [session EXCEPT !.nid = session.nid + 1, !.busy = FALSE]
    OBVIOUS
  <2>2. session.nid + 1 \in Int
    BY DEF Shapes
  <2> HIDE DEF Notice
  <2> QED
    BY <2>1, <2>2 DEF Shapes
<1>3. Shapes'
  BY <1>1, <1>2 DEF Shapes
<1>4. OneSubmit'
  BY <1>1 DEF OneSubmit, Working
<1>5. SmsCounted'
  BY <1>2 DEF SmsCounted, Shapes
<1>6. Rejected'
  BY <1>1, <1>2 DEF Rejected
<1> QED
  BY <1>3, <1>4, <1>5, <1>6

\* A submit() that is told nothing new of the puzzle, the end, or a step towards it.
LEMMA AnswerKeeps ==
    ASSUME PuzzleInv, NEW i \in Presses, Answer(i)
    PROVE  PuzzleInv'
<1> USE DEF PuzzleInv
<1>1. /\ DOMAIN press' = Presses
      /\ \A j \in Presses : "stage" \in DOMAIN press'[j]
      /\ press'[i].stage \in {"verified", "no", "busy"}
      /\ \A j \in Presses : j # i => press'[j] = press[j]
  BY Moved DEF Answer, Reach, Settled
<1>2. UNCHANGED <<session, history>>
  BY DEF Answer
<1>3. Shapes' /\ SmsCounted'
  BY <1>1, <1>2 DEF Shapes, SmsCounted
<1>4. OneSubmit' /\ Rejected'
  BY <1>1, <1>2 DEF OneSubmit, Rejected, Working
<1> QED
  BY <1>3, <1>4

\* A submit() starts only when none is under way.
LEMMA StartKeeps ==
    ASSUME PuzzleInv, NEW i \in Presses, Start(i)
    PROVE  PuzzleInv'
<1> USE DEF PuzzleInv
<1>1. /\ session.status = "pending" /\ session.busy = FALSE
  BY DEF Start, Settled, Shapes
<1>2. \A j \in Presses : press[j].stage \notin Working
  BY <1>1 DEF OneSubmit
<1>3. /\ DOMAIN press' = Presses
      /\ \A j \in Presses : "stage" \in DOMAIN press'[j]
      /\ press'[i].stage = IF session.needNew THEN "fetch" ELSE "check"
      /\ \A j \in Presses : j # i => press'[j] = press[j]
  BY Moved DEF Start, Reach
<1>4. /\ session' \in [status : {"pending", "ok", "failed"}, busy : BOOLEAN, needNew : BOOLEAN,
                       attempt : Int, puzzle : Int, nid : Int]
      /\ session'.status = session.status /\ session'.needNew = session.needNew
      /\ session'.puzzle = session.puzzle /\ session'.busy = TRUE
  BY DEF Start, Shapes
<1>5. history' = history
  BY DEF Start
<1>6. Shapes' /\ SmsCounted'
  BY <1>3, <1>4, <1>5 DEF Shapes, SmsCounted
<1>7. OneSubmit'
  BY <1>1, <1>2, <1>3, <1>4 DEF OneSubmit
<1>8. Rejected'
  <2>1. \A j \in Presses : press'[j].stage = "check" => j = i /\ session.needNew = FALSE
    BY <1>2, <1>3 DEF Working, Shapes
  <2>2. \A j \in Presses : press'[j].stage # "install"
    BY <1>2, <1>3 DEF Working
  <2> QED
    BY <1>4, <1>5, <2>1, <2>2 DEF Rejected
<1> QED
  BY <1>6, <1>7, <1>8

\* The puzzle on show is turned down: a new one is needed, and nothing is under way beside this.
LEMMA WrongKeeps ==
    ASSUME PuzzleInv, NEW i \in Presses, Wrong(i)
    PROVE  PuzzleInv'
<1> USE DEF PuzzleInv
<1>1. press[i].stage = "check" /\ press[i].stage \in Working
  BY DEF Wrong, Reach, Working
<1>2. /\ DOMAIN press' = Presses
      /\ \A j \in Presses : "stage" \in DOMAIN press'[j]
      /\ press'[i].stage = "fetch"
      /\ \A j \in Presses : j # i => press'[j] = press[j]
  BY Moved DEF Wrong, Reach
<1>3. /\ session' \in [status : {"pending", "ok", "failed"}, busy : BOOLEAN, needNew : BOOLEAN,
                       attempt : Int, puzzle : Int, nid : Int]
      /\ session'.status = session.status /\ session'.needNew = TRUE
      /\ session'.puzzle = session.puzzle /\ session'.busy = session.busy
  BY DEF Wrong, Shapes
<1>4. /\ DOMAIN history' = DOMAIN history /\ history'.blind \in BOOLEAN
      /\ history'.sms = history.sms /\ history'.unheard = history.unheard
      /\ history'.rejected = history.rejected \cup {session.puzzle}
  BY DEF Wrong, Shapes
<1>5. Shapes' /\ SmsCounted'
  BY <1>2, <1>3, <1>4 DEF Shapes, SmsCounted
<1>6. OneSubmit'
  BY <1>1, <1>2, <1>3 DEF OneSubmit
<1>7. Rejected'
  <2>1. \A n \in history'.rejected : n \in Int /\ n <= session'.puzzle
    BY <1>3, <1>4 DEF Rejected, Shapes
  <2>2. \A j \in Presses : press'[j].stage \notin {"check", "install"}
    BY <1>1, <1>2 DEF OneSubmit, Working
  <2> QED
    BY <1>3, <2>1, <2>2 DEF Rejected
<1> QED
  BY <1>5, <1>6, <1>7

\* The slide is right: the SMS is asked for next.
LEMMA RightKeeps ==
    ASSUME PuzzleInv, NEW i \in Presses, Right(i)
    PROVE  PuzzleInv'
<1> USE DEF PuzzleInv
<1>1. press[i].stage \in Working
  BY DEF Right, Reach, Working
<1>2. /\ DOMAIN press' = Presses
      /\ \A j \in Presses : "stage" \in DOMAIN press'[j]
      /\ press'[i].stage = "send"
      /\ \A j \in Presses : j # i => press'[j] = press[j]
  BY Moved DEF Right, Reach
<1>3. UNCHANGED <<session, history>>
  BY DEF Right
<1>4. Shapes' /\ SmsCounted'
  BY <1>2, <1>3 DEF Shapes, SmsCounted
<1>5. OneSubmit' /\ Rejected'
  BY <1>1, <1>2, <1>3 DEF OneSubmit, Rejected
<1> QED
  BY <1>4, <1>5

\* The SMS is sent, or sign-in refused: the session is settled and the flag cleared together.
LEMMA EndKeeps ==
    ASSUME PuzzleInv, NEW i \in Presses, Sent(i) \/ Refused(i)
    PROVE  PuzzleInv'
<1> USE DEF PuzzleInv
<1>1. press[i].stage = "send" /\ press[i].stage \in Working
  BY DEF Sent, Refused, Reach, Working
<1>2. session.status = "pending"
  BY <1>1 DEF OneSubmit
<1>3. /\ DOMAIN press' = Presses
      /\ \A j \in Presses : "stage" \in DOMAIN press'[j]
      /\ press'[i].stage \in {"verified", "no"}
      /\ \A j \in Presses : j # i => press'[j] = press[j]
  BY Moved DEF Sent, Refused, Reach
<1>4. /\ session' \in [status : {"pending", "ok", "failed"}, busy : BOOLEAN, needNew : BOOLEAN,
                       attempt : Int, puzzle : Int, nid : Int]
      /\ session'.needNew = session.needNew /\ session'.puzzle = session.puzzle
  BY DEF Sent, Refused, Shapes
<1>5. /\ DOMAIN history' = DOMAIN history /\ history'.blind \in BOOLEAN
      /\ history'.unheard = history.unheard /\ history'.rejected = history.rejected
  BY DEF Sent, Refused, Shapes
<1>6. Shapes' /\ SmsCounted'
  <2>1. CASE Sent(i)
    <3>1. session'.status = "ok" /\ history'.sms = history.sms + 1
      BY <2>1 DEF Sent, Shapes
    <3> QED
      BY <1>2, <1>3, <1>4, <1>5, <3>1 DEF Shapes, SmsCounted
  <2>2. CASE Refused(i)
    <3>1. session'.status = "failed" /\ history'.sms = history.sms
      BY <2>2 DEF Refused, Shapes
    <3> QED
      BY <1>2, <1>3, <1>4, <1>5, <3>1 DEF Shapes, SmsCounted
  <2> QED
    BY <2>1, <2>2
<1>7. \A j \in Presses : press'[j].stage \notin Working
  BY <1>1, <1>3 DEF OneSubmit, Working
<1>8. OneSubmit' /\ Rejected'
  BY <1>4, <1>5, <1>7 DEF OneSubmit, Rejected, Working
<1> QED
  BY <1>6, <1>8

\* A new captcha is one that nobody has turned down.
LEMMA NewPuzzleKeeps ==
    ASSUME PuzzleInv, NEW i \in Presses, NewPuzzle(i)
    PROVE  PuzzleInv'
<1> USE DEF PuzzleInv
<1>1. press[i].stage = "fetch" /\ press[i].stage \in Working
  BY DEF NewPuzzle, Reach, Working
<1>2. /\ DOMAIN press' = Presses
      /\ \A j \in Presses : "stage" \in DOMAIN press'[j]
      /\ press'[i].stage = "install"
      /\ \A j \in Presses : j # i => press'[j] = press[j]
  BY Moved DEF NewPuzzle, Reach
<1>3. session' = [session EXCEPT !.puzzle = session.puzzle + 1]
  BY DEF NewPuzzle, Install
<1>4. /\ session' \in [status : {"pending", "ok", "failed"}, busy : BOOLEAN, needNew : BOOLEAN,
                       attempt : Int, puzzle : Int, nid : Int]
      /\ session'.status = session.status /\ session'.busy = session.busy
      /\ session'.puzzle = session.puzzle + 1
  BY <1>3 DEF Shapes
<1>5. history' = history
  BY DEF NewPuzzle
<1>6. Shapes' /\ SmsCounted'
  BY <1>2, <1>4, <1>5 DEF Shapes, SmsCounted
<1>7. OneSubmit'
  BY <1>1, <1>2, <1>4 DEF OneSubmit
<1>8. Rejected'
  <2>1. \A n \in history'.rejected : n \in Int /\ n < session'.puzzle
    BY <1>4, <1>5 DEF Rejected, Shapes
  <2>2. session'.puzzle \notin history'.rejected
    BY <1>4, <2>1 DEF Shapes
  <2>3. \A j \in Presses : press'[j].stage # "check"
    BY <1>1, <1>2 DEF OneSubmit, Working
  <2> QED
    BY <1>4, <2>1, <2>2, <2>3 DEF Rejected, Shapes
<1> QED
  BY <1>6, <1>7, <1>8

\* With the new captcha in place no other is needed.
LEMMA CountAttemptKeeps ==
    ASSUME PuzzleInv, NEW i \in Presses, CountAttempt(i)
    PROVE  PuzzleInv'
<1> USE DEF PuzzleInv
<1>1. press[i].stage = "install" /\ press[i].stage \in Working
  BY DEF CountAttempt, Reach, Working
<1>2. /\ DOMAIN press' = Presses
      /\ \A j \in Presses : "stage" \in DOMAIN press'[j]
      /\ press'[i].stage = "no"
      /\ \A j \in Presses : j # i => press'[j] = press[j]
  BY Moved DEF CountAttempt, Reach
<1> DEFINE counted == [session EXCEPT !.attempt = session.attempt + 1]
<1>3. session' = [counted EXCEPT !.needNew = FALSE, !.busy = FALSE]
  BY DEF CountAttempt, Install
<1>4. /\ counted \in [status : {"pending", "ok", "failed"}, busy : BOOLEAN, needNew : BOOLEAN,
                      attempt : Int, puzzle : Int, nid : Int]
      /\ counted.status = session.status /\ counted.puzzle = session.puzzle
  BY DEF Shapes
<1> HIDE DEF counted
<1>5. /\ session' \in [status : {"pending", "ok", "failed"}, busy : BOOLEAN, needNew : BOOLEAN,
                       attempt : Int, puzzle : Int, nid : Int]
      /\ session'.status = session.status /\ session'.needNew = FALSE
      /\ session'.puzzle = session.puzzle
  BY <1>3, <1>4 DEF Shapes
<1>6. history' = history
  BY DEF CountAttempt
<1>7. Shapes' /\ SmsCounted'
  BY <1>2, <1>5, <1>6 DEF Shapes, SmsCounted
<1>8. \A j \in Presses : press'[j].stage \notin Working
  BY <1>1, <1>2 DEF OneSubmit, Working
<1>9. OneSubmit'
  BY <1>8 DEF OneSubmit
<1>10. Rejected'
  <2>1. session.puzzle \notin history.rejected
    BY <1>1 DEF Rejected
  <2> QED
    BY <1>5, <1>6, <1>8, <2>1 DEF Rejected, Working
<1> QED
  BY <1>7, <1>9, <1>10

\* An answer that cannot be read ends a submit(); an SMS it may have sent is counted as unheard.
LEMMA UnexpectedKeeps ==
    ASSUME PuzzleInv, NEW i \in Presses, Unexpected(i)
    PROVE  PuzzleInv'
<1> USE DEF PuzzleInv
<1>1. press[i].stage \in Working
  BY DEF Unexpected, Working
<1>2. /\ DOMAIN press' = Presses
      /\ \A j \in Presses : "stage" \in DOMAIN press'[j]
      /\ press'[i].stage = "error"
      /\ \A j \in Presses : j # i => press'[j] = press[j]
  BY Moved DEF Unexpected
<1>3. /\ session' \in [status : {"pending", "ok", "failed"}, busy : BOOLEAN, needNew : BOOLEAN,
                       attempt : Int, puzzle : Int, nid : Int]
      /\ session'.status = session.status /\ session'.needNew = session.needNew
      /\ session'.puzzle = session.puzzle
  BY DEF Unexpected, Shapes
<1>4. /\ DOMAIN history' = DOMAIN history /\ history'.blind \in BOOLEAN
      /\ history'.sms \in Int /\ history'.unheard \in Int
      /\ history'.sms - history'.unheard = history.sms - history.unheard
      /\ history'.rejected = history.rejected
  <2>1. PICK n \in {0, 1} :
          history' = [history EXCEPT !.sms = history.sms + n, !.unheard = history.unheard + n,
                                     !.odd = history.odd \cup {press[i].tab}]
    BY DEF Unexpected
  <2>2. /\ DOMAIN history' = DOMAIN history /\ history'.rejected = history.rejected
        /\ history'.blind = history.blind
        /\ history'.sms = history.sms + n /\ history'.unheard = history.unheard + n
    BY <2>1 DEF Shapes
  <2> QED
    BY <2>2 DEF Shapes
<1>5. Shapes' /\ SmsCounted'
  BY <1>2, <1>3, <1>4 DEF Shapes, SmsCounted
<1>6. \A j \in Presses : press'[j].stage \notin Working
  BY <1>1, <1>2 DEF OneSubmit, Working
<1>7. OneSubmit'
  BY <1>6 DEF OneSubmit
<1>8. Rejected'
  <2>1. \A j \in Presses : press'[j].stage \notin {"check", "install"}
    BY <1>6 DEF Working
  <2> QED
    BY <1>3, <1>4, <2>1 DEF Rejected
<1> QED
  BY <1>5, <1>7, <1>8

\* The page's own steps press, hear, ask and show: no submit() moves.
LEMMA PageKeeps ==
    ASSUME PuzzleInv,
           \/ Shut
           \/ \E i \in Presses : Hear(i)
           \/ \E t \in Tabs : Poll(t) \/ Verify(t) \/ Enable(t)
    PROVE  PuzzleInv'
<1> USE DEF PuzzleInv
<1>1. session' = session
  BY DEF Shut, Hear, Poll, Ask, ReadOn, Read, Show, Verify, Enable
<1>2. /\ DOMAIN history' = DOMAIN history /\ history'.blind \in BOOLEAN
      /\ history'.sms = history.sms /\ history'.unheard = history.unheard
      /\ history'.rejected = history.rejected
  BY DEF Shapes, Shut, Hear, Poll, Ask, ReadOn, Read, Show, Verify, Enable
<1>3. /\ DOMAIN press' = Presses
      /\ \A j \in Presses : "stage" \in DOMAIN press'[j]
      /\ \A j \in Presses : press'[j] = press[j] \/ press'[j].stage \in {"heard", "sent"}
  <2>1. CASE \E i \in Presses : Hear(i)
    <3>1. PICK i \in Presses : press' = [press EXCEPT ![i] = [stage |-> "heard"]]
      BY <2>1 DEF Hear
    <3> QED
      BY <3>1 DEF Shapes
  <2>2. CASE \E t \in Tabs : Verify(t)
    <3>1. PICK t \in Tabs, i \in Presses :
            press' = [press EXCEPT ![i] = [stage |-> "sent", tab |-> t, seen |-> page[t].seen]]
      BY <2>2 DEF Verify
    <3> QED
      BY <3>1 DEF Shapes
  <2>3. CASE Shut \/ \E t \in Tabs : Poll(t) \/ Enable(t)
    BY <2>3 DEF Shapes, Shut, Poll, Ask, ReadOn, Read, Show, Enable
  <2> QED
    BY <2>1, <2>2, <2>3
<1>4. Shapes' /\ SmsCounted'
  BY <1>1, <1>2, <1>3 DEF Shapes, SmsCounted
<1>5. OneSubmit'
  BY <1>1, <1>3 DEF OneSubmit, Working
<1>6. Rejected'
  BY <1>1, <1>2, <1>3 DEF Rejected
<1> QED
  BY <1>4, <1>5, <1>6
-----------------------------------------------------------------------------------
LEMMA PuzzleInitial == Init => PuzzleInv
<1> SUFFICES ASSUME Init PROVE PuzzleInv
  OBVIOUS
<1>1. Shapes
  BY DEF Init, Shapes
<1>2. OneSubmit /\ Rejected
  BY DEF Init, OneSubmit, Rejected, Working
<1>3. SmsCounted
  BY DEF Init, SmsCounted
<1> QED
  BY <1>1, <1>2, <1>3 DEF PuzzleInv

LEMMA PuzzleStep == PuzzleInv /\ [Next]_vars => PuzzleInv'
<1> SUFFICES ASSUME PuzzleInv, [Next]_vars PROVE PuzzleInv'
  OBVIOUS
<1>1. ASSUME NEW i \in Presses, Submit(i) PROVE PuzzleInv'
  <2>1. CASE CannotReach(i)
    <3>1. history' = history
      BY <2>1 DEF CannotReach
    <3> QED
      BY <2>1, <3>1, NoticeKeeps DEF CannotReach, PuzzleInv, Shapes
  <2> QED
    BY <1>1, <2>1, AnswerKeeps, StartKeeps, RightKeeps, WrongKeeps, EndKeeps, NewPuzzleKeeps,
       CountAttemptKeeps DEF Submit
<1>2. ASSUME NEW i \in Presses, SentUnheard(i) PROVE PuzzleInv'
  <2>1. /\ DOMAIN history' = DOMAIN history /\ history'.rejected = history.rejected
        /\ history'.blind = history.blind
        /\ history'.sms = history.sms + 1 /\ history'.unheard = history.unheard + 1
        /\ history.sms \in Int /\ history.unheard \in Int
    BY <1>2 DEF SentUnheard, PuzzleInv, Shapes
  <2>2. /\ history'.sms \in Int /\ history'.unheard \in Int
        /\ history'.sms - history'.unheard = history.sms - history.unheard
    BY <2>1
  <2> QED
    BY <1>2, <2>1, <2>2, NoticeKeeps DEF SentUnheard
<1>3. CASE UNCHANGED vars
  BY <1>3 DEF vars, PuzzleInv, Shapes, OneSubmit, SmsCounted, Rejected
<1> QED
  BY <1>1, <1>2, <1>3, UnexpectedKeeps, PageKeeps DEF Next, Serve

\* However many tabs press Verify, and however often, one SMS is sent unless the answer to an
\* earlier one was lost (submit, lines 99 to 133).
THEOREM PuzzleSmsOnce == Spec => []SmsOnce
<1>1. PuzzleInv => SmsOnce
  BY DEF PuzzleInv, Shapes, SmsCounted, SmsOnce
<1> QED
  BY PuzzleInitial, PuzzleStep, <1>1, PTL DEF Spec

\* A puzzle that was turned down is never sent to be checked again, whatever fails in between
\* (submit, lines 107 to 117).
THEOREM PuzzleRejectedNotReused == Spec => []RejectedNotReused
<1>1. PuzzleInv => RejectedNotReused
  BY DEF PuzzleInv, Rejected, RejectedNotReused
<1> QED
  BY PuzzleInitial, PuzzleStep, <1>1, PTL DEF Spec

\* At most one submit() of the session is past its look at the busy flag, in any tab: the flag is
\* set before the first await and cleared in the finally (submit, lines 103 to 131).
THEOREM PuzzleOneSubmit == Spec => []OneSubmit
<1>1. PuzzleInv => OneSubmit
  BY DEF PuzzleInv
<1> QED
  BY PuzzleInitial, PuzzleStep, <1>1, PTL DEF Spec
-----------------------------------------------------------------------------------
\* What the pages, their polls and their presses hold.
Pages == [at : 0..MaxPuzzles, seen : SUBSET (1..MaxPuzzles), nid : 0..MaxNotices,
          done : BOOLEAN, enabled : BOOLEAN, timers : Nat]

\* What was read of the state so far.
PollTyped(r) ==
    /\ r \in [stage : {"idle", "nid", "attempt", "status", "background", "piece"},
              nid : 0..MaxNotices, attempt : 0..MaxPuzzles, status : {"pending", "ok", "failed"},
              background : 0..MaxPuzzles, piece : 0..MaxPuzzles]
    /\ r.stage \notin {"idle", "nid"} => r.attempt >= 1
    /\ r.stage \in {"background", "piece"} => r.background >= 1
    /\ r.stage = "piece" => r.piece >= 1

PressTyped(r) ==
    /\ r.stage \in {"unused", "sent", "heard"} \cup Working \cup Replies
    /\ r.stage \notin {"unused", "heard"} => r.tab \in Tabs /\ r.seen \in SUBSET (1..MaxPuzzles)

\* The captcha is ahead of its attempt only while it is being installed.
Installed ==
    session.puzzle = session.attempt + (IF \E i \in Presses : press[i].stage = "install" THEN 1 ELSE 0)

TypeInv ==
    /\ session \in [status : {"pending", "ok", "failed"}, busy : BOOLEAN, needNew : BOOLEAN,
                    attempt : 1..MaxPuzzles, puzzle : 1..MaxPuzzles, nid : 0..MaxNotices]
    /\ page \in [Tabs -> Pages]
    /\ DOMAIN poll = Tabs /\ \A t \in Tabs : PollTyped(poll[t])
    /\ \A i \in Presses : PressTyped(press[i])
    /\ server \in {"open", "shut"}
    /\ budget \in 0..MaxFaults
    /\ Installed

\* A press whose submit() has not ended.
Active(i) == press[i].stage \in {"sent"} \cup Working

\* A page, and the state it asked for, are never ahead of the session.
Behind ==
    \A t \in Tabs :
        /\ page[t].at <= session.attempt /\ page[t].nid <= session.nid
        /\ poll[t].stage # "idle" => page[t].nid <= poll[t].nid /\ poll[t].nid <= session.nid
        /\ poll[t].stage \notin {"idle", "nid"} =>
            page[t].at <= poll[t].attempt /\ poll[t].attempt <= session.attempt

\* Before the first press nothing has happened.
Unpressed ==
    history.pressed = {} =>
        /\ \A i \in Presses : press[i].stage = "unused"
        /\ session.attempt = 1 /\ session.nid = 0

\* Tab t alone is used, and never blindly; no reply is lost.
Alone(t) == history.pressed \subseteq {t} /\ history.blind = FALSE /\ budget = MaxFaults

\* What lets tab t press Verify, now or later: an enabled button, a timer, a submit() under way,
\* or an attempt or a notice that the page does not know of yet.
Rights(t) ==
    (IF page[t].enabled THEN 1 ELSE 0) + page[t].timers
    + (IF \E i \in Presses : Active(i) THEN 1 ELSE 0)
    + (session.attempt - page[t].at) + (session.nid - page[t].nid)

\* A tab that is used alone has one of them at most, and shows the puzzle of the attempt it knows.
Fitting(t) ==
    /\ page[t].at = 0 => history.pressed = {} /\ page[t].seen = {} /\ page[t].timers = 0
    /\ page[t].at # 0 => Rights(t) <= 1 /\ page[t].seen = {page[t].at}
    /\ poll[t].attempt # page[t].at =>
        /\ poll[t].stage \in {"background", "piece"} => poll[t].background = poll[t].attempt
        /\ poll[t].stage = "piece" => poll[t].piece = poll[t].attempt
    /\ \A i \in Presses :
        /\ press[i].stage # "error"
        /\ Active(i) => press[i].seen = {page[t].at} /\ \A j \in Presses : Active(j) => j = i

FitInv == Behind /\ Unpressed /\ \A t \in Tabs : Alone(t) => Fitting(t)

\* A press that moves on keeps its tab and the puzzle it was drawn on.
LEMMA MovedTyped ==
    ASSUME Shapes, TypeInv, NEW i \in Presses, NEW to, press' = [press EXCEPT ![i].stage = to],
           press[i].stage \notin {"unused", "heard"}, to \in {"heard"} \cup Working \cup Replies
    PROVE  /\ \A j \in Presses : PressTyped(press[j])'
           /\ press'[i].stage = to /\ press'[i].seen = press[i].seen
           /\ \A j \in Presses : j # i => press'[j] = press[j]
<1>1. /\ press'[i].stage = to /\ press'[i].seen = press[i].seen /\ press'[i].tab = press[i].tab
      /\ \A j \in Presses : j # i => press'[j] = press[j]
    BY DEF Shapes
<1>2. press[i].tab \in Tabs /\ press[i].seen \in SUBSET (1..MaxPuzzles)
    BY DEF TypeInv, PressTyped
<1>3. PressTyped(press[i])'
    BY <1>1, <1>2 DEF PressTyped
<1>4. \A j \in Presses : j # i => PressTyped(press[j])'
    BY <1>1 DEF TypeInv, PressTyped
<1> QED
    BY <1>1, <1>3, <1>4

\* A submit() keeps the types, and the captcha ahead of its attempt while it is installed: no
\* other submit() is under way then (submit, _new_puzzle).
LEMMA SubmitTyped ==
    ASSUME PuzzleInv, TypeInv, NEW i \in Presses, Submit(i)
    PROVE  TypeInv'
<1> USE PuzzleAssumption
<1>0. Shapes /\ UNCHANGED <<page, poll, server, budget>>
    BY DEF PuzzleInv, Submit
<1>a. ASSUME \A j \in Presses : PressTyped(press[j])',
             session' \in [status : {"pending", "ok", "failed"}, busy : BOOLEAN, needNew : BOOLEAN,
                           attempt : 1..MaxPuzzles, puzzle : 1..MaxPuzzles, nid : 0..MaxNotices],
             Installed'
      PROVE  TypeInv'
    BY <1>0, <1>a DEF TypeInv, PollTyped
<1>b. ASSUME NEW to, Reach(i, press[i].stage, to), press[i].stage \notin {"unused", "heard", "install"},
             to \in (Working \ {"install"}) \cup Replies
      PROVE  /\ \A j \in Presses : PressTyped(press[j])'
             /\ (\E j \in Presses : press'[j].stage = "install") <=> (\E j \in Presses : press[j].stage = "install")
    <2>1. press' = [press EXCEPT ![i].stage = to] /\ to # "install"
        BY <1>b DEF Reach, Working, Replies
    <2>2. /\ \A j \in Presses : PressTyped(press[j])'
          /\ press'[i].stage = to
          /\ \A j \in Presses : j # i => press'[j] = press[j]
        BY <1>0, <1>b, <2>1, MovedTyped
    <2> QED
        BY <1>b, <2>1, <2>2
<1>1. ASSUME Answer(i) PROVE TypeInv'
    <2>1. Reach(i, press[i].stage, Settled) /\ press[i].stage = "sent" /\ session' = session
          /\ Settled \in Replies
        BY <1>1 DEF Answer, Reach, Settled, Replies
    <2> QED
        BY <1>a, <1>b, <2>1 DEF TypeInv, Installed
<1>2. ASSUME Start(i) PROVE TypeInv'
    <2> DEFINE to == IF session.needNew THEN "fetch" ELSE "check"
    <2>1. Reach(i, press[i].stage, to) /\ press[i].stage = "sent" /\ to \in Working \ {"install"}
          /\ session' = [session EXCEPT !.busy = TRUE]
        BY <1>2 DEF Start, Reach, Working
    <2> HIDE DEF to
    <2> QED
        BY <1>a, <1>b, <2>1 DEF TypeInv, Installed
<1>3. ASSUME Right(i) PROVE TypeInv'
    <2>1. Reach(i, press[i].stage, "send") /\ press[i].stage = "check" /\ session' = session
          /\ "send" \in Working \ {"install"}
        BY <1>3 DEF Right, Reach, Working
    <2> QED
        BY <1>a, <1>b, <2>1 DEF TypeInv, Installed
<1>4. ASSUME Wrong(i) PROVE TypeInv'
    <2>1. Reach(i, press[i].stage, "fetch") /\ press[i].stage = "check"
          /\ session' = [session EXCEPT !.needNew = TRUE] /\ "fetch" \in Working \ {"install"}
        BY <1>4 DEF Wrong, Reach, Working
    <2> QED
        BY <1>a, <1>b, <2>1 DEF TypeInv, Installed
<1>5. ASSUME Sent(i) PROVE TypeInv'
    <2>1. Reach(i, press[i].stage, "verified") /\ press[i].stage = "send" /\ "verified" \in Replies
          /\ session' = [session EXCEPT !.status = "ok", !.busy = FALSE]
        BY <1>5 DEF Sent, Reach, Replies
    <2> QED
        BY <1>a, <1>b, <2>1 DEF TypeInv, Installed
<1>6. ASSUME Refused(i) PROVE TypeInv'
    <2>1. Reach(i, press[i].stage, "no") /\ press[i].stage = "send" /\ "no" \in Replies
          /\ session' = [session EXCEPT !.status = "failed", !.busy = FALSE]
        BY <1>6 DEF Refused, Reach, Replies
    <2> QED
        BY <1>a, <1>b, <2>1 DEF TypeInv, Installed
<1>7. ASSUME NewPuzzle(i) PROVE TypeInv'
    <2>1. /\ session.puzzle < MaxPuzzles /\ press[i].stage = "fetch"
          /\ press' = [press EXCEPT ![i].stage = "install"]
          /\ session' = [session EXCEPT !.puzzle = @ + 1]
        BY <1>7 DEF NewPuzzle, Reach, Install
    <2>2. /\ \A j \in Presses : PressTyped(press[j])'
          /\ press'[i].stage = "install"
        BY <1>0, <2>1, MovedTyped DEF Working
    <2>3. ~ \E j \in Presses : press[j].stage = "install"
        BY <2>1 DEF PuzzleInv, OneSubmit, Working
    <2> QED
        BY <1>a, <2>1, <2>2, <2>3 DEF TypeInv, Installed
<1>8. ASSUME CountAttempt(i) PROVE TypeInv'
    <2> DEFINE counted == [session EXCEPT !.attempt = @ + 1]
    <2>1. /\ press[i].stage = "install" /\ press' = [press EXCEPT ![i].stage = "no"]
          /\ session' = [counted EXCEPT !.needNew = FALSE, !.busy = FALSE]
        BY <1>8 DEF CountAttempt, Reach, Install
    <2>2. /\ \A j \in Presses : PressTyped(press[j])'
          /\ press'[i].stage = "no" /\ \A j \in Presses : j # i => press'[j] = press[j]
        BY <1>0, <2>1, MovedTyped DEF Replies
    <2>3. ~ \E j \in Presses : press'[j].stage = "install"
        BY <2>1, <2>2 DEF PuzzleInv, OneSubmit, Working
    <2>4. session.puzzle = session.attempt + 1
        BY <2>1 DEF TypeInv, Installed
    <2>5. counted \in [status : {"pending", "ok", "failed"}, busy : BOOLEAN, needNew : BOOLEAN,
                       attempt : 1..MaxPuzzles, puzzle : 1..MaxPuzzles, nid : 0..MaxNotices]
          /\ counted.attempt = session.puzzle /\ counted.puzzle = session.puzzle
        BY <2>4 DEF TypeInv
    <2> HIDE DEF counted
    <2>6. /\ session' \in [status : {"pending", "ok", "failed"}, busy : BOOLEAN, needNew : BOOLEAN,
                           attempt : 1..MaxPuzzles, puzzle : 1..MaxPuzzles, nid : 0..MaxNotices]
          /\ session'.attempt = session.puzzle /\ session'.puzzle = session.puzzle
        BY <2>1, <2>5
    <2>7. session.puzzle \in Nat
        BY DEF TypeInv
    <2>8. Installed'
        BY <2>3, <2>6, <2>7 DEF Installed
    <2> QED
        BY <1>a, <2>2, <2>6, <2>8
<1>9. ASSUME CannotReach(i) PROVE TypeInv'
    <2>1. /\ Reach(i, press[i].stage, "no") /\ press[i].stage \in {"check", "send", "fetch"}
          /\ session.nid < MaxNotices /\ "no" \in Replies
          /\ session' = [session EXCEPT !.nid = @ + 1, !.busy = FALSE]
        BY <1>9 DEF CannotReach, Notice, Reach, Replies
    <2>2. /\ session' \in [status : {"pending", "ok", "failed"}, busy : BOOLEAN, needNew : BOOLEAN,
                           attempt : 1..MaxPuzzles, puzzle : 1..MaxPuzzles, nid : 0..MaxNotices]
          /\ session'.attempt = session.attempt /\ session'.puzzle = session.puzzle
        <3>1. session.nid + 1 \in 0..MaxNotices
            BY <2>1 DEF TypeInv
        <3> QED
            BY <2>1, <3>1 DEF TypeInv
    <2> QED
        BY <1>a, <1>b, <2>1, <2>2 DEF TypeInv, Installed
<1> QED
    BY <1>1, <1>2, <1>3, <1>4, <1>5, <1>6, <1>7, <1>8, <1>9 DEF Submit

\* A timer that runs out enables the button, unless the page is done (PAGE).
LEMMA EnableFields ==
    ASSUME page \in [Tabs -> Pages], NEW t \in Tabs, Enable(t)
    PROVE  /\ page' \in [Tabs -> Pages]
           /\ \A v \in Tabs : v # t => page'[v] = page[v]
           /\ page[t].timers > 0 /\ page'[t].timers = page[t].timers - 1
           /\ page'[t].at = page[t].at /\ page'[t].seen = page[t].seen /\ page'[t].nid = page[t].nid
<1> DEFINE less == [page EXCEPT ![t].timers = page[t].timers - 1]
           on == IF page[t].done THEN page[t].enabled ELSE TRUE
<1>1. /\ less \in [Tabs -> Pages] /\ less[t].enabled = page[t].enabled
      /\ \A v \in Tabs : v # t => less[v] = page[v]
      /\ less[t].timers = page[t].timers - 1
      /\ less[t].at = page[t].at /\ less[t].seen = page[t].seen /\ less[t].nid = page[t].nid
    BY DEF Enable, Pages
<1>2. on \in BOOLEAN
    BY DEF Pages
<1>3. page' = [less EXCEPT ![t].enabled = on] /\ page[t].timers > 0
    BY <1>1 DEF Enable
<1> HIDE DEF less, on
<1> QED
    BY <1>1, <1>2, <1>3 DEF Pages

\* What a page makes of a state it is sent: the fields it sets, one by one (poll of PAGE).
LEMMA ShownFields ==
    ASSUME NEW p \in Pages, NEW r, PollTyped(r), r.stage = "piece"
    PROVE  LET q == Shown(p, r)
           IN  /\ q \in Pages
               /\ p.done => q = p
               /\ ~p.done =>
                    /\ q.at = r.attempt
                    /\ q.seen = IF r.attempt = p.at THEN p.seen ELSE {r.background, r.piece}
                    /\ r.status # "pending" => q.nid = p.nid /\ q.timers = p.timers /\ q.enabled = FALSE
                    /\ r.status = "pending" =>
                        /\ q.nid = r.nid
                        /\ q.timers = IF r.nid = p.nid THEN p.timers ELSE p.timers + 1
                        /\ q.enabled = IF r.attempt = p.at THEN p.enabled ELSE TRUE
<1> DEFINE fresh == IF r.attempt = p.at THEN p
                    ELSE [p EXCEPT !.at = r.attempt, !.seen = {r.background, r.piece}, !.enabled = TRUE]
<1>0. /\ r.attempt \in 0..MaxPuzzles /\ {r.background, r.piece} \in SUBSET (1..MaxPuzzles)
      /\ r.nid \in 0..MaxNotices
    BY PuzzleAssumption DEF PollTyped
<1>1. /\ fresh \in Pages /\ fresh.at = r.attempt
      /\ fresh.seen = IF r.attempt = p.at THEN p.seen ELSE {r.background, r.piece}
      /\ fresh.nid = p.nid /\ fresh.timers = p.timers /\ fresh.done = p.done
      /\ fresh.enabled = IF r.attempt = p.at THEN p.enabled ELSE TRUE
    BY <1>0 DEF Pages
<1>2. Shown(p, r) = IF p.done THEN p
                    ELSE IF r.status # "pending" THEN Finish(fresh)
                    ELSE IF r.nid # p.nid THEN [fresh EXCEPT !.nid = r.nid, !.timers = fresh.timers + 1]
                    ELSE fresh
    BY DEF Shown
<1> HIDE DEF fresh
<1> DEFINE over == [fresh EXCEPT !.done = TRUE, !.enabled = FALSE]
           told == [fresh EXCEPT !.nid = r.nid, !.timers = fresh.timers + 1]
<1>3. /\ over \in Pages /\ over.at = fresh.at /\ over.seen = fresh.seen /\ over.nid = fresh.nid
      /\ over.timers = fresh.timers /\ over.enabled = FALSE
    BY <1>1 DEF Pages
<1>4. /\ told \in Pages /\ told.at = fresh.at /\ told.seen = fresh.seen /\ told.nid = r.nid
      /\ told.timers = fresh.timers + 1 /\ told.enabled = fresh.enabled
    <2>1. fresh.timers + 1 \in Nat
        BY <1>1 DEF Pages
    <2> QED
        BY <1>0, <1>1, <2>1 DEF Pages
<1>5. Shown(p, r) = IF p.done THEN p ELSE IF r.status # "pending" THEN over
                    ELSE IF r.nid # p.nid THEN told ELSE fresh
    BY <1>2 DEF Finish
<1> HIDE DEF over, told
<1> QED
    BY <1>1, <1>3, <1>4, <1>5

\* state() reads one field and leaves those read before it (PuzzleSession.state).
LEMMA ReadFields ==
    ASSUME TypeInv, NEW t \in Tabs, Ask(t) \/ ReadOn(t)
    PROVE  LET r == poll[t]
               q == poll'[t]
           IN  /\ DOMAIN poll' = Tabs /\ PollTyped(q)
               /\ \A v \in Tabs : v # t => poll'[v] = poll[v]
               /\ \/ r.stage = "idle" /\ q = [r EXCEPT !.stage = "nid", !.nid = session.nid]
                  \/ r.stage = "nid" /\ q = [r EXCEPT !.stage = "attempt", !.attempt = session.attempt]
                  \/ r.stage = "attempt" /\ q = [r EXCEPT !.stage = "status", !.status = session.status]
                  \/ r.stage = "status" /\ q = [r EXCEPT !.stage = "background", !.background = session.puzzle]
                  \/ r.stage = "background" /\ q = [r EXCEPT !.stage = "piece", !.piece = session.puzzle]
<1> USE PuzzleAssumption
<1> DEFINE r == poll[t]
<1>0. /\ PollTyped(r) /\ DOMAIN poll = Tabs
      /\ session.nid \in 0..MaxNotices /\ session.attempt \in 1..MaxPuzzles
      /\ session.status \in {"pending", "ok", "failed"} /\ session.puzzle \in 1..MaxPuzzles
      /\ session.attempt \in 0..MaxPuzzles /\ session.puzzle \in 0..MaxPuzzles
      /\ session.attempt >= 1 /\ session.puzzle >= 1
    BY DEF TypeInv
<1>a. ASSUME NEW q, PollTyped(q), poll' = [poll EXCEPT ![t] = q]
      PROVE  /\ DOMAIN poll' = Tabs /\ poll'[t] = q
             /\ \A v \in Tabs : v # t => poll'[v] = poll[v]
    BY <1>0, <1>a
<1>1. CASE Ask(t)
    <2> DEFINE q == [r EXCEPT !.stage = "nid", !.nid = session.nid]
    <2>1. r.stage = "idle" /\ poll' = [poll EXCEPT ![t] = q]
        BY <1>1 DEF Ask, Read
    <2>a. /\ q \in [stage : {"idle", "nid", "attempt", "status", "background", "piece"},
                    nid : 0..MaxNotices, attempt : 0..MaxPuzzles, status : {"pending", "ok", "failed"},
                    background : 0..MaxPuzzles, piece : 0..MaxPuzzles]
          /\ q.stage = "nid" /\ q.nid = session.nid
          /\ q.attempt = r.attempt /\ q.status = r.status /\ q.background = r.background /\ q.piece = r.piece
        BY <1>0 DEF PollTyped
    <2>2. PollTyped(q)
        <3> HIDE DEF q
        <3> QED
            BY <1>0, <2>1, <2>a DEF PollTyped
    <2> HIDE DEF q
    <2>3. /\ DOMAIN poll' = Tabs /\ poll'[t] = q
          /\ \A v \in Tabs : v # t => poll'[v] = poll[v]
        BY <1>a, <2>1, <2>2
    <2> QED
        BY <2>1, <2>2, <2>3 DEF q
<1>2. CASE Read(t, "nid", "attempt", session.attempt)
    <2> DEFINE q == [r EXCEPT !.stage = "attempt", !.attempt = session.attempt]
    <2>1. r.stage = "nid" /\ poll' = [poll EXCEPT ![t] = q]
        BY <1>2 DEF Read
    <2>a. /\ q \in [stage : {"idle", "nid", "attempt", "status", "background", "piece"},
                    nid : 0..MaxNotices, attempt : 0..MaxPuzzles, status : {"pending", "ok", "failed"},
                    background : 0..MaxPuzzles, piece : 0..MaxPuzzles]
          /\ q.stage = "attempt" /\ q.attempt = session.attempt
          /\ q.nid = r.nid /\ q.status = r.status /\ q.background = r.background /\ q.piece = r.piece
        BY <1>0 DEF PollTyped
    <2>2. PollTyped(q)
        <3> HIDE DEF q
        <3> QED
            BY <1>0, <2>1, <2>a DEF PollTyped
    <2> HIDE DEF q
    <2>3. /\ DOMAIN poll' = Tabs /\ poll'[t] = q
          /\ \A v \in Tabs : v # t => poll'[v] = poll[v]
        BY <1>a, <2>1, <2>2
    <2> QED
        BY <2>1, <2>2, <2>3 DEF q
<1>3. CASE Read(t, "attempt", "status", session.status)
    <2> DEFINE q == [r EXCEPT !.stage = "status", !.status = session.status]
    <2>1. r.stage = "attempt" /\ poll' = [poll EXCEPT ![t] = q]
        BY <1>3 DEF Read
    <2>a. /\ q \in [stage : {"idle", "nid", "attempt", "status", "background", "piece"},
                    nid : 0..MaxNotices, attempt : 0..MaxPuzzles, status : {"pending", "ok", "failed"},
                    background : 0..MaxPuzzles, piece : 0..MaxPuzzles]
          /\ q.stage = "status" /\ q.status = session.status
          /\ q.nid = r.nid /\ q.attempt = r.attempt /\ q.background = r.background /\ q.piece = r.piece
        BY <1>0 DEF PollTyped
    <2>2. PollTyped(q)
        <3> HIDE DEF q
        <3> QED
            BY <1>0, <2>1, <2>a DEF PollTyped
    <2> HIDE DEF q
    <2>3. /\ DOMAIN poll' = Tabs /\ poll'[t] = q
          /\ \A v \in Tabs : v # t => poll'[v] = poll[v]
        BY <1>a, <2>1, <2>2
    <2> QED
        BY <2>1, <2>2, <2>3 DEF q
<1>4. CASE Read(t, "status", "background", session.puzzle)
    <2> DEFINE q == [r EXCEPT !.stage = "background", !.background = session.puzzle]
    <2>1. r.stage = "status" /\ poll' = [poll EXCEPT ![t] = q]
        BY <1>4 DEF Read
    <2>a. /\ q \in [stage : {"idle", "nid", "attempt", "status", "background", "piece"},
                    nid : 0..MaxNotices, attempt : 0..MaxPuzzles, status : {"pending", "ok", "failed"},
                    background : 0..MaxPuzzles, piece : 0..MaxPuzzles]
          /\ q.stage = "background" /\ q.background = session.puzzle
          /\ q.nid = r.nid /\ q.attempt = r.attempt /\ q.status = r.status /\ q.piece = r.piece
        BY <1>0 DEF PollTyped
    <2>2. PollTyped(q)
        <3> HIDE DEF q
        <3> QED
            BY <1>0, <2>1, <2>a DEF PollTyped
    <2> HIDE DEF q
    <2>3. /\ DOMAIN poll' = Tabs /\ poll'[t] = q
          /\ \A v \in Tabs : v # t => poll'[v] = poll[v]
        BY <1>a, <2>1, <2>2
    <2> QED
        BY <2>1, <2>2, <2>3 DEF q
<1>5. CASE Read(t, "background", "piece", session.puzzle)
    <2> DEFINE q == [r EXCEPT !.stage = "piece", !.piece = session.puzzle]
    <2>1. r.stage = "background" /\ poll' = [poll EXCEPT ![t] = q]
        BY <1>5 DEF Read
    <2>a. /\ q \in [stage : {"idle", "nid", "attempt", "status", "background", "piece"},
                    nid : 0..MaxNotices, attempt : 0..MaxPuzzles, status : {"pending", "ok", "failed"},
                    background : 0..MaxPuzzles, piece : 0..MaxPuzzles]
          /\ q.stage = "piece" /\ q.piece = session.puzzle
          /\ q.nid = r.nid /\ q.attempt = r.attempt /\ q.status = r.status /\ q.background = r.background
        BY <1>0 DEF PollTyped
    <2>2. PollTyped(q)
        <3> HIDE DEF q
        <3> QED
            BY <1>0, <2>1, <2>a DEF PollTyped
    <2> HIDE DEF q
    <2>3. /\ DOMAIN poll' = Tabs /\ poll'[t] = q
          /\ \A v \in Tabs : v # t => poll'[v] = poll[v]
        BY <1>a, <2>1, <2>2
    <2> QED
        BY <2>1, <2>2, <2>3 DEF q
<1> QED
    BY <1>1, <1>2, <1>3, <1>4, <1>5 DEF ReadOn

\* Every step keeps the types.
LEMMA TypeStep == PuzzleInv /\ TypeInv /\ [Next]_vars => TypeInv'
<1> SUFFICES ASSUME PuzzleInv, TypeInv, [Next]_vars PROVE TypeInv'
    OBVIOUS
<1> USE PuzzleAssumption
<1>0. Shapes
    BY DEF PuzzleInv
<1>1. ASSUME NEW i \in Presses, Submit(i) PROVE TypeInv'
    BY <1>1, SubmitTyped
<1>2. ASSUME NEW i \in Presses, SentUnheard(i) \/ Unexpected(i) PROVE TypeInv'
    <2>1. PICK to \in {"no", "error"} : press' = [press EXCEPT ![i].stage = to]
        BY <1>2 DEF SentUnheard, Notice, Unexpected
    <2>2. press[i].stage \in {"check", "send", "fetch"}
        BY <1>2 DEF SentUnheard, Unexpected
    <2>3. /\ \A j \in Presses : PressTyped(press[j])'
          /\ press'[i].stage = to
          /\ \A j \in Presses : j # i => press'[j] = press[j]
        BY <1>0, <2>1, <2>2, MovedTyped DEF Replies
    <2>4. (\E j \in Presses : press'[j].stage = "install") <=> (\E j \in Presses : press[j].stage = "install")
        BY <2>2, <2>3
    <2>5. /\ session' \in [status : {"pending", "ok", "failed"}, busy : BOOLEAN, needNew : BOOLEAN,
                           attempt : 1..MaxPuzzles, puzzle : 1..MaxPuzzles, nid : 0..MaxNotices]
          /\ session'.puzzle = session.puzzle /\ session'.attempt = session.attempt
        <3>1. CASE SentUnheard(i)
            <4>1. /\ session.nid < MaxNotices
                  /\ session' = [session EXCEPT !.nid = session.nid + 1, !.busy = FALSE]
                BY <3>1 DEF SentUnheard, Notice
            <4>2. session.nid + 1 \in 0..MaxNotices
                BY <4>1 DEF TypeInv
            <4> QED
                BY <4>1, <4>2 DEF TypeInv
        <3>2. CASE Unexpected(i)
            <4>1. session' = [session EXCEPT !.busy = FALSE]
                BY <3>2 DEF Unexpected
            <4> QED
                BY <4>1 DEF TypeInv
        <3> QED
            BY <1>2, <3>1, <3>2
    <2>6. budget' \in 0..MaxFaults /\ UNCHANGED <<page, poll, server>>
        BY <1>2 DEF SentUnheard, Unexpected, TypeInv
    <2> QED
        BY <2>3, <2>4, <2>5, <2>6 DEF TypeInv, PollTyped, Installed
<1>3. ASSUME NEW t \in Tabs, Verify(t) PROVE TypeInv'
    <2>1. PICK i \in Presses :
            /\ press[i].stage = "unused"
            /\ press' = [press EXCEPT ![i] = [stage |-> "sent", tab |-> t, seen |-> page[t].seen]]
        BY <1>3 DEF Verify
    <2>2. \A j \in Presses : PressTyped(press[j])'
        BY <1>0, <2>1 DEF TypeInv, PressTyped, Shapes, Pages
    <2>3. (\E j \in Presses : press'[j].stage = "install") <=> (\E j \in Presses : press[j].stage = "install")
        BY <1>0, <2>1 DEF Shapes
    <2>4. page' \in [Tabs -> Pages] /\ UNCHANGED <<session, poll, server, budget>>
        BY <1>3 DEF Verify, TypeInv, Pages
    <2> QED
        BY <2>2, <2>3, <2>4 DEF TypeInv, PollTyped, Installed
<1>4. ASSUME NEW i \in Presses, Hear(i) PROVE TypeInv'
    <2> DEFINE t == press[i].tab
    <2>1. press[i].stage \in Replies /\ press' = [press EXCEPT ![i] = [stage |-> "heard"]]
          /\ UNCHANGED <<session, poll, server>>
        BY <1>4 DEF Hear
    <2>2. t \in Tabs /\ page[t] \in Pages
        BY <2>1 DEF TypeInv, PressTyped, Replies
    <2>3. \A reply : Heard(page[t], reply) \in Pages
        <3>1. /\ [page[t] EXCEPT !.done = TRUE, !.enabled = FALSE] \in Pages
              /\ [page[t] EXCEPT !.timers = page[t].timers + 1] \in Pages
            <4>1. page[t].timers + 1 \in Nat
                BY <2>2 DEF Pages
            <4> QED
                BY <2>2, <4>1 DEF Pages
        <3> QED
            BY <2>2, <3>1 DEF Heard, Finish
    <2>4. page' \in [Tabs -> Pages] /\ budget' \in 0..MaxFaults
        BY <1>4, <2>2, <2>3 DEF Hear, TypeInv
    <2>5. \A j \in Presses : PressTyped(press[j])'
        BY <1>0, <2>1 DEF TypeInv, PressTyped, Shapes
    <2>6. (\E j \in Presses : press'[j].stage = "install") <=> (\E j \in Presses : press[j].stage = "install")
        BY <1>0, <2>1 DEF Shapes, Replies
    <2> QED
        BY <2>1, <2>4, <2>5, <2>6 DEF TypeInv, PollTyped, Installed
<1>5. ASSUME NEW t \in Tabs, Ask(t) \/ ReadOn(t) PROVE TypeInv'
    <2>1. DOMAIN poll' = Tabs /\ \A v \in Tabs : PollTyped(poll[v])'
        <3>1. /\ DOMAIN poll' = Tabs /\ PollTyped(poll'[t])
              /\ \A v \in Tabs : v # t => poll'[v] = poll[v]
            BY <1>5, ReadFields DEF TypeInv
        <3> QED
            BY <3>1 DEF TypeInv, PollTyped
    <2>2. UNCHANGED <<session, page, press, server, budget>>
        BY <1>5 DEF Ask, ReadOn, Read
    <2> QED
        BY <2>1, <2>2 DEF TypeInv, PressTyped, Installed
<1>6. ASSUME NEW t \in Tabs, Show(t) PROVE TypeInv'
    <2>1. poll[t].stage = "piece" /\ poll' = [poll EXCEPT ![t] = Idle] /\ UNCHANGED <<session, press, server>>
        BY <1>6 DEF Show
    <2>2. DOMAIN poll' = Tabs /\ \A v \in Tabs : PollTyped(poll[v])'
        BY <2>1 DEF TypeInv, PollTyped, Idle
    <2>3. page[t] \in Pages /\ PollTyped(poll[t])
        BY DEF TypeInv
    <2>4. Shown(page[t], poll[t]) \in Pages
        BY <2>1, <2>3, ShownFields
    <2>5. page' \in [Tabs -> Pages] /\ budget' \in 0..MaxFaults
        BY <1>6, <2>4 DEF Show, TypeInv
    <2> QED
        BY <2>1, <2>2, <2>5 DEF TypeInv, PressTyped, Installed
<1>7. ASSUME NEW t \in Tabs, Enable(t) PROVE TypeInv'
    <2>1. UNCHANGED <<session, poll, press, server, budget>>
        BY <1>7 DEF Enable
    <2>2. page' \in [Tabs -> Pages]
        BY <1>7, EnableFields DEF TypeInv
    <2> QED
        BY <2>1, <2>2 DEF TypeInv, PressTyped, PollTyped, Installed
<1>8. ASSUME Shut \/ UNCHANGED vars PROVE TypeInv'
    BY <1>8 DEF Shut, vars, TypeInv, PressTyped, PollTyped, Installed
<1> QED
    BY <1>1, <1>2, <1>3, <1>4, <1>5, <1>6, <1>7, <1>8 DEF Next, Serve, Poll

\* At first every part of the state has its type.
LEMMA TypeInit == Init => TypeInv
BY PuzzleAssumption DEF Init, TypeInv, Pages, PollTyped, PressTyped, Idle, Installed

\* However many tabs press Verify, and whatever is lost: every part of the state keeps its type,
\* no attempt is counted without its captcha, and no captcha without its attempt.
THEOREM PuzzleTyped == Spec => []TypeOK
<1>1. Init => PuzzleInv /\ TypeInv
    BY PuzzleInitial, TypeInit
<1>2. PuzzleInv /\ TypeInv /\ [Next]_vars => (PuzzleInv /\ TypeInv)'
    BY PuzzleStep, TypeStep
<1>3. TypeInv => TypeOK
    BY DEF TypeInv, TypeOK, Pages, PollTyped, PressTyped
<1> QED
    BY <1>1, <1>2, <1>3, PTL DEF Spec
-----------------------------------------------------------------------------------
\* A step of a submit(): it goes on, or ends with at most one new attempt or notice.
Moves(i) ==
    /\ UNCHANGED <<page, poll, budget>>
    /\ history'.pressed = history.pressed /\ history'.blind = history.blind
    /\ Active(i) /\ press'[i].seen = press[i].seen /\ press'[i].stage \notin {"error", "unused"}
    /\ \A j \in Presses : j # i => press'[j] = press[j]
    /\ \/ Active(i)' /\ session'.attempt = session.attempt /\ session'.nid = session.nid
       \/ ~Active(i)' /\ session'.attempt = session.attempt /\ session'.nid = session.nid
       \/ ~Active(i)' /\ session'.attempt = session.attempt + 1 /\ session'.nid = session.nid
       \/ ~Active(i)' /\ session'.attempt = session.attempt /\ session'.nid = session.nid + 1

\* That is what every step of submit() does.
LEMMA SubmitMoves ==
    ASSUME PuzzleInv, TypeInv, NEW i \in Presses, Submit(i)
    PROVE  Moves(i)
<1>0. Shapes /\ UNCHANGED <<page, poll, budget>>
    BY DEF PuzzleInv, Submit
<1>1. ASSUME NEW from \in {"sent"} \cup Working, NEW to \in (Working \cup Replies) \ {"error"},
             Reach(i, from, to), history'.pressed = history.pressed, history'.blind = history.blind,
             session'.attempt = session.attempt, session'.nid = session.nid
      PROVE  Moves(i)
    <2>1. /\ press' = [press EXCEPT ![i].stage = to] /\ press[i].stage = from
          /\ from \notin {"unused", "heard"}
        BY <1>1 DEF Reach, Working
    <2>2. /\ press'[i].stage = to /\ press'[i].seen = press[i].seen
          /\ \A j \in Presses : j # i => press'[j] = press[j]
        BY <1>0, <2>1, MovedTyped
    <2> QED
        BY <1>0, <1>1, <2>1, <2>2 DEF Moves, Active, Working, Replies
<1>2. ASSUME Answer(i) PROVE Moves(i)
    <2>1. Settled \in {"verified", "no", "busy"} /\ Reach(i, "sent", Settled) /\ UNCHANGED <<session, history>>
        BY <1>2 DEF Answer, Settled
    <2>2. Settled \in (Working \cup Replies) \ {"error"}
        BY <2>1 DEF Replies
    <2> QED
        BY <1>1, <2>1, <2>2
<1>3. ASSUME Start(i) PROVE Moves(i)
    <2> DEFINE to == IF session.needNew THEN "fetch" ELSE "check"
    <2>1. /\ to \in (Working \cup Replies) \ {"error"} /\ Reach(i, "sent", to) /\ UNCHANGED history
          /\ session' = [session EXCEPT !.busy = TRUE]
        BY <1>3 DEF Start, Working
    <2> HIDE DEF to
    <2> QED
        BY <1>1, <2>1, <1>0 DEF Shapes
<1>4. ASSUME Right(i) \/ Wrong(i) \/ Sent(i) \/ Refused(i) PROVE Moves(i)
    <2>1. PICK from \in {"check", "send"}, to \in {"send", "fetch", "verified", "no"} : Reach(i, from, to)
        BY <1>4 DEF Right, Wrong, Sent, Refused
    <2>2. /\ from \in {"sent"} \cup Working /\ to \in (Working \cup Replies) \ {"error"}
        BY DEF Working, Replies
    <2>3. /\ history'.pressed = history.pressed /\ history'.blind = history.blind
          /\ session'.attempt = session.attempt /\ session'.nid = session.nid
        BY <1>0, <1>4 DEF Right, Wrong, Sent, Refused, Shapes
    <2> QED
        BY <1>1, <2>1, <2>2, <2>3
<1>5. ASSUME NewPuzzle(i) PROVE Moves(i)
    <2>1. /\ Reach(i, "fetch", "install") /\ history' = history
          /\ session' = [session EXCEPT !.puzzle = @ + 1]
        BY <1>5 DEF NewPuzzle, Install
    <2>2. "fetch" \in {"sent"} \cup Working /\ "install" \in (Working \cup Replies) \ {"error"}
        BY DEF Working
    <2> QED
        BY <1>0, <1>1, <2>1, <2>2 DEF Shapes
<1>6. ASSUME CountAttempt(i) \/ CannotReach(i) PROVE Moves(i)
    <2>1. /\ press' = [press EXCEPT ![i].stage = "no"]
          /\ press[i].stage \in Working /\ press[i].stage \notin {"unused", "heard"}
          /\ history' = history
        BY <1>6 DEF CountAttempt, CannotReach, Reach, Notice, Working
    <2>2. /\ press'[i].stage = "no" /\ press'[i].seen = press[i].seen
          /\ \A j \in Presses : j # i => press'[j] = press[j]
        BY <1>0, <2>1, MovedTyped DEF Replies
    <2>3. \/ session'.attempt = session.attempt + 1 /\ session'.nid = session.nid
          \/ session'.attempt = session.attempt /\ session'.nid = session.nid + 1
        <3>1. CASE CountAttempt(i)
            <4> DEFINE counted == [session EXCEPT !.attempt = session.attempt + 1]
            <4>1. session' = [counted EXCEPT !.needNew = FALSE, !.busy = FALSE]
                BY <3>1 DEF CountAttempt, Install
            <4>2. /\ DOMAIN counted = {"status", "busy", "needNew", "attempt", "puzzle", "nid"}
                  /\ counted.attempt = session.attempt + 1 /\ counted.nid = session.nid
                BY <1>0 DEF Shapes
            <4> HIDE DEF counted
            <4> QED
                BY <4>1, <4>2
        <3>2. CASE CannotReach(i)
            <4>1. session' = [session EXCEPT !.nid = session.nid + 1, !.busy = FALSE]
                BY <3>2 DEF CannotReach, Notice
            <4> QED
                BY <1>0, <4>1 DEF Shapes
        <3> QED
            BY <1>6, <3>1, <3>2
    <2> QED
        BY <1>0, <2>1, <2>2, <2>3 DEF Moves, Active, Working
<1> QED
    BY <1>2, <1>3, <1>4, <1>5, <1>6 DEF Submit

\* A step of a submit() lets a tab that is used alone press Verify once more at most.
LEMMA MoveFits ==
    ASSUME PuzzleInv, TypeInv, FitInv, NEW i \in Presses, Moves(i)
    PROVE  FitInv'
<1> USE DEF Moves
<1>0. /\ session.attempt \in Int /\ session.nid \in Int
      /\ \A t \in Tabs : page[t].at \in Int /\ page[t].nid \in Int /\ page[t].timers \in Int
      /\ \A t \in Tabs : poll[t].attempt \in Int /\ poll[t].nid \in Int
    BY DEF TypeInv, Pages, PollTyped
<1>1. Behind'
    BY <1>0 DEF FitInv, Behind
<1>2. press[i].stage # "unused"
    BY DEF Active, Working
<1>3. Unpressed' /\ history.pressed # {}
    BY <1>2 DEF FitInv, Unpressed
<1>4. ASSUME NEW t \in Tabs, Alone(t)' PROVE Fitting(t)'
    <2>1. Alone(t) /\ Fitting(t)
        BY <1>4 DEF FitInv, Alone
    <2>2. page[t].at # 0 /\ page[t].seen = {page[t].at} /\ Rights(t) <= 1
        BY <1>3, <2>1 DEF Fitting
    <2>3. \A j \in Presses : Active(j) => j = i
        BY <2>1 DEF Fitting
    <2>4. \A j \in Presses : j # i => ~Active(j)'
        BY <2>3 DEF Active
    <2>5. Rights(t)' <= 1
        <3>1. (IF page[t].enabled THEN 1 ELSE 0) \in Int
            OBVIOUS
        <3> DEFINE e == IF page[t].enabled THEN 1 ELSE 0
        <3>2. e' = e
            OBVIOUS
        <3>3. Rights(t) = e + page[t].timers + 1 + (session.attempt - page[t].at) + (session.nid - page[t].nid)
            BY DEF Rights
        <3>4. CASE Active(i)'
            <4>1. Rights(t)' = e + page[t].timers + 1 + (session.attempt - page[t].at) + (session.nid - page[t].nid)
                BY <3>4 DEF Rights
            <4> QED
                BY <2>2, <3>3, <4>1
        <3>5. CASE ~Active(i)'
            <4>1. ~ \E j \in Presses : Active(j)'
                BY <2>4, <3>5
            <4>2. Rights(t)' = e + page[t].timers + 0 + (session'.attempt - page[t].at) + (session'.nid - page[t].nid)
                BY <4>1 DEF Rights
            <4> HIDE DEF e
            <4>3. e \in Int
                BY <3>1 DEF e
            <4> QED
                BY <1>0, <2>2, <3>3, <3>5, <4>2, <4>3
        <3> QED
            BY <3>4, <3>5
    <2>6. \A j \in Presses : press'[j].stage # "error" /\ (Active(j)' => press'[j].seen = {page[t].at})
        BY <2>1, <2>4 DEF Fitting
    <2>7. \A j, k \in Presses : Active(j)' /\ Active(k)' => j = k
        BY <2>4
    <2> QED
        BY <2>1, <2>2, <2>5, <2>6, <2>7 DEF Fitting
<1> QED
    BY <1>1, <1>3, <1>4 DEF FitInv

\* A page with one right at most (a button, timers, or a submit() under way, a: the IFs of Rights)
\* and a state it asked for, both behind the session.
FewRights(e, timers, a, A, N, at, nid, rat, rnid) ==
    /\ {e, timers, a, A, N, at, nid, rat, rnid} \subseteq Int
    /\ e >= 0 /\ timers >= 0 /\ a >= 0
    /\ at <= rat /\ rat <= A /\ nid <= rnid /\ rnid <= N
    /\ e + timers + a + (A - at) + (N - nid) <= 1

\* If that state is of a new attempt, the page had no other right.
LEMMA NewAttemptOnly ==
    ASSUME NEW e, NEW timers, NEW a, NEW A, NEW N, NEW at, NEW nid, NEW rat, NEW rnid,
           FewRights(e, timers, a, A, N, at, nid, rat, rnid), rat # at
    PROVE  e = 0 /\ timers = 0 /\ a = 0 /\ rat = A /\ nid = N /\ rnid = nid
<1>0. e \in Int /\ timers \in Int /\ a \in Int /\ A \in Int /\ N \in Int
      /\ at \in Int /\ nid \in Int /\ rat \in Int /\ rnid \in Int
    BY DEF FewRights
<1>1. A - at >= 1 /\ N - nid >= 0
    BY <1>0 DEF FewRights
<1>2. e = 0 /\ timers = 0 /\ a = 0 /\ A - at = 1 /\ N - nid = 0
    BY <1>0, <1>1 DEF FewRights
<1> QED
    BY <1>0, <1>2 DEF FewRights

\* A new notice is turned into a timer, a new attempt into an enabled button.
LEMMA RightsShown ==
    ASSUME NEW e, NEW timers, NEW a, NEW A, NEW N, NEW at, NEW nid, NEW rat, NEW rnid,
           FewRights(e, timers, a, A, N, at, nid, rat, rnid),
           NEW f \in {0, 1}, rat = at => f = e
    PROVE  f + (IF rnid = nid THEN timers ELSE timers + 1) + a + (A - rat) + (N - rnid) <= 1
<1> DEFINE later == IF rnid = nid THEN timers ELSE timers + 1
<1>0. e \in Int /\ timers \in Int /\ a \in Int /\ A \in Int /\ N \in Int
      /\ at \in Int /\ nid \in Int /\ rat \in Int /\ rnid \in Int
    BY DEF FewRights
<1>1. later \in Int /\ later - rnid <= timers - nid
    BY <1>0 DEF FewRights
<1>2. CASE rat # at
    <2>1. timers = 0 /\ a = 0 /\ rat = A /\ nid = N /\ rnid = nid
        BY <1>2, NewAttemptOnly
    <2> QED
        BY <1>0, <2>1
<1>3. CASE rat = at
    <2> HIDE DEF later
    <2>1. f + later + a + (A - rat) + (N - rnid) <= e + timers + a + (A - at) + (N - nid)
        BY <1>0, <1>1, <1>3
    <2>2. e + timers + a + (A - at) + (N - nid) <= 1
        BY DEF FewRights
    <2>3. f + later + a + (A - rat) + (N - rnid) <= 1
        BY <1>0, <1>1, <2>1, <2>2
    <2> QED
        BY <2>3 DEF later
<1> QED
    BY <1>2, <1>3

\* What a page shows of a state it asked for gives back the right to press that the state stands
\* for, and the puzzle of its attempt (poll of PAGE).
LEMMA ShowFits ==
    ASSUME PuzzleInv, TypeInv, FitInv, NEW t \in Tabs, Show(t)
    PROVE  FitInv'
<1> DEFINE p == page[t]
           r == poll[t]
           q == Shown(p, r)
<1>0. /\ r.stage = "piece" /\ p \in Pages /\ PollTyped(r) /\ poll' = [poll EXCEPT ![t] = Idle]
      /\ UNCHANGED <<session, press, server, history>>
    BY DEF Show, TypeInv
<1>1. /\ q \in Pages
      /\ p.done => q = p
      /\ ~p.done =>
            /\ q.at = r.attempt
            /\ q.seen = IF r.attempt = p.at THEN p.seen ELSE {r.background, r.piece}
            /\ r.status # "pending" => q.nid = p.nid /\ q.timers = p.timers /\ q.enabled = FALSE
            /\ r.status = "pending" =>
                /\ q.nid = r.nid
                /\ q.timers = IF r.nid = p.nid THEN p.timers ELSE p.timers + 1
                /\ q.enabled = IF r.attempt = p.at THEN p.enabled ELSE TRUE
    BY <1>0, ShownFields
<1>2. /\ session.attempt \in Int /\ session.nid \in Int
      /\ p.at \in Int /\ p.nid \in Int /\ p.timers \in Int /\ p.timers >= 0 /\ p.enabled \in BOOLEAN
      /\ r.attempt \in Int /\ r.attempt >= 1 /\ r.nid \in Int
    BY <1>0 DEF TypeInv, Pages, PollTyped
<1>3. /\ p.at <= r.attempt /\ r.attempt <= session.attempt /\ p.nid <= r.nid /\ r.nid <= session.nid
    BY <1>0 DEF FitInv, Behind
<1>4. \/ page' = page
      \/ page' = [page EXCEPT ![t] = q] /\ budget' = budget
    BY DEF Show
<1>5. page[t] = p /\ (page'[t] = p \/ page'[t] = q) /\ \A v \in Tabs : v # t => page'[v] = page[v]
    BY <1>4 DEF TypeInv
<1>6. poll'[t].stage = "idle" /\ \A v \in Tabs : v # t => poll'[v] = poll[v]
    BY <1>0 DEF Idle, TypeInv
<1> HIDE DEF p, q, r
<1>7. Behind'
    <2>1. page'[t].at <= session.attempt /\ page'[t].nid <= session.nid
        BY <1>1, <1>2, <1>3, <1>5 DEF FitInv, Behind
    <2> QED
        BY <1>0, <1>5, <1>6, <2>1 DEF FitInv, Behind
<1>8. Unpressed'
    BY <1>0 DEF FitInv, Unpressed
<1>9. ASSUME NEW v \in Tabs, Alone(v)', v # t PROVE Fitting(v)'
    <2>1. Alone(v)
        BY <1>0, <1>9 DEF Show, Alone, TypeInv
    <2>2. Fitting(v) /\ page'[v] = page[v] /\ poll'[v] = poll[v]
        BY <1>5, <1>6, <1>9, <2>1 DEF FitInv
    <2> QED
        BY <1>0, <2>2 DEF Fitting, Rights, Active
<1>10. ASSUME Alone(t)' PROVE Fitting(t)'
    <2>1. /\ Alone(t) /\ (budget' = budget => page' = [page EXCEPT ![t] = q])
        BY <1>0, <1>10 DEF Show, Alone, TypeInv, p, q, r
    <2>2. Fitting(t) /\ page'[t] = q
        BY <1>10, <2>1 DEF Alone, FitInv, TypeInv
    <2> DEFINE a == IF \E i \in Presses : Active(i) THEN 1 ELSE 0
    <2>3. a \in {0, 1} /\ a' = a
        BY <1>0 DEF Active
    <2>4. Rights(t) = (IF p.enabled THEN 1 ELSE 0) + p.timers + a
                        + (session.attempt - p.at) + (session.nid - p.nid)
        BY DEF Rights, p
    <2>5. Rights(t)' = (IF q.enabled THEN 1 ELSE 0) + q.timers + a
                        + (session.attempt - q.at) + (session.nid - q.nid)
        BY <1>0, <2>2, <2>3 DEF Rights
    <2> HIDE DEF a
    <2>6. CASE p.at = 0
        <3>1. /\ history.pressed = {} /\ p.seen = {} /\ p.timers = 0
            BY <2>2, <2>6 DEF Fitting, p
        <3>2. /\ session.attempt = 1 /\ session.nid = 0 /\ \A i \in Presses : press[i].stage = "unused"
            BY <3>1 DEF FitInv, Unpressed
        <3>3. a = 0
            BY <3>2 DEF a, Active, Working
        <3>4. r.attempt = 1 /\ r.nid = 0 /\ p.nid = 0
            BY <1>2, <1>3, <3>2 DEF TypeInv, Pages, p
        <3>5. r.background = 1 /\ r.piece = 1
            BY <1>0, <2>2, <2>6, <3>4 DEF Fitting, r, p
        <3>6. CASE p.done
            BY <1>0, <1>1, <1>6, <2>2, <2>6, <3>1, <3>2, <3>6 DEF Fitting, p, Active, Working
        <3>7. CASE ~p.done
            <4>1. q.at = 1 /\ q.seen = {1} /\ q.nid = 0 /\ q.timers = 0
                <5>1. q.at = 1 /\ q.seen = {r.background, r.piece}
                    <6>1. /\ q.at = r.attempt
                          /\ q.seen = IF r.attempt = p.at THEN p.seen ELSE {r.background, r.piece}
                        BY <1>1, <3>7
                    <6> QED
                        BY <2>6, <3>4, <6>1
                <5>2. q.nid = 0 /\ q.timers = 0
                    BY <1>1, <3>1, <3>4, <3>7
                <5> QED
                    BY <3>5, <5>1, <5>2
            <4>2. Rights(t)' <= 1
                BY <2>5, <3>2, <3>3, <4>1
            <4> QED
                BY <1>0, <1>6, <2>2, <3>2, <4>1, <4>2 DEF Fitting, Active, Working
        <3> QED
            BY <3>6, <3>7
    <2>7. CASE p.at # 0
        <3>1. Rights(t) <= 1 /\ p.seen = {p.at}
            BY <2>2, <2>7 DEF Fitting, p
        <3> DEFINE e == IF p.enabled THEN 1 ELSE 0
                   f == IF q.enabled THEN 1 ELSE 0
        <3>a. /\ e \in {0, 1} /\ f \in {0, 1}
              /\ q.enabled = FALSE => f = 0
              /\ q.enabled = p.enabled => f = e
            OBVIOUS
        <3>b. e + p.timers + a + (session.attempt - p.at) + (session.nid - p.nid) <= 1
            BY <2>4, <3>1
        <3>c. Rights(t)' = f + q.timers + a + (session.attempt - q.at) + (session.nid - q.nid)
            BY <2>5
        <3> HIDE DEF e, f
        <3>d. e \in Int /\ f \in Int /\ a \in Int /\ e >= 0 /\ a >= 0 /\ e <= 1 /\ f <= 1
            BY <2>3, <3>a
        <3>e. FewRights(e, p.timers, a, session.attempt, session.nid, p.at, p.nid, r.attempt, r.nid)
            BY <1>2, <1>3, <3>b, <3>d DEF FewRights
        <3>2. r.attempt # p.at => {r.background, r.piece} = {r.attempt} /\ a = 0 /\ r.attempt = session.attempt
            <4>1. r.attempt # p.at => {r.background, r.piece} = {r.attempt}
                BY <1>0, <2>2 DEF Fitting, r, p
            <4>2. r.attempt # p.at => a = 0 /\ r.attempt = session.attempt
                <5> SUFFICES ASSUME r.attempt # p.at PROVE a = 0 /\ r.attempt = session.attempt
                    OBVIOUS
                <5> QED
                    BY <3>e, NewAttemptOnly
            <4> QED
                BY <4>1, <4>2
        <3>3. Rights(t)' <= 1 /\ q.seen = {q.at} /\ q.at # 0
            <4>1. CASE p.done
                <5>1. q = p
                    BY <1>1, <4>1
                <5>2. f = e
                    BY <3>a, <5>1
                <5> QED
                    BY <2>7, <3>1, <3>b, <3>c, <5>1, <5>2
            <4>2. CASE ~p.done
                <5>1. q.at = r.attempt /\ q.seen = (IF r.attempt = p.at THEN p.seen ELSE {r.background, r.piece})
                    BY <1>1, <4>2
                <5>2. q.seen = {q.at} /\ q.at # 0
                    BY <1>2, <3>1, <3>2, <5>1
                <5>3. CASE r.status # "pending"
                    <6>1. q.nid = p.nid /\ q.timers = p.timers /\ f = 0
                        BY <1>1, <3>a, <4>2, <5>3
                    <6>2. Rights(t)' <= 1
                        BY <1>2, <1>3, <3>b, <3>c, <3>d, <5>1, <6>1
                    <6> QED
                        BY <5>2, <6>2
                <5>4. CASE r.status = "pending"
                    <6>1. /\ q.nid = r.nid
                          /\ q.timers = IF r.nid = p.nid THEN p.timers ELSE p.timers + 1
                          /\ r.attempt = p.at => f = e
                        BY <1>1, <3>a, <4>2, <5>4
                    <6>2. f + (IF r.nid = p.nid THEN p.timers ELSE p.timers + 1) + a
                            + (session.attempt - r.attempt) + (session.nid - r.nid) <= 1
                        BY <3>a, <3>e, <6>1, RightsShown
                    <6> QED
                        BY <3>c, <5>1, <5>2, <6>1, <6>2
                <5> QED
                    BY <5>3, <5>4
            <4> QED
                BY <4>1, <4>2
        <3>4. \A i \in Presses : Active(i) => q.at = p.at
            <4>1. (\E i \in Presses : Active(i)) => a = 1
                BY DEF a
            <4>2. (\E i \in Presses : Active(i)) => r.attempt = p.at
                BY <2>3, <3>2, <4>1
            <4>3. r.attempt = p.at => q.at = p.at
                BY <1>1
            <4> QED
                BY <4>2, <4>3
        <3> QED
            BY <1>0, <1>6, <2>2, <3>3, <3>4 DEF Fitting, Active, p
    <2> QED
        BY <2>6, <2>7
<1> QED
    BY <1>7, <1>8, <1>9, <1>10 DEF FitInv

\* Every step keeps a tab that is used alone from showing an old puzzle under a new attempt.
LEMMA FitStep == PuzzleInv /\ TypeInv /\ FitInv /\ [Next]_vars => FitInv'
<1> SUFFICES ASSUME PuzzleInv, TypeInv, FitInv, [Next]_vars PROVE FitInv'
    OBVIOUS
<1>0. /\ session.attempt \in Int /\ session.nid \in Int /\ budget \in 0..MaxFaults /\ MaxFaults \in Nat
      /\ page \in [Tabs -> Pages]
      /\ \A t \in Tabs : /\ page[t].at \in Int /\ page[t].nid \in Int /\ page[t].timers \in Int
                         /\ page[t].timers >= 0 /\ page[t].enabled \in BOOLEAN
      /\ \A t \in Tabs : poll[t].attempt \in Int /\ poll[t].nid \in Int
      /\ Shapes
    BY PuzzleAssumption DEF TypeInv, Pages, PollTyped, PuzzleInv
<1>1. ASSUME NEW i \in Presses, Submit(i) PROVE FitInv'
    BY <1>1, SubmitMoves, MoveFits
<1>2. ASSUME NEW i \in Presses, SentUnheard(i) \/ Unexpected(i) PROVE FitInv'
    <2>1. /\ press[i].stage # "unused" /\ UNCHANGED <<page, poll>> /\ budget' # MaxFaults
          /\ history'.pressed = history.pressed
        <3>1. press[i].stage # "unused" /\ UNCHANGED <<page, poll>> /\ budget' = budget - 1
            BY <1>2 DEF SentUnheard, Unexpected
        <3>2. CASE SentUnheard(i)
            BY <1>0, <3>2 DEF SentUnheard, Shapes
        <3>3. CASE Unexpected(i)
            <4>1. PICK n :
                    history' = [history EXCEPT !.sms = history.sms + n, !.unheard = history.unheard + n,
                                               !.odd = history.odd \cup {press[i].tab}]
                BY <3>3 DEF Unexpected
            <4>2. history'.pressed = history.pressed
                BY <1>0, <4>1 DEF Shapes
            <4> QED
                BY <1>0, <3>1, <4>2
        <3> QED
            BY <1>0, <1>2, <3>1, <3>2, <3>3
    <2>2. session'.attempt = session.attempt /\ session'.nid \in Int /\ session'.nid >= session.nid
        <3>1. CASE SentUnheard(i)
            <4>1. session' = [session EXCEPT !.nid = session.nid + 1, !.busy = FALSE]
                BY <3>1 DEF SentUnheard, Notice
            <4> QED
                BY <1>0, <4>1 DEF Shapes
        <3>2. CASE Unexpected(i)
            BY <1>0, <3>2 DEF Unexpected, Shapes
        <3> QED
            BY <1>2, <3>1, <3>2
    <2>3. Behind'
        BY <1>0, <2>1, <2>2 DEF FitInv, Behind
    <2>4. Unpressed'
        BY <2>1 DEF FitInv, Unpressed
    <2> QED
        BY <2>1, <2>3, <2>4 DEF FitInv, Alone
<1>3. ASSUME NEW t \in Tabs, Verify(t) PROVE FitInv'
    <2>1. PICK i \in Presses :
            /\ press[i].stage = "unused"
            /\ press' = [press EXCEPT ![i] = [stage |-> "sent", tab |-> t, seen |-> page[t].seen]]
        BY <1>3 DEF Verify
    <2>2. /\ page[t].enabled /\ page' = [page EXCEPT ![t].enabled = FALSE]
          /\ history'.pressed = history.pressed \cup {t}
          /\ history'.blind = (history.blind \/ page[t].seen = {})
          /\ UNCHANGED <<session, poll, budget>>
        BY <1>0, <1>3 DEF Verify, Shapes
    <2>3. /\ \A v \in Tabs : page'[v].at = page[v].at /\ page'[v].nid = page[v].nid
          /\ page'[t].seen = page[t].seen /\ page'[t].timers = page[t].timers /\ page'[t].enabled = FALSE
        BY <1>0, <2>2 DEF Pages
    <2>4. press'[i].stage = "sent" /\ press'[i].seen = page[t].seen
          /\ \A j \in Presses : j # i => press'[j] = press[j]
        BY <1>0, <2>1 DEF Shapes
    <2>5. Behind' /\ Unpressed'
        BY <2>2, <2>3 DEF FitInv, Behind, Unpressed
    <2>6. ASSUME NEW v \in Tabs, Alone(v)' PROVE Fitting(v)'
        <3>1. v = t /\ Alone(t) /\ page[t].seen # {}
            <4>1. history.blind = FALSE /\ page[t].seen # {}
                BY <1>0, <2>2, <2>6 DEF Alone, Shapes
            <4> QED
                BY <2>2, <2>6, <4>1 DEF Alone
        <3>2. Fitting(t)
            BY <3>1 DEF FitInv
        <3>3. page[t].at # 0 /\ Rights(t) <= 1 /\ page[t].seen = {page[t].at}
            BY <3>1, <3>2 DEF Fitting
        <3>4. session.attempt >= page[t].at /\ session.nid >= page[t].nid
            BY DEF FitInv, Behind
        <3> DEFINE a == IF \E j \in Presses : Active(j) THEN 1 ELSE 0
        <3>5. Rights(t) = 1 + page[t].timers + a + (session.attempt - page[t].at) + (session.nid - page[t].nid)
            BY <2>2 DEF Rights
        <3>6. a \in {0, 1}
            OBVIOUS
        <3> HIDE DEF a
        <3>7. /\ a = 0 /\ page[t].timers = 0 /\ session.attempt = page[t].at /\ session.nid = page[t].nid
            BY <1>0, <3>3, <3>4, <3>5, <3>6
        <3>8. \A j \in Presses : ~Active(j)
            BY <3>7 DEF a
        <3>9. Rights(t)' <= 1
            <4> DEFINE b == IF \E j \in Presses : Active(j)' THEN 1 ELSE 0
            <4>1. Rights(t)' = 0 + page[t].timers + b + (session.attempt - page[t].at) + (session.nid - page[t].nid)
                BY <2>2, <2>3 DEF Rights
            <4>2. b \in {0, 1}
                OBVIOUS
            <4> HIDE DEF b
            <4> QED
                BY <1>0, <3>7, <4>1, <4>2
        <3>10. \A j \in Presses : Active(j)' => j = i
            BY <2>4, <3>8 DEF Active
        <3>11. \A j \in Presses : press'[j].stage # "error"
            BY <2>4, <3>2 DEF Fitting
        <3> QED
            BY <2>2, <2>3, <2>4, <3>1, <3>2, <3>3, <3>9, <3>10, <3>11 DEF Fitting
    <2> QED
        BY <2>5, <2>6 DEF FitInv
<1>4. ASSUME NEW i \in Presses, Hear(i) PROVE FitInv'
    <2> DEFINE t == press[i].tab
    <2>1. /\ press[i].stage \in Replies /\ press' = [press EXCEPT ![i] = [stage |-> "heard"]]
          /\ UNCHANGED <<session, poll, history>>
          /\ \/ page' = [page EXCEPT ![t] = Heard(page[t], press[i].stage)] /\ budget' = budget
             \/ page' = [page EXCEPT ![t] = Heard(page[t], "error")] /\ budget' = budget - 1
        BY <1>4 DEF Hear
    <2>2. t \in Tabs
        BY <2>1 DEF TypeInv, PressTyped, Replies
    <2>3. \A j \in Presses : press'[j].stage # "unused" => press[j].stage # "unused"
        BY <1>0, <2>1 DEF Shapes, Replies
    <2>4. press'[i].stage = "heard" /\ \A j \in Presses : j # i => press'[j] = press[j]
        BY <1>0, <2>1 DEF Shapes
    <2>5. \A j \in Presses : Active(j)' = Active(j)
        BY <2>1, <2>4 DEF Active, Working, Replies
    <2>6. \A v \in Tabs : page'[v].at = page[v].at /\ page'[v].nid = page[v].nid /\ page'[v].seen = page[v].seen
        <3>1. \A reply : LET h == Heard(page[t], reply)
                         IN  h.at = page[t].at /\ h.nid = page[t].nid /\ h.seen = page[t].seen
            BY <1>0, <2>2 DEF Heard, Finish, Pages
        <3> QED
            BY <1>0, <2>1, <2>2, <3>1
    <2>7. Behind'
        BY <2>1, <2>6 DEF FitInv, Behind
    <2>8. Unpressed'
        BY <2>1, <2>4 DEF FitInv, Unpressed, Replies
    <2>9. ASSUME NEW v \in Tabs, Alone(v)' PROVE Fitting(v)'
        <3>1. budget' = budget /\ Alone(v)
            BY <1>0, <2>1, <2>9 DEF Alone
        <3>2. Fitting(v)
            BY <3>1 DEF FitInv
        <3>3. press[i].stage \in {"verified", "no", "busy"}
            BY <2>1, <3>2 DEF Fitting, Replies
        <3>4. page' = [page EXCEPT ![t] = Heard(page[t], press[i].stage)]
            BY <1>0, <2>1, <3>1
        <3>5. /\ Heard(page[t], press[i].stage).timers = page[t].timers
              /\ Heard(page[t], press[i].stage).enabled \in {page[t].enabled, FALSE}
            BY <1>0, <2>2, <3>3 DEF Heard, Finish, Pages
        <3>6. page'[v].timers = page[v].timers /\ page'[v].enabled \in {page[v].enabled, FALSE}
            BY <1>0, <2>2, <3>4, <3>5
        <3> DEFINE a == IF \E j \in Presses : Active(j) THEN 1 ELSE 0
        <3>7. a \in {0, 1}
            OBVIOUS
        <3> DEFINE e == IF page[v].enabled THEN 1 ELSE 0
                   f == IF page'[v].enabled THEN 1 ELSE 0
        <3>a. e \in {0, 1} /\ f \in {0, 1} /\ f <= e
            <4>1. page'[v].enabled => page[v].enabled
                BY <1>0, <3>6
            <4> QED
                BY <4>1
        <3>8. Rights(v) = e + page[v].timers + a
                            + (session.attempt - page[v].at) + (session.nid - page[v].nid)
            BY DEF Rights
        <3>9. Rights(v)' = f + page[v].timers + a
                            + (session.attempt - page[v].at) + (session.nid - page[v].nid)
            BY <2>1, <2>5, <2>6, <3>6 DEF Rights
        <3> HIDE DEF a, e, f
        <3>10. Rights(v) <= 1 => Rights(v)' <= 1
            BY <1>0, <3>7, <3>8, <3>9, <3>a
        <3>11. /\ page'[v].at = 0 => history'.pressed = {} /\ page'[v].seen = {} /\ page'[v].timers = 0
               /\ page'[v].at # 0 => Rights(v)' <= 1 /\ page'[v].seen = {page'[v].at}
            BY <2>1, <2>6, <3>2, <3>6, <3>10 DEF Fitting
        <3>12. \A j \in Presses :
                  /\ press'[j].stage # "error"
                  /\ Active(j)' => press'[j].seen = {page'[v].at} /\ \A k \in Presses : Active(k)' => k = j
            <4>1. \A j \in Presses : Active(j) => j # i
                BY <2>1 DEF Active, Working, Replies
            <4> QED
                BY <2>4, <2>5, <2>6, <3>2, <4>1 DEF Fitting
        <3> QED
            BY <2>1, <2>6, <3>2, <3>11, <3>12 DEF Fitting
    <2> QED
        BY <2>7, <2>8, <2>9 DEF FitInv
<1>5. ASSUME NEW t \in Tabs, Ask(t) \/ ReadOn(t) PROVE FitInv'
    <2> DEFINE r == poll[t]
               q == poll'[t]
    <2>1. UNCHANGED <<session, page, press, budget, history>>
        BY <1>5 DEF Ask, ReadOn, Read
    <2>2. /\ DOMAIN poll' = Tabs /\ PollTyped(q) /\ PollTyped(r)
          /\ \A v \in Tabs : v # t => poll'[v] = poll[v]
          /\ \/ r.stage = "idle" /\ q = [r EXCEPT !.stage = "nid", !.nid = session.nid]
             \/ r.stage = "nid" /\ q = [r EXCEPT !.stage = "attempt", !.attempt = session.attempt]
             \/ r.stage = "attempt" /\ q = [r EXCEPT !.stage = "status", !.status = session.status]
             \/ r.stage = "status" /\ q = [r EXCEPT !.stage = "background", !.background = session.puzzle]
             \/ r.stage = "background" /\ q = [r EXCEPT !.stage = "piece", !.piece = session.puzzle]
        BY <1>5, ReadFields DEF TypeInv
    <2>3. Behind'
        <3>1. page[t].at <= session.attempt /\ page[t].nid <= session.nid
            BY DEF FitInv, Behind
        <3>2. r.stage # "idle" => page[t].nid <= r.nid /\ r.nid <= session.nid
            BY DEF FitInv, Behind
        <3>3. r.stage \notin {"idle", "nid"} => page[t].at <= r.attempt /\ r.attempt <= session.attempt
            BY DEF FitInv, Behind
        <3>a. /\ q.nid \in {r.nid, session.nid} /\ (r.stage = "idle" => q.nid = session.nid)
              /\ q.stage \notin {"idle", "nid"} =>
                    q.attempt = session.attempt \/ (q.attempt = r.attempt /\ r.stage \notin {"idle", "nid"})
            BY <2>2 DEF PollTyped
        <3>4. /\ page[t].nid <= q.nid /\ q.nid <= session.nid
              /\ q.stage \notin {"idle", "nid"} => page[t].at <= q.attempt /\ q.attempt <= session.attempt
            BY <1>0, <3>1, <3>2, <3>3, <3>a
        <3> QED
            BY <2>1, <2>2, <3>4 DEF FitInv, Behind
    <2>4. Unpressed'
        BY <2>1 DEF FitInv, Unpressed
    <2>5. ASSUME NEW v \in Tabs, Alone(v)' PROVE Fitting(v)'
        <3>1. Fitting(v)
            BY <2>1, <2>5 DEF FitInv, Alone
        <3>2. Rights(v)' = Rights(v) /\ \A j \in Presses : Active(j)' = Active(j)
            BY <2>1 DEF Rights, Active
        <3>3. ASSUME v = t, r.stage \in {"status", "background"}, r.attempt # page[t].at
              PROVE  session.puzzle = r.attempt
            <4>2. /\ r.attempt \in 1..MaxPuzzles /\ page[t].at < r.attempt
                  /\ r.attempt <= session.attempt /\ page[t].nid <= session.nid
                BY <1>0, <2>2, <3>3 DEF PollTyped, FitInv, Behind
            <4>3. session.attempt = r.attempt /\ \A j \in Presses : ~Active(j)
                <5>1. CASE page[t].at = 0
                    <6>1. session.attempt = 1 /\ \A j \in Presses : press[j].stage = "unused"
                        BY <3>1, <3>3, <5>1 DEF Fitting, FitInv, Unpressed
                    <6> QED
                        BY <4>2, <6>1, PuzzleAssumption DEF Active, Working
                <5>2. CASE page[t].at # 0
                    <6> DEFINE a == IF \E j \in Presses : Active(j) THEN 1 ELSE 0
                               e == IF page[t].enabled THEN 1 ELSE 0
                    <6>1. e + page[t].timers + a + (session.attempt - page[t].at) + (session.nid - page[t].nid) <= 1
                        BY <3>1, <3>3, <5>2 DEF Fitting, Rights
                    <6>2. a \in {0, 1} /\ e \in {0, 1}
                        OBVIOUS
                    <6> HIDE DEF a, e
                    <6>3. a = 0 /\ session.attempt = r.attempt
                        BY <1>0, <4>2, <6>1, <6>2, PuzzleAssumption
                    <6> QED
                        BY <6>3 DEF a
                <5> QED
                    BY <5>1, <5>2
            <4>4. session.puzzle = session.attempt
                BY <1>0, <4>3 DEF TypeInv, Installed, Active, Working
            <4> QED
                BY <4>3, <4>4
        <3>4. ASSUME v = t, q.attempt # page[t].at
              PROVE  /\ q.stage \in {"background", "piece"} => q.background = q.attempt
                     /\ q.stage = "piece" => q.piece = q.attempt
            <4>1. CASE q.stage = "background"
                <5>1. r.stage = "status" /\ q.attempt = r.attempt /\ q.background = session.puzzle
                    BY <2>2, <4>1 DEF PollTyped
                <5> QED
                    BY <3>3, <3>4, <4>1, <5>1
            <4>2. CASE q.stage = "piece"
                <5>1. /\ r.stage = "background" /\ q.attempt = r.attempt
                      /\ q.background = r.background /\ q.piece = session.puzzle
                    BY <2>2, <4>2 DEF PollTyped
                <5>2. r.background = r.attempt
                    BY <3>1, <3>4, <5>1 DEF Fitting
                <5> QED
                    BY <3>3, <3>4, <4>2, <5>1, <5>2
            <4> QED
                BY <4>1, <4>2
        <3>5. poll'[v].attempt # page[v].at =>
                /\ poll'[v].stage \in {"background", "piece"} => poll'[v].background = poll'[v].attempt
                /\ poll'[v].stage = "piece" => poll'[v].piece = poll'[v].attempt
            BY <2>2, <3>1, <3>4 DEF Fitting
        <3> QED
            BY <2>1, <3>1, <3>2, <3>5 DEF Fitting
    <2> QED
        BY <2>3, <2>4, <2>5 DEF FitInv
<1>6. ASSUME NEW t \in Tabs, Show(t) PROVE FitInv'
    BY <1>6, ShowFits
<1>7. ASSUME NEW t \in Tabs, Enable(t) PROVE FitInv'
    <2>1. UNCHANGED <<session, poll, press, budget, history>>
        BY <1>7 DEF Enable
    <2>2. /\ page' \in [Tabs -> Pages]
          /\ \A v \in Tabs : v # t => page'[v] = page[v]
          /\ page[t].timers > 0 /\ page'[t].timers = page[t].timers - 1
          /\ page'[t].at = page[t].at /\ page'[t].seen = page[t].seen /\ page'[t].nid = page[t].nid
        BY <1>0, <1>7, EnableFields
    <2>3. Behind' /\ Unpressed'
        BY <2>1, <2>2 DEF FitInv, Behind, Unpressed
    <2>4. ASSUME NEW v \in Tabs, Alone(v)' PROVE Fitting(v)'
        <3>1. Fitting(v)
            BY <2>1, <2>4 DEF FitInv, Alone
        <3>2. \A j \in Presses : Active(j)' = Active(j)
            BY <2>1 DEF Active
        <3>3. CASE v # t
            BY <2>1, <2>2, <3>1, <3>2, <3>3 DEF Fitting, Rights
        <3>4. CASE v = t
            <4> DEFINE a == IF \E j \in Presses : Active(j) THEN 1 ELSE 0
            <4>1. Rights(t) = (IF page[t].enabled THEN 1 ELSE 0) + page[t].timers + a
                            + (session.attempt - page[t].at) + (session.nid - page[t].nid)
                BY DEF Rights
            <4>2. Rights(t)' = (IF page'[t].enabled THEN 1 ELSE 0) + (page[t].timers - 1) + a
                            + (session.attempt - page[t].at) + (session.nid - page[t].nid)
                BY <2>1, <2>2, <3>2 DEF Rights
            <4>3. a \in {0, 1}
                OBVIOUS
            <4> HIDE DEF a
            <4>4. page[t].at # 0
                BY <1>0, <2>2, <3>1, <3>4 DEF Fitting
            <4>5. Rights(t)' <= 1
                BY <1>0, <2>2, <3>1, <3>4, <4>1, <4>2, <4>3, <4>4 DEF Fitting
            <4> QED
                BY <2>1, <2>2, <3>1, <3>2, <3>4, <4>4, <4>5 DEF Fitting
        <3> QED
            BY <3>3, <3>4
    <2> QED
        BY <2>3, <2>4 DEF FitInv
<1>8. ASSUME Shut \/ UNCHANGED vars PROVE FitInv'
    <2>1. UNCHANGED <<session, page, poll, press, budget, history>>
        BY <1>8 DEF Shut, vars
    <2> QED
        BY <2>1 DEF FitInv, Behind, Unpressed, Alone, Fitting, Rights, Active
<1> QED
    BY <1>1, <1>2, <1>3, <1>4, <1>5, <1>6, <1>7, <1>8 DEF Next, Serve, Poll

\* At first no page shows anything and nobody has pressed.
LEMMA FitInit == Init => FitInv
BY DEF Init, FitInv, Behind, Unpressed, Alone, Fitting, Rights, Active, Idle, Working

\* For any number of tabs and presses, as long as one tab is used, no press is blind, and the replies
\* arrive: both images of the slide that is checked are of the puzzle it is checked against
\* (submit, _new_puzzle, state, PAGE).
THEOREM PuzzleSlideFits == Spec => []SlideFits
<1>1. Init => PuzzleInv /\ TypeInv /\ FitInv
    BY PuzzleInitial, TypeInit, FitInit
<1>2. PuzzleInv /\ TypeInv /\ FitInv /\ [Next]_vars => (PuzzleInv /\ TypeInv /\ FitInv)'
    BY PuzzleStep, TypeStep, FitStep
<1>3. PuzzleInv /\ TypeInv /\ FitInv => SlideFits
    <2> SUFFICES ASSUME PuzzleInv, TypeInv, FitInv, NEW i \in Presses, press[i].stage = "check",
                        history.pressed = {press[i].tab}, ~history.blind, budget = MaxFaults
                 PROVE  press[i].seen = {session.puzzle}
        BY DEF SlideFits
    <2> DEFINE t == press[i].tab
    <2>1. t \in Tabs /\ Active(i)
        BY DEF TypeInv, PressTyped, Active, Working
    <2>2. Fitting(t) /\ history.pressed # {}
        BY <2>1 DEF FitInv, Alone, PuzzleInv, Shapes
    <2>3. page[t].at # 0 /\ Rights(t) <= 1 /\ press[i].seen = {page[t].at}
        BY <2>1, <2>2 DEF Fitting
    <2>4. ~ \E j \in Presses : press[j].stage = "install"
        BY <2>1, <2>2 DEF Fitting, Active, Working
    <2>5. session.puzzle = session.attempt
        BY <2>4 DEF TypeInv, Installed
    <2>6. /\ session.attempt \in Int /\ session.nid \in Int /\ page[t].at \in Int /\ page[t].nid \in Int
          /\ page[t].timers \in Int /\ page[t].timers >= 0
          /\ page[t].at <= session.attempt /\ page[t].nid <= session.nid
        BY <2>1 DEF TypeInv, Pages, FitInv, Behind
    <2> DEFINE e == IF page[t].enabled THEN 1 ELSE 0
    <2>7. e + page[t].timers + 1 + (session.attempt - page[t].at) + (session.nid - page[t].nid) <= 1
        BY <2>1, <2>3 DEF Rights
    <2>8. e \in {0, 1}
        OBVIOUS
    <2> HIDE DEF e
    <2>9. session.attempt = page[t].at
        BY <2>6, <2>7, <2>8
    <2> QED
        BY <2>3, <2>5, <2>9
<1> QED
    BY <1>1, <1>2, <1>3, PTL DEF Spec
=================================================================================
