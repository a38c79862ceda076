------------------------------ MODULE CommandResult ------------------------------
(***************************************************************************)
(* What an answer about a command means: client.py's _command_result of the   *)
(* reply to the request, and push.py's interpret of a result, pushed or polled. *)
(* An answer says success by its flag ("applied", "refused" or "absent") and by  *)
(* the codes it holds, each "applied", "refused", "ongoing" (13001), "token"      *)
(* (SDK.GATE.0007), "odd" or "absent".                                        *)
(***************************************************************************)
EXTENDS Integers, SequencesExt

\* The first of code, resultCode and status that is there.
Code(m) ==
    LET stated == {i \in DOMAIN m.codes : m.codes[i] # "absent"}
    IN  IF stated = {} THEN "absent" ELSE m.codes[Min(stated)]

\* interpret: an explicit success flag decides, else the code, if it is a known one.
Outcome(m) ==
    LET said == IF m.success # "absent" THEN m.success ELSE Code(m)
    IN  IF m.object /\ said \in {"applied", "refused"} THEN said ELSE "unknown"

\* car_reported: the causes with a non-zero value of the items the car refused, each once, up to
\* most of them; only a refusal has any.
Causes(m, most) ==
    LET real == SelectSeq(m.items, LAMBDA i : i.error /\ i.text # "" /\ i.value # 0)
        once == FoldLeft(LAMBDA seen, i : IF <<i.text, i.value>> \in ToSet(seen) THEN seen
                                          ELSE Append(seen, <<i.text, i.value>>), <<>>, real)
    IN  IF Outcome(m) # "refused" THEN <<>>
        ELSE SubSeq(once, 1, IF Len(once) < most THEN Len(once) ELSE most)

\* _command_result: a command is accepted if the service took it or has it under way already.
Accepted(m) ==
    LET code == m.codes[1]
    IN  /\ m.object /\ code # "token"
        /\ \/ m.success = "applied"
           \/ code = "ongoing"
           \/ code = "applied" /\ m.success # "refused"

\* poll_command_result: None while the command is being executed.
Polled(m) == IF m.object /\ m.codes[1] = "ongoing" THEN "executing" ELSE Outcome(m)
=================================================================================
