----------------------------- MODULE MCTokenSession -----------------------------
(***************************************************************************)
(* Instances of TokenSession: the tasks r1, r2 read and command on client A,*)
(* m reads its status and its alerts, and s signs in, on A itself or on    *)
(* another client B of the same store.                                     *)
(***************************************************************************)
EXTENDS TokenSession, TLC

OneProcess == [c \in Client |-> "host"]

\* Tasks of client A, and one that signs in on client B.
OtherClient == [t \in Task |-> IF t = "s" THEN "B" ELSE "A"]
SameClient == [t \in Task |-> "A"]
OnePerClient == [t \in Task |-> IF t = "r1" THEN "A" ELSE "B"]

Work == [t \in Task |-> CASE t = "r1" -> {"read"}
                          [] t = "r2" -> {"command"}
                          [] t = "m" -> {"alarms"}
                          [] OTHER -> {"load", "signin"}]
\* Both read the status; m also reads alerts.
Mixed == [t \in Task |-> {"read"} \cup IF t = "m" THEN {"alarms"} ELSE {}]
Reads == [t \in Task |-> {"read"}]
=================================================================================
