------------------------------- MODULE MCPushFeed -------------------------------
(* Instances of PushFeed for TLC: details and messages that take every branch. *)
EXTENDS PushFeed

Plain == [host |-> TRUE, topics |-> {"t"}, scheme |-> "none", port |-> 1883, hostPort |-> 0]

\* Secure by scheme and by port, plain by scheme on the TLS port, and what cannot be used.
SomeDetails ==
    {Plain,
     [Plain EXCEPT !.scheme = "secure"],
     [Plain EXCEPT !.port = 0, !.hostPort = 8883],
     [Plain EXCEPT !.scheme = "plain", !.port = 8883],
     [Plain EXCEPT !.scheme = "other"],
     [Plain EXCEPT !.port = None]}

Result == [envelope |-> "good", object |-> TRUE, success |-> "absent",
           codes |-> <<"absent", "applied", "refused">>, items |-> <<>>]
Cause(text, value) == [error |-> TRUE, text |-> text, value |-> value]

\* Applied by its second code, refused by its flag and with causes, in no envelope, not an object.
SomeMessages ==
    {Result,
     [Result EXCEPT !.success = "refused",
                    !.items = <<Cause("door", 1), Cause("boot", 0), Cause("door", 1), Cause("key", 2)>>],
     [Result EXCEPT !.envelope = "plain"],
     [Result EXCEPT !.object = FALSE]}
=================================================================================
