----------------------------- MODULE MCEventLoop -----------------------------
(* Instances of EventLoop: what the clients of each run ask for. *)
EXTENDS EventLoop, TLC

CONSTANTS a, b

Faults == (a :> <<"short", "file">> @@ b :> <<"bad">>)
Sessions == (a :> <<"file", "empty", "throw">> @@ b :> <<"close">>)
OneOk == [c \in Clients |-> <<"ok">>]
FourOk == [c \in Clients |-> <<"ok", "ok", "ok", "ok">>]
OneBad == [c \in Clients |-> <<"bad">>]
FileThenOk == [c \in Clients |-> <<"file", "ok">>]

=============================================================================
