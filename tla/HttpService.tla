----------------------------- MODULE HttpService -----------------------------
(***************************************************************************)
(* What the server promises its clients, and nothing of how: a client asks *)
(* its questions one after the other and receives the answers to them,     *)
(* piece by piece, complete and in order, until somebody stops the server. *)
(* There is no loop, no worker, no queue, no descriptor and no epoll here. *)
(***************************************************************************)
EXTENDS Naturals, Sequences, SequencesExt

CONSTANTS
    Clients,
    Answers,                    \* Answers[c][i]: the pieces of the answer to c's i-th question
    Owed                        \* the questions <<c, i>> that must be answered

VARIABLES
    asked,                      \* how many questions each client has asked
    got,                        \* the pieces it has received
    stopped                     \* has somebody stopped the server?

vars == <<asked, got, stopped>>

\* All that c can expect after its first n questions.
Due(c, n) == FlattenSeq(SubSeq(Answers[c], 1, n))

Init ==
    /\ asked = [c \in Clients |-> 0]
    /\ got = [c \in Clients |-> <<>>]
    /\ stopped = FALSE

\* A client that has its answers asks the next question.
Ask(c) ==
    /\ asked[c] < Len(Answers[c]) /\ got[c] = Due(c, asked[c])
    /\ asked' = [asked EXCEPT ![c] = @ + 1]
    /\ UNCHANGED <<got, stopped>>

\* It receives some of what is due.
Deliver(c) ==
    /\ \E n \in Len(got[c]) + 1 .. Len(Due(c, asked[c])) :
           got' = [got EXCEPT ![c] = SubSeq(Due(c, asked[c]), 1, n)]
    /\ UNCHANGED <<asked, stopped>>

\* Stopping takes nothing back: what is due may still come, but need not.
Stop ==
    /\ stopped' = TRUE
    /\ UNCHANGED <<asked, got>>

Next == Stop \/ \E c \in Clients : Ask(c) \/ Deliver(c)

Spec == Init /\ [][Next]_vars

\* Every question that is owed an answer gets all of it.
Answered ==
    \A q \in Owed : (asked[q[1]] >= q[2]) ~> (stopped \/ IsPrefix(Due(q[1], q[2]), got[q[1]]))

=============================================================================
