------------------------------ MODULE SocketCalls ------------------------------
(***************************************************************************)
(* What the owner of a BufferedSocket may count on, without the thread, its  *)
(* tasks and its buffers: the order of the callbacks, silence once the socket *)
(* was put back, and an end of both kinds.                                   *)
(***************************************************************************)
EXTENDS Naturals, Sequences

VARIABLES
    life,       \* how far the connection is, see Moves
    owned,      \* has putSocket not been called
    leaving,    \* was the socket told to stop whatever it does
    heard       \* lines and data the listener was given

vars == <<life, owned, leaving, heard>>

(* The connection's phases and what may follow what.                         *)
Moves == {<<"new", "trying">>, <<"trying", "up">>, <<"trying", "over">>, <<"up", "over">>,
          <<"new", "gone">>, <<"trying", "gone">>, <<"up", "gone">>, <<"over", "gone">>}

Init == life = "new" /\ owned = TRUE /\ leaving = FALSE /\ heard = <<>>

Step(to) == <<life, to>> \in Moves /\ life' = to

(* Connecting, Connected and Failed, each once at most.                       *)
Call == \E to \in {"trying", "up", "over"} : Step(to) /\ UNCHANGED <<owned, leaving, heard>>

(* A line or data comes between Connected and Failed, to an owner.            *)
Hear ==
    /\ life = "up" /\ owned
    /\ Len(heard') > Len(heard) /\ SubSeq(heard', 1, Len(heard)) = heard
    /\ UNCHANGED <<life, owned, leaving>>

Leave == leaving' = TRUE /\ owned' \in {owned, FALSE} /\ UNCHANGED <<life, heard>>

(* The object is deleted once its owner has put it back, never before.        *)
Delete == ~owned /\ Step("gone") /\ UNCHANGED <<owned, leaving, heard>>

Next == Call \/ Hear \/ Leave \/ Delete

Spec == Init /\ [][Next]_vars

(* Who was told to stop fails its connection, and what was put back is deleted. *)
Fairness == WF_vars(leaving /\ Step("over") /\ Call) /\ WF_vars(Delete)
FairSpec == Spec /\ Fairness
================================================================================
