------------------------------- MODULE MCSockets -------------------------------
(* Sockets for TLC: the streams that the other side may send.                 *)
EXTENDS Sockets

MCStreams == {
    \* data that holds a separator, an empty line and a line
    <<"d", "|", "a", "|", "|", "a", "|">>,
    \* a compressed part that ends within a line
    <<"z", "|", "a", "|", "a", "e", "|">>,
    \* a file
    <<"f", "|", "a", "a">>}

ASSUME StreamsAreWellFormed == \A s \in MCStreams : WellFormed(s)
================================================================================
