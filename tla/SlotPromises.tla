------------------------------ MODULE SlotPromises ------------------------------
(***************************************************************************)
(* What UploadManager promises to those who download from us, without        *)
(* connections, counters and clocks: a free slot is for the users who were    *)
(* called back, only when there are none of these and nobody waits for        *)
(* whoever asks first, and the others wait and are called in their order.     *)
(***************************************************************************)
EXTENDS Integers, Sequences, FiniteSets

CONSTANTS
    Users,      \* that download from us
    Slots       \* that we have

VARIABLES
    waiting,    \* users that were turned away, in order
    promised,   \* users that were called back
    used        \* slots in use

vars == <<waiting, promised, used>>

Init == waiting = <<>> /\ promised = {} /\ used = 0

Without(queue, S) ==
    LET kept[n \in 0 .. Len(queue)] ==
            IF n = 0 THEN <<>>
            ELSE IF queue[n] \in S THEN kept[n - 1] ELSE Append(kept[n - 1], queue[n])
    IN  kept[Len(queue)]

MayTake(u) == used < Slots /\ (u \in promised \/ (waiting = <<>> /\ promised = {}))

Take(u) ==
    /\ MayTake(u) /\ used' = used + 1
    /\ waiting' = Without(waiting, {u}) /\ promised' = promised \ {u}

(* Who was promised a slot is not turned away.                               *)
TurnAway(u) ==
    /\ ~MayTake(u) /\ u \notin promised
    /\ \A i \in 1 .. Len(waiting) : waiting[i] # u
    /\ waiting' = Append(waiting, u) /\ UNCHANGED <<promised, used>>

(* The first of those who wait are promised what is free, or have left.       *)
Call ==
    /\ used + Cardinality(promised) < Slots
    /\ \E k \in 1 .. Len(waiting) :
          /\ waiting' = SubSeq(waiting, k + 1, Len(waiting))
          /\ \E reached \in SUBSET {waiting[i] : i \in 1 .. k} : promised' = promised \cup reached
    /\ used + Cardinality(promised') <= Slots
    /\ UNCHANGED used

(* Users do not come when they are called, get their file without a slot of    *)
(* this kind, or leave; a promise may outlast that.                           *)
GiveUp(S) ==
    /\ waiting' = Without(waiting, S) /\ promised' \in {promised, promised \ S}
    /\ UNCHANGED used

Release == used > 0 /\ used' = used - 1 /\ UNCHANGED <<waiting, promised>>

Next ==
    \/ \E u \in Users : Take(u) \/ TurnAway(u)
    \/ \E S \in SUBSET Users : GiveUp(S)
    \/ Call \/ Release

Spec == Init /\ [][Next]_vars

(* Those who wait are called, and nobody keeps a promise for ever.            *)
Fairness ==
    /\ WF_vars(Call)
    /\ \A u \in Users : WF_vars(u \in promised /\ Next /\ u \notin promised')
FairSpec == Spec /\ Fairness
==============================================================================
