----------------------------- MODULE SyncLedger -----------------------------
(***************************************************************************)
(* What synchronisation promises for each change made on a device, with no *)
(* network, request or revision in sight: a change waits until it is       *)
(* effective on the server, or it is parked for the user to decide.  A     *)
(* change that is parked or dropped does not take effect behind the user's *)
(* back, an effective one stays effective, and a waiting one leaves the    *)
(* device only when it is effective.                                       *)
(***************************************************************************)
CONSTANT Changes

VARIABLES
    waiting,     \* changes the device still has to deliver
    parked,      \* changes put aside after a refusal (dead letters)
    dropped,     \* changes the user gave up
    effective    \* changes in force on the server

ledger == <<waiting, parked, dropped, effective>>

Init == waiting = {} /\ parked = {} /\ dropped = {} /\ effective = {}

(* A change nobody has seen yet is made on some device.                    *)
Make(c) ==
    /\ c \notin waiting \union parked \union dropped \union effective
    /\ waiting' = waiting \union {c}
    /\ UNCHANGED <<parked, dropped, effective>>

TakeEffect(c) ==
    /\ c \in waiting \ effective
    /\ effective' = effective \union {c}
    /\ UNCHANGED <<waiting, parked, dropped>>

Acknowledge(c) ==
    /\ c \in waiting \intersect effective
    /\ waiting' = waiting \ {c}
    /\ UNCHANGED <<parked, dropped, effective>>

Park(c) ==
    /\ c \in waiting
    /\ waiting' = waiting \ {c}
    /\ parked' = parked \union {c}
    /\ UNCHANGED <<dropped, effective>>

Unpark(c) ==
    /\ c \in parked
    /\ parked' = parked \ {c}
    /\ waiting' = waiting \union {c}
    /\ UNCHANGED <<dropped, effective>>

Drop(c) ==
    /\ c \in parked
    /\ parked' = parked \ {c}
    /\ dropped' = dropped \union {c}
    /\ UNCHANGED <<waiting, effective>>

Next ==
    \E c \in Changes :
      \/ Make(c) \/ TakeEffect(c) \/ Acknowledge(c)
      \/ Park(c) \/ Unpark(c) \/ Drop(c)

Spec == Init /\ [][Next]_ledger
=============================================================================
