--------------------------- MODULE TurnOwnership ----------------------------
(***************************************************************************)
(* What a retained runtime promises about its provider process: it is      *)
(* granted to one call at a time, a call that gave it up never gets it     *)
(* back, and nobody gets it once the runtime has been stopped.             *)
(***************************************************************************)
CONSTANTS Call, Nobody

VARIABLES
    owner,      \* the call whose executor may use the process
    past,       \* the calls that gave it up
    stopped

ownershipVars == <<owner, past, stopped>>

Init == owner = Nobody /\ past = {} /\ stopped = FALSE

Grant(c) ==
    /\ owner = Nobody
    /\ ~stopped
    /\ c \notin past
    /\ owner' = c
    /\ UNCHANGED <<past, stopped>>

GiveUp(c) ==
    /\ owner = c
    /\ owner' = Nobody
    /\ past' = past \cup {c}
    /\ UNCHANGED stopped

Stop == stopped' = TRUE /\ UNCHANGED <<owner, past>>

Next == Stop \/ \E c \in Call : Grant(c) \/ GiveUp(c)

Spec == Init /\ [][Next]_ownershipVars

=============================================================================
