---------------------------- MODULE ScanProtocol ----------------------------
(***************************************************************************)
(* What the application promises the catalogue about scans, and the user   *)
(* about scan_status: a scan of a provider is marked when it begins, no    *)
(* other scan of that provider begins before it is over, and it ends with  *)
(* one outcome.  The mark outlives its scan only when the process stops or *)
(* the outcome cannot be written.                                          *)
(***************************************************************************)
CONSTANT Provider

VARIABLES
    status,  \* the scan_status of each provider
    active   \* providers with a scan that has begun and is not over

Outcome == {"complete", "unavailable"}

Init ==
    /\ status = [p \in Provider |-> "never-scanned"]
    /\ active = {}

Begin(p) ==
    /\ p \notin active
    /\ active' = active \cup {p}
    /\ status' = [status EXCEPT ![p] = "scanning"]

Finish(p) ==
    /\ p \in active
    /\ active' = active \ {p}
    /\ \E outcome \in Outcome : status' = [status EXCEPT ![p] = outcome]

(* The outcome could not be written. *)
GiveUp(p) ==
    /\ p \in active
    /\ active' = active \ {p}
    /\ UNCHANGED status

Stop == active' = {} /\ UNCHANGED status

Next ==
    \/ \E p \in Provider : Begin(p) \/ Finish(p) \/ GiveUp(p)
    \/ Stop

Spec == Init /\ [][Next]_<<status, active>>
=============================================================================
