-------------------------------- MODULE Recorder -------------------------------
(***************************************************************************)
(* What Debug Mode (internal/diagnostics) promises to the rest of SAMPO:   *)
(* there is at most one session at a time; what is recorded goes to the    *)
(* end of the log of the session that is active then, one whole event      *)
(* after the other; nothing is added to a log before its session begins or *)
(* after it has ended.  An event may be lost, where a write fails; and     *)
(* what the disk had not kept yet may be lost where the machine stops.     *)
(***************************************************************************)
EXTENDS Naturals, Sequences, SequencesExt

CONSTANTS Event,       \* what may be recorded
          MaxSessions  \* bound on the sessions

VARIABLES started,  \* sessions begun so far: they are numbered from 1
          active,   \* the active session, 0 if there is none
          log       \* the events of each session

RecorderInit ==
    /\ started = 0
    /\ active = 0
    /\ log = [s \in 1..MaxSessions |-> <<>>]

Begin ==
    /\ active = 0 /\ started < MaxSessions
    /\ started' = started + 1
    /\ active' = started + 1
    /\ UNCHANGED log

Add(e) ==
    /\ active # 0
    /\ log' = [log EXCEPT ![active] = Append(@, e)]
    /\ UNCHANGED <<started, active>>

End ==
    /\ active # 0 /\ active' = 0
    /\ UNCHANGED <<started, log>>

(* The program stops, whatever it is doing. *)
Stopped ==
    /\ active' = 0
    /\ \A s \in 1..MaxSessions : IsPrefix(log'[s], log[s])
    /\ DOMAIN log' = 1..MaxSessions
    /\ UNCHANGED started

RecorderNext ==
    \/ Begin
    \/ \E e \in Event : Add(e)
    \/ End
    \/ Stopped

RecorderSpec == RecorderInit /\ [][RecorderNext]_<<started, active, log>>
=============================================================================
