----------------------------- MODULE DebugSession ------------------------------
(***************************************************************************)
(* The Debug Mode recorder (internal/diagnostics/manager.go), one action   *)
(* per system call: several goroutines start, stop, interrupt and record   *)
(* at once, a write may fail or be cut short, the process may be killed    *)
(* and the machine may lose power between any two calls.                   *)
(*                                                                         *)
(* An operation holds the mutex while it works through `todo`.  A session  *)
(* leaves a log of lines and a summary.  Of an event only its kind is      *)
(* kept; the names of files, the environment, redaction and the counts of  *)
(* warnings and errors are left out.                                       *)
(***************************************************************************)
EXTENDS Naturals, Sequences, FiniteSets, SequencesExt

CONSTANTS
    Caller,       \* goroutines that use the recorder
    NoCaller,     \* nobody holds the mutex
    MaxSessions,  \* bound on the sessions
    MaxCalls,     \* bound on the calls
    MaxFailures,  \* bound on the writes that fail
    MaxDeaths,    \* bound on the times the process dies
    PowerFails    \* may the machine lose power, or is the process killed only?

ASSUME RecorderAssumption ==
    /\ NoCaller \notin Caller
    /\ {MaxSessions, MaxCalls, MaxFailures, MaxDeaths} \subseteq Nat /\ PowerFails \in BOOLEAN

VARIABLES
    enabled,    \* Manager.enabled, read without the mutex
    active,     \* the number of Manager.active, 0 for nil
    lock,       \* the caller that holds Manager.mu
    call,       \* the operation each caller is in, or "none"
    todo,       \* what the holder of the mutex has left to do
    started,    \* sessions begun so far: they are numbered from 1
    session,    \* the sessionRecorder of each session
    log,        \* the lines of each events.jsonl
    synced,     \* how many of them are on the disk
    summary,    \* the text of each summary.txt
    surviving,  \* the texts that may be on the disk
    killed,     \* history: the sessions that were active when the process died
    calls, failures, deaths  \* bounded by the constants

memoryVars == <<enabled, active, session>>
diskVars   == <<log, synced, summary, surviving>>
boundVars  == <<calls, failures, deaths>>
vars == <<memoryVars, lock, call, todo, started, diskVars, killed, boundVars>>

Sessions == 1..MaxSessions
Event    == {"started", "event", "panic", "completed", "interrupted"}
Ending   == {"completed", "interrupted"}

(* A line cut short has no end: the next line is written onto it, and what *)
(* that makes is no event.                                                 *)
Line == Event \cup {"cut", "garbled"}

(* The place of i among the numbers of S, and the number that has place k. *)
Place(S, i) == Cardinality({j \in S : j <= i})
AtPlace(S, k) == CHOOSE i \in S : Place(S, i) = k

(* The lines that can be read, one after the other.                        *)
Events(lines) == {i \in 1..Len(lines) : lines[i] \in Event}
Readable(lines) ==
    [k \in 1..Cardinality(Events(lines)) |-> lines[AtPlace(Events(lines), k)]]

IsCut(lines) == lines # <<>> /\ Last(lines) = "cut"

WithLine(lines, e) ==
    IF IsCut(lines) THEN Append(Front(lines), "garbled") ELSE Append(lines, e)

WithCut(lines) == IF IsCut(lines) THEN lines ELSE Append(lines, "cut")

Absent  == [kind |-> "absent"]
Partial == [kind |-> "partial"]  \* emptied, or cut short
Text(s) == [kind |-> "written", status |-> session[s].status,
            events |-> session[s].events, warned |-> session[s].writeFailure]

NewSession == [status |-> "active", events |-> 0, writeFailure |-> FALSE]

Init ==
    /\ enabled = FALSE /\ active = 0
    /\ lock = NoCaller
    /\ call = [c \in Caller |-> "none"]
    /\ todo = <<>>
    /\ started = 0
    /\ session = [s \in Sessions |-> NewSession]
    /\ log = [s \in Sessions |-> <<>>] /\ synced = [s \in Sessions |-> 0]
    /\ summary = [s \in Sessions |-> Absent]
    /\ surviving = [s \in Sessions |-> {Absent}]
    /\ killed = {}
    /\ calls = 0 /\ failures = 0 /\ deaths = 0

-----------------------------------------------------------------------------
(* What the operations do with the mutex held.                             *)

Do(step) == [do |-> step, arg |-> "none"]

(* writeSummaryLocked: os.OpenFile with O_TRUNC, Write, Sync. *)
WriteSummary == <<Do("truncate"), Do("write"), Do("flush")>>

(* recordLocked. *)
Record(e) == <<[do |-> "append", arg |-> e], Do("sync")>> \o WriteSummary

(* Mutant: the summary is written before the last event. *)
Finish_EventLast(status) ==
    <<[do |-> "finish", arg |-> status]>> \o WriteSummary
        \o <<[do |-> "append", arg |-> status], Do("sync"), Do("close")>>

(* Mutant: the summary is not written again. *)
Finish_Unwritten(status) == Record(status) \o <<[do |-> "finish", arg |-> status], Do("close")>>

(* Stop and Interrupt. *)
Finish(status) ==
    Record(status) \o <<[do |-> "finish", arg |-> status]>> \o WriteSummary \o <<Do("close")>>

(* Mutant: a session is started while another one is active. *)
Steps_StartAgain(op) ==
    CASE op = "start"     -> IF started < MaxSessions THEN <<Do("open")>> ELSE <<>>
      [] op = "stop"      -> IF active # 0 THEN Finish("completed") ELSE <<>>
      [] op = "interrupt" -> IF active # 0 THEN Finish("interrupted") ELSE <<>>
      [] op = "record"    -> IF active # 0 THEN Record("event") ELSE <<>>
      [] op = "panic"     -> IF active # 0 THEN Append(Record("panic"), Do("panic")) ELSE <<>>

(* What an operation does once it has the mutex.  (At the bound on the     *)
(* sessions Start fails, as it does where it cannot make the directory.)   *)
Steps(op) ==
    CASE op = "start"     -> IF active = 0 /\ started < MaxSessions THEN <<Do("open")>> ELSE <<>>
      [] op = "stop"      -> IF active # 0 THEN Finish("completed") ELSE <<>>
      [] op = "interrupt" -> IF active # 0 THEN Finish("interrupted") ELSE <<>>
      [] op = "record"    -> IF active # 0 THEN Record("event") ELSE <<>>
      [] op = "panic"     -> IF active # 0 THEN Append(Record("panic"), Do("panic")) ELSE <<>>

-----------------------------------------------------------------------------
(* A call.  Record and CapturePanic look at `enabled` first, without the   *)
(* mutex: when it is false they return.                                    *)
Call(c, op) ==
    /\ call[c] = "none" /\ calls < MaxCalls
    /\ calls' = calls + 1
    /\ call' = [call EXCEPT ![c] = IF op \in {"record", "panic"} /\ ~ enabled THEN "none" ELSE op]
    /\ UNCHANGED <<memoryVars, lock, todo, started, diskVars, killed, failures, deaths>>

Acquire(c) ==
    /\ call[c] # "none" /\ lock = NoCaller
    /\ lock' = c
    /\ todo' = Steps(call[c])
    /\ UNCHANGED <<memoryVars, call, started, diskVars, killed, boundVars>>

(* Mutant: an event that finds no session leaves without the Unlock. *)
Release_Forgotten ==
    /\ lock # NoCaller /\ todo = <<>>
    /\ ~ (active = 0 /\ call[lock] \in {"record", "panic"})
    /\ lock' = NoCaller
    /\ call' = [call EXCEPT ![lock] = "none"]
    /\ UNCHANGED <<memoryVars, todo, started, diskVars, killed, boundVars>>

(* The deferred Unlock, and the return. *)
Release ==
    /\ lock # NoCaller /\ todo = <<>>
    /\ lock' = NoCaller
    /\ call' = [call EXCEPT ![lock] = "none"]
    /\ UNCHANGED <<memoryVars, todo, started, diskVars, killed, boundVars>>

-----------------------------------------------------------------------------
At(step) == todo # <<>> /\ Head(todo).do = step

(* The rest of the operation. *)
GoOn == todo' = Tail(todo) /\ UNCHANGED <<lock, call, killed, boundVars>>

(* Start has made the directory, the log and the environment file. *)
Open ==
    /\ At("open")
    /\ started' = started + 1
    /\ active' = started + 1 /\ enabled' = TRUE
    /\ todo' = WriteSummary \o Record("started")
    /\ UNCHANGED <<session, lock, call, diskVars, killed, boundVars>>

AppendLine ==
    /\ At("append")
    /\ log' = [log EXCEPT ![active] = WithLine(@, Head(todo).arg)]
    /\ UNCHANGED <<memoryVars, started, synced, summary, surviving>>
    /\ GoOn

(* Mutant: the line is counted, and not synced. *)
Sync_OnlyCounts ==
    /\ At("sync")
    /\ session' = [session EXCEPT ![active].events = @ + 1]
    /\ UNCHANGED <<enabled, active, started, diskVars>>
    /\ GoOn

(* The line is on the disk: it counts. *)
Sync ==
    /\ At("sync")
    /\ synced' = [synced EXCEPT ![active] = Len(log[active])]
    /\ session' = [session EXCEPT ![active].events = @ + 1]
    /\ UNCHANGED <<enabled, active, started, log, summary, surviving>>
    /\ GoOn

Truncate ==
    /\ At("truncate")
    /\ summary' = [summary EXCEPT ![active] = Partial]
    /\ surviving' = [surviving EXCEPT ![active] = @ \cup {Partial}]
    /\ UNCHANGED <<memoryVars, started, log, synced>>
    /\ GoOn

Write ==
    /\ At("write")
    /\ summary' = [summary EXCEPT ![active] = Text(active)]
    /\ surviving' = [surviving EXCEPT ![active] = @ \cup {Text(active)}]
    /\ UNCHANGED <<memoryVars, started, log, synced>>
    /\ GoOn

Flush ==
    /\ At("flush")
    /\ surviving' = [surviving EXCEPT ![active] = {summary[active]}]
    /\ UNCHANGED <<memoryVars, started, log, synced, summary>>
    /\ GoOn

PanicFile ==
    /\ At("panic")
    /\ UNCHANGED <<memoryVars, started, diskVars>>
    /\ GoOn

SetStatus ==
    /\ At("finish")
    /\ session' = [session EXCEPT ![active].status = Head(todo).arg]
    /\ UNCHANGED <<enabled, active, started, diskVars>>
    /\ GoOn

(* Mutant: `enabled` is left set. *)
Close_StillEnabled ==
    /\ At("close")
    /\ active' = 0 /\ UNCHANGED enabled
    /\ synced' \in {synced, [synced EXCEPT ![active] = Len(log[active])]}
    /\ UNCHANGED <<session, started, log, summary, surviving>>
    /\ GoOn

(* The last Sync of the log may fail: that is ignored. *)
Close ==
    /\ At("close")
    /\ active' = 0 /\ enabled' = FALSE
    /\ synced' \in {synced, [synced EXCEPT ![active] = Len(log[active])]}
    /\ UNCHANGED <<session, started, log, summary, surviving>>
    /\ GoOn

(* How much of the operation is given up when a step fails. *)
GivenUp(step) ==
    CASE step = "append"   -> 5
      [] step = "sync"     -> 4
      [] step = "truncate" -> 3
      [] step = "write"    -> 2
      [] OTHER             -> 1

(* A step fails: what is left of that event or that summary is given up,   *)
(* and the failure is remembered.  A line may have been cut short.  Start  *)
(* gives up altogether.                                                    *)
Fail ==
    /\ todo # <<>> /\ failures < MaxFailures
    /\ LET step == Head(todo).do IN
         /\ step \in {"open", "append", "sync", "truncate", "write", "flush", "panic"}
         /\ todo' = SubSeq(todo, GivenUp(step) + 1, Len(todo))
         /\ IF step = "open" THEN UNCHANGED session
            ELSE session' = [session EXCEPT ![active].writeFailure = TRUE]
         /\ \/ UNCHANGED log
            \/ step = "append" /\ log' = [log EXCEPT ![active] = WithCut(@)]
    /\ failures' = failures + 1
    /\ UNCHANGED <<enabled, active, lock, call, started, synced, summary, surviving, killed,
                   calls, deaths>>

Work ==
    \/ Open \/ AppendLine \/ Sync \/ Truncate \/ Write \/ Flush \/ PanicFile
    \/ SetStatus \/ Close \/ Fail \/ Release

-----------------------------------------------------------------------------
(* The process is gone, and started again: its files stay, and a new       *)
(* session will have its own.                                              *)
Gone ==
    /\ deaths < MaxDeaths /\ deaths' = deaths + 1
    /\ enabled' = FALSE /\ active' = 0
    /\ lock' = NoCaller /\ todo' = <<>>
    /\ call' = [c \in Caller |-> "none"]
    /\ killed' = IF active = 0 THEN killed ELSE killed \cup {active}
    /\ UNCHANGED <<session, started, calls, failures>>

Kill ==
    /\ Gone
    /\ UNCHANGED diskVars

(* The machine loses power: of what was not synced any part may be lost.   *)
Outage ==
    /\ PowerFails /\ Gone
    /\ \E kept \in [Sessions -> 0..MaxCalls + MaxSessions] :
         /\ \A s \in Sessions : kept[s] \in synced[s]..Len(log[s])
         /\ log' = [s \in Sessions |-> SubSeq(log[s], 1, kept[s])]
         /\ synced' = kept
    /\ summary' \in {f \in [Sessions -> UNION {surviving[s] : s \in Sessions}] :
                        \A s \in Sessions : f[s] \in surviving[s]}
    /\ surviving' = [s \in Sessions |-> {summary'[s]}]

Next ==
    \/ \E c \in Caller, op \in {"start", "stop", "interrupt", "record", "panic"} : Call(c, op)
    \/ \E c \in Caller : Acquire(c)
    \/ Work
    \/ Kill \/ Outage

Spec == Init /\ [][Next]_vars

(* A goroutine that has the mutex goes on; one that waits for a mutex that *)
(* stays free, or is released again and again, gets it.                    *)
FairSpec == Spec /\ WF_vars(Work) /\ \A c \in Caller : SF_vars(Acquire(c))

-----------------------------------------------------------------------------
(* Properties.                                                             *)

(* The state has its type, and the two ways to ask for a session agree.    *)
TypeOK ==
    /\ enabled = (active # 0)
    /\ active \in 0..started /\ started \in 0..MaxSessions
    /\ lock \in Caller \cup {NoCaller}
    /\ call \in [Caller -> {"none", "start", "stop", "interrupt", "record", "panic"}]
    /\ lock = NoCaller => todo = <<>>
    /\ session \in [Sessions -> [status : {"active"} \cup Ending, events : Nat,
                                 writeFailure : BOOLEAN]]
    /\ \A s \in Sessions :
         /\ log[s] \in Seq(Line) /\ synced[s] \in 0..Len(log[s])
         /\ summary[s] \in surviving[s]
    /\ killed \subseteq 1..started

(* What a summary counts can be read: unless it warns of a failed write,   *)
(* as many events as it says stand whole at the start of the log, after a  *)
(* kill, and after a loss of power too.                                    *)
SummaryBackedByLog ==
    \A s \in Sessions :
        summary[s].kind = "written" /\ ~ summary[s].warned =>
            /\ summary[s].events <= Len(log[s])
            /\ \A i \in 1..summary[s].events : log[s][i] \in Event

(* A session that its summary calls completed or interrupted, without a    *)
(* warning, is told from the beginning to the end: the log opens with the  *)
(* start, closes with that ending, and has nothing of another session.     *)
FinishedStoryIsWhole ==
    \A s \in Sessions :
        summary[s].kind = "written" /\ summary[s].status \in Ending /\ ~ summary[s].warned =>
            /\ Len(log[s]) = summary[s].events
            /\ log[s][1] = "started" /\ log[s][Len(log[s])] = summary[s].status
            /\ \A i \in 2..Len(log[s]) - 1 : log[s][i] \in {"event", "panic"}

(* The last line of the summary is true: where it still says "active" and  *)
(* the session is over, the process was killed, or a write had failed.     *)
UnfinishedMeansKilled ==
    \A s \in 1..started :
        s # active /\ summary[s].kind = "written" /\ summary[s].status = "active" =>
            s \in killed \/ session[s].writeFailure

(* Every call returns, or its process is gone. *)
CallsReturn == \A c \in Caller : call[c] # "none" ~> call[c] = "none"

(* README.md: a killed session has a summary, which says that it is not    *)
(* complete, once something was recorded in it.                            *)
KilledSummaryTellsSo ==
    \A s \in killed :
        synced[s] > 0 => summary[s].kind = "written" /\ summary[s].status = "active"

(* The recorder is one whose operations on the log are single steps: the   *)
(* abstract events are the lines that can be read.                         *)
Abstract == INSTANCE Recorder WITH log <- [s \in Sessions |-> Readable(log[s])]

ImplementsRecorder == Abstract!RecorderSpec
=============================================================================
