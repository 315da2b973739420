-------------------------------- MODULE Gateway --------------------------------
(***************************************************************************)
(* The Gateway (internal/gateway/gateway.go) between the user's browser,   *)
(* the application and Debug Mode: the one-time token, the session and its *)
(* cookie while time passes and the process is restarted, and what Debug   *)
(* Mode hears of each request on its way through the Gateway, the          *)
(* application (Service.operation) and the Seshat boundary                 *)
(* (WithDiagnostics), whatever other requests do to the recorder then.     *)
(*                                                                         *)
(* The recorder is the one of Recorder, which DebugSession implements; its *)
(* own two events of each session are left to that module.  Requests are   *)
(* those of SAMPO's own page; what others send is left out.                *)
(***************************************************************************)
EXTENDS Naturals, Sequences, SequencesExt, FiniteSets

CONSTANTS
    Plans,        \* bound on the requests: their kinds, in the order they are sent
    Idle,         \* thirty minutes, in steps of the clock
    MaxTime,      \* bound on the clock
    MaxLaunches,  \* bound on the starts of the process
    MaxOpen,      \* bound on the requests in progress at once
    MaxSessions,  \* bound on the Debug Mode sessions
    MaxLost       \* bound on the events of a request that are lost, by its kind

Kinds == {"bootstrap", "view", "enroll", "scan", "start", "stop"}

ASSUME GatewayAssumption ==
    /\ Plans \subseteq Seq(STRING)
    /\ {Idle, MaxTime, MaxOpen, MaxSessions} \subseteq Nat /\ MaxLaunches \in Nat \ {0}
    /\ MaxLost \in [Kinds -> Nat]

VARIABLES
    now,       \* the clock
    launch,    \* the number of this start of the process
    used,      \* Gateway.bootstrapUsed
    births,    \* the launch that made each session id
    sessions,  \* Gateway.sessions: when each session was last seen
    answers,   \* the sessions whose cookie is on its way to the browser
    cookie,    \* the browser's cookie: a session id, and when it expires
    request,   \* the requests made so far
    started, active, log,  \* the recorder
    lost       \* history: the steps of requests whose event was lost, <<i, n>>

recorderVars == <<started, active, log, lost>>
sessionVars  == <<used, births, sessions, answers, cookie>>
vars == <<now, launch, sessionVars, request, recorderVars>>

-----------------------------------------------------------------------------
(* What a request passes on its way: a component, and what it does there.  *)
Point(by, phase) == [by |-> by, phase |-> phase]

(* A call of the catalogue, through the Seshat boundary. *)
Catalogue == <<Point("seshat", "enter"), Point("seshat", "decision")>>

(* An operation of the application, around its steps. *)
Operation(steps) ==
    <<Point("application", "intent")>> \o steps \o <<Point("application", "result")>>

(* The page asks for the counts, the providers and perhaps for what was    *)
(* searched, unless that is too long, and stops at the first query that    *)
(* fails.                                                                  *)
Views ==
    LET Query == Operation(Catalogue) IN
    {<<Point("gateway", "ui_action")>> \o queries :
        queries \in {Query, Query \o Query, Query \o Query \o Query,
                     Query \o Query \o Operation(<<>>)}}

(* An enrolment ends early without a root, or where its probe fails. *)
Enrolments ==
    LET Probe == <<Point("provider", "root.probe")>>
        Add   == <<Point("seshat", "command"), Point("seshat", "decision")>>
    IN  {<<Point("gateway", "submitted")>> \o Operation(steps) \o <<Point("gateway", "response")>> :
            steps \in {<<>>, Probe, Probe \o Add}}

(* A scan is refused, finds no provider, or cannot begin; then has a root  *)
(* or establishes one; is verified and walked as far as it gets, and calls *)
(* FailScan, or ReconcileScan, or both.                                    *)
Scans ==
    LET Walk  == <<Point("provider", "before_scan"), Point("observer", "result"),
                   Point("provider", "after_scan")>>
        Ends  == {SubSeq(Walk, 1, n) \o Catalogue : n \in 1..3} \cup {Walk \o Catalogue \o Catalogue}
        Begun == {Catalogue \o Catalogue \o end :
                     end \in Ends \cup {Catalogue \o later : later \in Ends}}
    IN  {<<Point("gateway", "queued")>> \o Operation(steps)
            \o <<Point("gateway", "background_result")>> :
            steps \in {<<>>, Catalogue, Catalogue \o Catalogue} \cup Begun}

(* What the handlers do. *)
Handled(kind) ==
    CASE kind = "view"   -> Views
      [] kind = "enroll" -> Enrolments
      [] kind = "scan"   -> Scans
      [] kind = "start"  -> {<<Point("gateway", "start"), Point("gateway", "asked")>>,
                             <<Point("gateway", "start refused")>>}
      [] kind = "stop"   -> {<<Point("gateway", "asked"), Point("gateway", "stop")>>}

(* The ways of a request: all but the bootstrap are authenticated. *)
Routes == [kind \in Kinds |->
    IF kind = "bootstrap" THEN {<<Point("gateway", "bootstrap")>>}
    ELSE {<<Point("gateway", "authenticate")>> \o way : way \in Handled(kind)}
            \cup {<<Point("gateway", "validation")>>}]

Ways(kind) == Routes[kind]

(* The points a request may go on to. *)
Onward(r) ==
    {way[Len(r.passed) + 1] : way \in {w \in Ways(r.kind) : IsStrictPrefix(r.passed, w)}}

Ended(r) == r.gone \/ r.passed \in Ways(r.kind)

(* A correlation id is made by a request at a point.  A request has one in *)
(* the context of each component, or none.                                 *)
None == <<0, 0>>
NoContexts == [gateway |-> None, application |-> None, seshat |-> None]

NoCookie == [id |-> 0, expires |-> 0]

(* The recorder takes any event. *)
Recorder == INSTANCE Recorder WITH Event <- {}

Init ==
    /\ now = 0 /\ launch = 1
    /\ used = FALSE /\ births = <<>> /\ sessions = <<>>
    /\ answers = {} /\ cookie = NoCookie
    /\ request = <<>> /\ lost = {}
    /\ Recorder!RecorderInit

-----------------------------------------------------------------------------
(* The browser sends a request, with its cookie if that has not expired.   *)
Send(kind) ==
    /\ \E plan \in Plans :
         IsPrefix(Append([i \in DOMAIN request |-> request[i].kind], kind), plan)
    /\ Cardinality({i \in DOMAIN request : ~ Ended(request[i])}) < MaxOpen
    /\ request' = Append(request,
           [kind |-> kind, passed |-> <<>>, gone |-> FALSE,
            cookie |-> IF now < cookie.expires THEN cookie.id ELSE 0,
            context |-> NoContexts, noted |-> {}, under |-> 0])
    /\ UNCHANGED <<now, launch, sessionVars, recorderVars>>

(* Request i may go on to point p. *)
At(i, p) == ~ request[i].gone /\ p \in Onward(request[i])

Passed(i, p) == Append(request[i].passed, p)

NewId(i) == <<i, Len(request[i].passed) + 1>>

Ensure(id, new) == IF id = None THEN new ELSE id

(* Record: the event goes to the log of the active session.  Where it      *)
(* cannot be written or flushed it is dropped, and the session goes on.    *)
Tell(i, p, id) ==
    \/ active = 0 /\ UNCHANGED recorderVars
    \/ /\ active # 0
       /\ Recorder!Add([request |-> i, point |-> p, correlation |-> id])
       /\ UNCHANGED lost
    \/ /\ active # 0 /\ Cardinality({l \in lost : l[1] = i}) < MaxLost[request[i].kind]
       /\ lost' = lost \cup {<<i, Len(request[i].passed) + 1>>}
       /\ UNCHANGED <<started, active, log>>

(* securityMiddleware: a correlation while Debug Mode is enabled; then     *)
(* authenticate sees the session, or deletes it.                           *)
Authenticate(i) ==
    LET id == request[i].cookie
        ok == id \in DOMAIN sessions /\ now - sessions[id] <= Idle
        p  == Point("gateway", IF ok THEN "authenticate" ELSE "validation")
    IN
    /\ At(i, p)
    /\ sessions' = IF ok THEN [sessions EXCEPT ![id] = now]
                   ELSE [s \in DOMAIN sessions \ {id} |-> sessions[s]]
    /\ request' = [request EXCEPT
           ![i].passed = Passed(i, p),
           ![i].context.gateway = IF active = 0 THEN None ELSE NewId(i),
           ![i].under = active]
    /\ IF ok THEN UNCHANGED recorderVars ELSE Tell(i, p, NewId(i))
    /\ UNCHANGED <<now, launch, used, births, answers, cookie>>

(* Mutant: the token is not used up. *)
Admits_Again == TRUE

(* bootstrapSession's test; the page presents the token of this launch. *)
Admits == ~ used

(* bootstrapSession: test and use of the token in one critical section,    *)
(* from which the session counts as seen.  Where no random id can be had   *)
(* the token stays unused.  The answer is sent after the section.          *)
Bootstrap(i) ==
    LET p  == Point("gateway", "bootstrap")
        id == Len(births) + 1
    IN
    /\ At(i, p)
    /\ request' = [request EXCEPT ![i].passed = Passed(i, p)]
    /\ \/ /\ Admits
          /\ used' = TRUE
          /\ births' = Append(births, launch)
          /\ sessions' = [s \in DOMAIN sessions \cup {id} |-> IF s = id THEN now ELSE sessions[s]]
          /\ answers' = answers \cup {id}
          /\ UNCHANGED cookie
       \/ UNCHANGED sessionVars
    /\ UNCHANGED <<now, launch, recorderVars>>

(* Mutant: the cookie outlives the session. *)
MaxAge_Longer == Idle + 2

(* The cookie's MaxAge: thirty minutes. *)
MaxAge == Idle

(* The browser gets the answer, and counts MaxAge from then.  It may come  *)
(* late, after a later one, when the process is gone already, or never.    *)
Receive(id) ==
    /\ id \in answers
    /\ answers' = answers \ {id}
    /\ cookie' = [id |-> id, expires |-> now + MaxAge]
    /\ UNCHANGED <<now, launch, used, births, sessions, request, recorderVars>>

-----------------------------------------------------------------------------
(* The context a component works in comes from the one that calls it.      *)
Outer(by) == IF by = "application" THEN "gateway" ELSE "application"

(* Mutant: the operation makes an id of its own. *)
Inherited_Never(i, by) == None

(* The correlation id that comes with the context. *)
Inherited(i, by) == request[i].context[Outer(by)]

(* Service.operation and the methods of diagnosticCatalogue: where Debug   *)
(* Mode is enabled on the way in, the outcome will be told on the way out. *)
Enter(i, p) ==
    LET id == IF active = 0 THEN Inherited(i, p.by) ELSE Ensure(Inherited(i, p.by), NewId(i)) IN
    /\ p.phase \in {"intent", "command", "enter"}
    /\ request' = [request EXCEPT
           ![i].passed = Passed(i, p),
           ![i].context[p.by] = id,
           ![i].noted = IF active = 0 THEN @ \ {p.by} ELSE @ \cup {p.by}]
    /\ IF p.phase = "enter" THEN UNCHANGED recorderVars ELSE Tell(i, p, id)

(* Their way out. *)
Leave(i, p) ==
    /\ p.by \in {"application", "seshat"} /\ p.phase \in {"result", "decision"}
    /\ request' = [request EXCEPT ![i].passed = Passed(i, p)]
    /\ IF p.by \in request[i].noted THEN Tell(i, p, request[i].context[p.by])
       ELSE UNCHANGED recorderVars

(* Service.record. *)
Note(i, p) ==
    /\ p.by \in {"provider", "observer"}
    /\ request' = [request EXCEPT ![i].passed = Passed(i, p)]
    /\ Tell(i, p, Ensure(request[i].context.application, NewId(i)))

(* Mutant: the handlers leave the correlation to the middleware. *)
Handlers_Uncorrelated == {}

(* Handlers that make sure of a correlation id first. *)
Handlers == {"submitted", "queued", "asked"}

(* Gateway.record, in the handlers and in the goroutine of a scan, which   *)
(* gets the correlation id of its request.                                 *)
Report(i, p) ==
    LET id == Ensure(request[i].context.gateway, NewId(i)) IN
    /\ p.by = "gateway"
    /\ p.phase \in {"ui_action", "submitted", "queued", "asked", "response", "background_result"}
    /\ request' = [request EXCEPT
           ![i].passed = Passed(i, p),
           ![i].context.gateway = IF p.phase \in Handlers THEN id ELSE @]
    /\ Tell(i, p, id)

Say(i, p) ==
    /\ At(i, p)
    /\ Enter(i, p) \/ Leave(i, p) \/ Note(i, p) \/ Report(i, p)
    /\ UNCHANGED <<now, launch, sessionVars>>

(* startDebug and stopDebug: the call of the recorder.  (At the bound on   *)
(* the sessions Start fails, as where the disk is full.)                   *)
StartDebug(i) ==
    LET ok == active = 0 /\ started < MaxSessions
        p  == Point("gateway", IF ok THEN "start" ELSE "start refused")
    IN
    /\ At(i, p)
    /\ request' = [request EXCEPT
           ![i].passed = Passed(i, p),
           ![i].context.gateway = Ensure(@, NewId(i))]
    /\ IF ok THEN Recorder!Begin /\ UNCHANGED lost ELSE UNCHANGED recorderVars
    /\ UNCHANGED <<now, launch, sessionVars>>

StopDebug(i) ==
    LET p == Point("gateway", "stop") IN
    /\ At(i, p)
    /\ request' = [request EXCEPT ![i].passed = Passed(i, p)]
    /\ IF active # 0 THEN Recorder!End /\ UNCHANGED lost ELSE UNCHANGED recorderVars
    /\ UNCHANGED <<now, launch, sessionVars>>

RequestStep(i) ==
    \/ Authenticate(i) \/ Bootstrap(i)
    \/ \E p \in Onward(request[i]) : Say(i, p)
    \/ StartDebug(i) \/ StopDebug(i)

-----------------------------------------------------------------------------
Tick == now < MaxTime /\ now' = now + 1 /\ UNCHANGED <<launch, sessionVars, request, recorderVars>>

(* Mutant: the sessions outlive the process. *)
Restart_KeepsSessions ==
    /\ launch < MaxLaunches /\ launch' = launch + 1
    /\ used' = FALSE /\ UNCHANGED sessions
    /\ request' = [i \in DOMAIN request |->
                      IF Ended(request[i]) THEN request[i] ELSE [request[i] EXCEPT !.gone = TRUE]]
    /\ UNCHANGED <<log, lost>> /\ Recorder!Stopped
    /\ UNCHANGED <<now, births, answers, cookie>>

(* The process stops, orderly or not, and is started again: Debug Mode is  *)
(* interrupted, the sessions are forgotten, and there is a new token.  The *)
(* browser keeps its cookie.                                               *)
Restart ==
    /\ launch < MaxLaunches /\ launch' = launch + 1
    /\ used' = FALSE /\ sessions' = <<>>
    /\ request' = [i \in DOMAIN request |->
                      IF Ended(request[i]) THEN request[i] ELSE [request[i] EXCEPT !.gone = TRUE]]
    /\ UNCHANGED <<log, lost>> /\ Recorder!Stopped
    /\ UNCHANGED <<now, births, answers, cookie>>

Next ==
    \/ \E kind \in Kinds : Send(kind)
    \/ \E i \in DOMAIN request : RequestStep(i)
    \/ \E id \in answers : Receive(id)
    \/ Tick \/ Restart

Spec == Init /\ [][Next]_vars

-----------------------------------------------------------------------------
(* Properties.                                                             *)

(* The state has its type. *)
TypeOK ==
    /\ now \in 0..MaxTime /\ launch \in 1..MaxLaunches
    /\ used \in BOOLEAN
    /\ births \in Seq(1..launch)
    /\ DOMAIN sessions \subseteq DOMAIN births
    /\ \A s \in DOMAIN sessions : sessions[s] \in 0..now /\ births[s] = launch
    /\ answers \subseteq DOMAIN births
    /\ cookie.id \in 0..Len(births) /\ cookie.expires \in 0..now + MaxAge
    /\ \A i \in DOMAIN request :
         LET r == request[i] IN
         /\ r.kind \in Kinds /\ r.cookie \in 0..Len(births)
         /\ \E way \in Ways(r.kind) : IsPrefix(r.passed, way)
         /\ r.noted \subseteq {"application", "seshat"} /\ r.under \in 0..started
    /\ active \in 0..started /\ started \in 0..MaxSessions
    /\ lost \subseteq (DOMAIN request) \X Nat

(* The token of a launch makes one session, however many windows present   *)
(* it at the same time.                                                    *)
OneSessionPerLaunch ==
    \A s, t \in DOMAIN births : births[s] = births[t] => s = t

(* A request was let in with the cookie of session s. *)
LetIn(s) ==
    \E j \in DOMAIN request :
        request[j].cookie = s /\ Point("gateway", "authenticate") \in Range(request[j].passed)

(* However late the cookie came: once a request has been let in with it,   *)
(* the cookie is the narrower of the two limits, and no request that       *)
(* carries it is refused before it expires, while the process runs.  (A    *)
(* cookie that came late and was not used yet may outlive its session.)    *)
CookieIsEnough ==
    \A i \in DOMAIN request :
        LET s == request[i].cookie IN
        /\ Point("gateway", "validation") \in Onward(request[i]) /\ ~ request[i].gone
        /\ s # 0 /\ births[s] = launch /\ LetIn(s)
        /\ s = cookie.id /\ now < cookie.expires
        => s \in DOMAIN sessions /\ now - sessions[s] <= Idle

(* Points at which nothing is told. *)
Silent == {"authenticate", "bootstrap", "enter", "start", "start refused", "stop"}

(* The lines that request i has told in session s, and the steps it passed *)
(* that are to be told.                                                    *)
Told(i, s) == {k \in DOMAIN log[s] : log[s][k].request = i}
Loud(r)    == {k \in DOMAIN r.passed : r.passed[k].phase \notin Silent}

(* The place of k among S, counted from 1. *)
Place(S, k) == Cardinality({j \in S : j <= k})

(* The steps of request i whose event was lost. *)
Missed(i) == {n \in DOMAIN request[i].passed : <<i, n>> \in lost}

(* A request during all of which one session is active is told whole in    *)
(* its log: every step it has passed but those whose write failed, in      *)
(* order, under one correlation id.                                        *)
WholeNarrative ==
    \A i \in DOMAIN request :
        LET r    == request[i]
            told == Told(i, active)
            due  == Loud(r) \ Missed(i)
        IN
        r.under # 0 /\ r.under = active =>
            /\ Cardinality(told) = Cardinality(due)
            /\ \A k \in told, n \in due :
                 Place(told, k) = Place(due, n) => log[active][k].point = r.passed[n]
            /\ \A k \in told : log[active][k].correlation = r.context.gateway

(* Everything told of one action of the user has one correlation id, also  *)
(* where Debug Mode starts, stops or starts again while it goes on.        *)
OneIdPerAction ==
    \A s, t \in 1..started : \A d \in Range(log[s]), e \in Range(log[t]) :
        d.request = e.request /\ request[d.request].kind # "view"
            => d.correlation = e.correlation

(* IMPLEMENTATION-ADRS.md: the cookie expires after thirty idle minutes;   *)
(* so a session used less than thirty minutes ago still has its cookie.    *)
CookieFollowsUse ==
    \A s \in DOMAIN sessions :
        cookie.id = s /\ now - sessions[s] < Idle => now < cookie.expires
=============================================================================
