----------------------------- MODULE GatewayProofs -----------------------------
(***************************************************************************)
(* Proofs about Gateway, for any plans of the browser, ages, launches and  *)
(* sessions: the state keeps its type, the token of a launch makes one     *)
(* session, a cookie that was used once is enough until it expires, a      *)
(* request under one Debug Mode session is told whole but for the events   *)
(* whose write failed, and an action under one id.                         *)
(***************************************************************************)
EXTENDS Gateway, SequenceTheorems, FiniteSetTheorems, TLAPS

Fields == {"kind", "passed", "gone", "cookie", "context", "noted", "under"}

(* The requests are a sequence of records, with cookies that were given    *)
(* and a sequence of points.                                               *)
RequestsTyped ==
    /\ request \in Seq({request[i] : i \in DOMAIN request})
    /\ \A i \in DOMAIN request :
         /\ DOMAIN request[i] = Fields /\ request[i].cookie \in 0..Len(births)
         /\ request[i].passed \in Seq(Range(request[i].passed))

(* The types of the clock, the launch, the sessions and the cookie. *)
SessionsTyped ==
    /\ now \in Nat /\ launch \in Nat \ {0}
    /\ births \in Seq(1..launch)
    /\ DOMAIN sessions \subseteq DOMAIN births
    /\ \A s \in DOMAIN sessions : sessions[s] \in 0..now
    /\ cookie \in [id : 0..Len(births), expires : Nat]
    /\ cookie.expires <= now + MaxAge

(* A launch whose token is unused has no session yet. *)
NoneBefore == ~ used => \A s \in DOMAIN births : births[s] < launch

(* A cookie that is on its way is neither in the browser nor in a request. *)
OnTheWay ==
    /\ answers \subseteq DOMAIN births
    /\ cookie.id \notin answers
    /\ \A i \in DOMAIN request : request[i].cookie \notin answers

(* Once a request has been let in with the cookie, its session is there    *)
(* until it expires, and was seen since the cookie came.                   *)
SessionBehindCookie ==
    cookie.id # 0 /\ births[cookie.id] = launch /\ LetIn(cookie.id) /\ now < cookie.expires =>
        cookie.id \in DOMAIN sessions /\ cookie.expires <= sessions[cookie.id] + MaxAge

GatewayInv ==
    /\ RequestsTyped /\ SessionsTyped
    /\ OneSessionPerLaunch /\ NoneBefore
    /\ OnTheWay /\ SessionBehindCookie

(* Only what a request has passed, its contexts and its end change. *)
SameCookies ==
    /\ request' = [i \in DOMAIN request |-> request'[i]]
    /\ \A i \in DOMAIN request :
         /\ DOMAIN request'[i] = Fields /\ request'[i].cookie = request[i].cookie
         /\ request'[i].passed \in Seq(Range(request'[i].passed))

(* The point at which a request is let in. *)
Door == Point("gateway", "authenticate")

(* No request is let in. *)
NoneLetIn ==
    \A i \in DOMAIN request :
        Door \in Range(request'[i].passed) => Door \in Range(request[i].passed)

(* Request i passes point p, the others stay as they are. *)
PassesOne(i, p) ==
    /\ request' = [j \in DOMAIN request |-> request'[j]]
    /\ DOMAIN request'[i] = Fields /\ request'[i].cookie = request[i].cookie
    /\ request'[i].passed = Append(request[i].passed, p)
    /\ \A j \in DOMAIN request \ {i} : request'[j] = request[j]

-----------------------------------------------------------------------------
LEMMA GatewayInit == Init => GatewayInv
<1> SUFFICES ASSUME Init PROVE GatewayInv
  OBVIOUS
<1> USE GatewayAssumption DEF Init, NoCookie
<1>1. RequestsTyped
  BY EmptySeq DEF RequestsTyped
<1>2. SessionsTyped
  BY EmptySeq DEF SessionsTyped, MaxAge
<1> QED
  BY <1>1, <1>2 DEF GatewayInv, OneSessionPerLaunch, NoneBefore, OnTheWay, SessionBehindCookie

LEMMA RangeAppended ==
    ASSUME NEW q, q \in Seq(Range(q)), NEW p
    PROVE  /\ Append(q, p) \in Seq(Range(Append(q, p)))
           /\ Range(Append(q, p)) = Range(q) \cup {p}
<1> DEFINE S == Range(q) \cup {p}
           a == Append(q, p)
<1>1. q \in Seq(S)
  BY SeqDef
<1>2. /\ a \in Seq(S) /\ Len(a) = Len(q) + 1 /\ Len(q) \in Nat
      /\ DOMAIN q = 1..Len(q) /\ DOMAIN a = 1..Len(q) + 1
      /\ \A n \in 1..Len(q) : a[n] = q[n]
      /\ a[Len(q) + 1] = p
  <2>1. p \in S
    OBVIOUS
  <2> HIDE DEF S
  <2> QED
    BY <1>1, <2>1, AppendProperties, LenProperties
<1> HIDE DEF a
<1>3. Range(a) = S
  BY <1>2 DEF Range
<1> QED
  BY <1>2, <1>3 DEF a

LEMMA OnePasses ==
    ASSUME RequestsTyped, NEW i \in DOMAIN request, NEW p, PassesOne(i, p)
    PROVE  SameCookies /\ (p # Door => NoneLetIn)
<1>1. request[i].passed \in Seq(Range(request[i].passed))
  BY DEF RequestsTyped
<1>2. /\ request'[i].passed \in Seq(Range(request'[i].passed))
      /\ Range(request'[i].passed) = Range(request[i].passed) \cup {p}
  BY <1>1, RangeAppended DEF PassesOne
<1>3. SameCookies
  BY <1>2 DEF PassesOne, SameCookies, RequestsTyped
<1>4. p # Door => NoneLetIn
  BY <1>2 DEF PassesOne, NoneLetIn
<1> QED
  BY <1>3, <1>4

LEMMA LetInStays ==
    ASSUME SameCookies, NoneLetIn, NEW s, LetIn(s)'
    PROVE  LetIn(s)
BY DEF LetIn, SameCookies, NoneLetIn, Door

LEMMA RequestsStayTyped ==
    ASSUME RequestsTyped, SameCookies, births \in Seq(Nat), births' \in Seq(Nat),
           Len(births) <= Len(births')
    PROVE  RequestsTyped'
<1>1. DOMAIN request' = DOMAIN request
  BY DEF SameCookies
<1>2. DOMAIN request = 1..Len(request) /\ Len(request) \in Nat
  BY LenProperties DEF RequestsTyped
<1>3. request' \in Seq({request'[i] : i \in DOMAIN request'})
  <2>1. request' \in [1..Len(request) -> {request'[i] : i \in DOMAIN request'}]
    BY <1>1, <1>2 DEF SameCookies
  <2> QED
    BY <1>2, <2>1, IsASeq
<1>4. Len(births) \in Nat /\ Len(births') \in Nat
  BY LenProperties
<1>5. ASSUME NEW i \in DOMAIN request'
      PROVE  /\ DOMAIN request'[i] = Fields /\ request'[i].cookie \in 0..Len(births')
             /\ request'[i].passed \in Seq(Range(request'[i].passed))
  <2>1. i \in DOMAIN request /\ request'[i].cookie = request[i].cookie /\ DOMAIN request'[i] = Fields
        /\ request'[i].passed \in Seq(Range(request'[i].passed))
    BY <1>1 DEF SameCookies
  <2>2. request[i].cookie \in 0..Len(births)
    BY <2>1 DEF RequestsTyped
  <2> QED
    BY <1>4, <2>1, <2>2
<1> QED
  BY <1>3, <1>5 DEF RequestsTyped

(* A step that leaves the sessions, the cookie and the clock alone. *)
LEMMA OtherSteps ==
    ASSUME GatewayInv, SameCookies, NoneLetIn,
           UNCHANGED <<now, launch, used, births, sessions, answers, cookie>>
    PROVE  GatewayInv'
<1> USE DEF GatewayInv
<1>1. births \in Seq(Nat) /\ Len(births) \in Nat
  <2>1. \A i \in 1..Len(births) : births[i] \in Nat
    BY ElementOfSeq DEF SessionsTyped
  <2> QED
    BY <2>1, LenProperties, SeqDef DEF SessionsTyped
<1>2. RequestsTyped'
  BY <1>1, RequestsStayTyped
<1>3. SessionsTyped'
  BY DEF SessionsTyped
<1>4. DOMAIN request' = DOMAIN request
  BY DEF SameCookies
<1>5. OnTheWay'
  BY <1>4 DEF OnTheWay, SameCookies
<1>6. SessionBehindCookie'
  BY LetInStays DEF SessionBehindCookie
<1> QED
  BY <1>2, <1>3, <1>5, <1>6 DEF OneSessionPerLaunch, NoneBefore

(* Steps of a request that touch neither sessions nor the cookie. *)
LEMMA QuietSteps ==
    ASSUME GatewayInv, NEW i \in DOMAIN request,
           \/ \E p \in Onward(request[i]) : Say(i, p)
           \/ StartDebug(i) \/ StopDebug(i)
    PROVE  GatewayInv'
<1> USE DEF GatewayInv, sessionVars
<1>1. ASSUME NEW p, Say(i, p) PROVE PassesOne(i, p) /\ p # Door
  <2>1. CASE Enter(i, p)
    <3>1. PassesOne(i, p)
      BY <2>1 DEF Enter, RequestsTyped, PassesOne, Passed, Fields
    <3> QED
      BY <2>1, <3>1 DEF Enter, Door, Point
  <2>2. CASE Leave(i, p)
    <3>1. PassesOne(i, p)
      BY <2>2 DEF Leave, RequestsTyped, PassesOne, Passed, Fields
    <3> QED
      BY <2>2, <3>1 DEF Leave, Door, Point
  <2>3. CASE Note(i, p)
    <3>1. PassesOne(i, p)
      BY <2>3 DEF Note, RequestsTyped, PassesOne, Passed, Fields
    <3> QED
      BY <2>3, <3>1 DEF Note, Door, Point
  <2>4. CASE Report(i, p)
    <3>1. PassesOne(i, p)
      BY <2>4 DEF Report, RequestsTyped, PassesOne, Passed, Fields
    <3> QED
      BY <2>4, <3>1 DEF Report, Door, Point
  <2> QED
    BY <1>1, <2>1, <2>2, <2>3, <2>4 DEF Say
<1>2. ASSUME StartDebug(i) \/ StopDebug(i) PROVE \E p : PassesOne(i, p) /\ p # Door
  <2>1. CASE StartDebug(i)
    <3>1. PICK phase \in {"start", "start refused"} :
             request' = [request EXCEPT
                 ![i].passed = Passed(i, Point("gateway", phase)),
                 ![i].context.gateway = Ensure(@, NewId(i))]
      BY <2>1 DEF StartDebug
    <3>2. PassesOne(i, Point("gateway", phase))
      BY <3>1 DEF RequestsTyped, PassesOne, Passed, Fields
    <3>3. Point("gateway", phase) # Door
      BY DEF Door, Point
    <3> QED
      BY <3>2, <3>3
  <2>2. CASE StopDebug(i)
    <3>1. PassesOne(i, Point("gateway", "stop"))
      BY <2>2 DEF StopDebug, RequestsTyped, PassesOne, Passed, Fields
    <3>2. Point("gateway", "stop") # Door
      BY DEF Door, Point
    <3> QED
      BY <3>1, <3>2
  <2> QED
    BY <1>2, <2>1, <2>2
<1>3. UNCHANGED <<now, launch, used, births, sessions, answers, cookie>>
  BY DEF Say, StartDebug, StopDebug
<1>4. SameCookies /\ NoneLetIn
  BY <1>1, <1>2, OnePasses
<1> QED
  BY <1>3, <1>4, OtherSteps

LEMMA SendKeeps ==
    ASSUME GatewayInv, NEW kind, Send(kind)
    PROVE  GatewayInv'
<1> USE DEF GatewayInv, sessionVars
<1> DEFINE r == [kind |-> kind, passed |-> <<>>, gone |-> FALSE,
                 cookie |-> IF now < cookie.expires THEN cookie.id ELSE 0,
                 context |-> NoContexts, noted |-> {}, under |-> 0]
           S == {request[i] : i \in DOMAIN request} \cup {r}
<1>1. /\ request' = Append(request, r)
      /\ UNCHANGED <<now, launch, used, births, sessions, answers, cookie>>
  BY DEF Send
<1>2. request \in Seq(S)
  BY SeqDef DEF RequestsTyped
<1>3. /\ request' \in Seq(S) /\ DOMAIN request' = 1..Len(request) + 1
      /\ Len(request) \in Nat /\ DOMAIN request = 1..Len(request)
      /\ \A i \in 1..Len(request) : request'[i] = request[i]
      /\ request'[Len(request) + 1] = r
  BY <1>1, <1>2, AppendProperties, LenProperties
<1>4. r.cookie \in 0..Len(births) /\ DOMAIN r = Fields /\ (r.cookie # 0 => r.cookie = cookie.id)
      /\ r.passed = <<>>
  BY LenProperties DEF SessionsTyped, Fields
<1>r. <<>> \in Seq(Range(<<>>)) /\ Range(<<>>) = {}
  BY EmptySeq DEF Range
<1> HIDE DEF r
<1>5. ASSUME NEW i \in DOMAIN request'
      PROVE  (i \in DOMAIN request /\ request'[i] = request[i]) \/ request'[i] = r
  BY <1>3
<1>6. RequestsTyped'
  <2>1. request' \in Seq({request'[i] : i \in DOMAIN request'})
    <3>1. request' \in [1..Len(request') -> S] /\ Len(request') \in Nat
      BY <1>3, LenProperties
    <3>2. request' \in [1..Len(request') -> {request'[i] : i \in DOMAIN request'}]
      <4> HIDE DEF S
      <4> QED
        BY <3>1
    <3> QED
      BY <3>1, <3>2, IsASeq
  <2> QED
    BY <1>1, <1>4, <1>5, <1>r, <2>1 DEF RequestsTyped
<1>7. OnTheWay'
  <2>1. 0 \notin answers
    BY LenProperties DEF OnTheWay, SessionsTyped
  <2> QED
    BY <1>1, <1>4, <1>5, <2>1 DEF OnTheWay
<1>8. SessionBehindCookie'
  <2>1. \A s : LetIn(s)' => LetIn(s)
    BY <1>4, <1>5, <1>r DEF LetIn
  <2> QED
    BY <1>1, <2>1 DEF SessionBehindCookie
<1> QED
  BY <1>1, <1>6, <1>7, <1>8 DEF SessionsTyped, OneSessionPerLaunch, NoneBefore

LEMMA AuthenticateKeeps ==
    ASSUME GatewayInv, NEW i \in DOMAIN request, Authenticate(i)
    PROVE  GatewayInv'
<1> USE GatewayAssumption DEF GatewayInv
<1> DEFINE id == request[i].cookie
           ok == id \in DOMAIN sessions /\ now - sessions[id] <= Idle
<1>1. /\ sessions' = IF ok THEN [sessions EXCEPT ![id] = now]
                     ELSE [s \in DOMAIN sessions \ {id} |-> sessions[s]]
      /\ UNCHANGED <<now, launch, used, births, answers, cookie>>
  BY DEF Authenticate
<1> DEFINE p == Point("gateway", IF ok THEN "authenticate" ELSE "validation")
<1>p. PassesOne(i, p)
  BY DEF Authenticate, RequestsTyped, PassesOne, Passed, Fields
<1>2. SameCookies /\ (~ ok => NoneLetIn)
  <2>1. ~ ok => p # Door
    BY DEF Door, Point
  <2> HIDE DEF p, ok
  <2> QED
    BY <1>p, <2>1, OnePasses
<1>3. births \in Seq(Nat) /\ Len(births) \in Nat
  BY LenProperties, SeqDef, ElementOfSeq DEF SessionsTyped
<1>4. RequestsTyped'
  BY <1>1, <1>2, <1>3, RequestsStayTyped
<1>5. SessionsTyped'
  BY <1>1 DEF SessionsTyped
<1>6. DOMAIN request' = DOMAIN request
  BY <1>2 DEF SameCookies
<1>7. OnTheWay'
  BY <1>1, <1>2, <1>6 DEF OnTheWay, SameCookies
<1>8. SessionBehindCookie'
  <2> SUFFICES ASSUME cookie.id # 0, births[cookie.id] = launch, LetIn(cookie.id)',
                      now < cookie.expires
               PROVE  cookie.id \in DOMAIN sessions' /\ cookie.expires <= sessions'[cookie.id] + MaxAge
    BY <1>1 DEF SessionBehindCookie
  <2>0. now \in Nat /\ cookie.expires \in Nat /\ Idle \in Nat /\ cookie.expires <= now + MaxAge
    BY DEF SessionsTyped
  <2>1. CASE id = cookie.id /\ ok
    BY <1>1, <2>0, <2>1
  <2>2. CASE ~ (id = cookie.id /\ ok)
    <3>1. LetIn(cookie.id)
      <4>1. CASE ~ ok
        BY <1>1, <1>2, <1>6, <4>1 DEF LetIn, SameCookies, NoneLetIn, Door
      <4>2. CASE id # cookie.id
        BY <1>1, <1>p, <1>6, <4>2 DEF LetIn, PassesOne
      <4> QED
        BY <2>2, <4>1, <4>2
    <3>2. cookie.id \in DOMAIN sessions /\ cookie.expires <= sessions[cookie.id] + MaxAge
      BY <3>1 DEF SessionBehindCookie
    <3>3. sessions[cookie.id] \in 0..now
      BY <3>2 DEF SessionsTyped
    <3>4. CASE id = cookie.id
      <4>1. ok
        BY <2>0, <3>2, <3>3, <3>4 DEF MaxAge
      <4> QED
        BY <2>2, <3>4, <4>1
    <3>5. CASE id # cookie.id
      BY <1>1, <3>2, <3>5
    <3> QED
      BY <3>4, <3>5
  <2> QED
    BY <2>1, <2>2
<1> QED
  BY <1>1, <1>4, <1>5, <1>7, <1>8 DEF OneSessionPerLaunch, NoneBefore

LEMMA BootstrapKeeps ==
    ASSUME GatewayInv, NEW i \in DOMAIN request, Bootstrap(i)
    PROVE  GatewayInv'
<1> USE GatewayAssumption DEF GatewayInv
<1>p. PassesOne(i, Point("gateway", "bootstrap"))
  BY DEF Bootstrap, RequestsTyped, PassesOne, Passed, Fields
<1>1. SameCookies /\ NoneLetIn /\ UNCHANGED <<now, launch>>
  <2>1. Point("gateway", "bootstrap") # Door
    BY DEF Door, Point
  <2> QED
    BY <1>p, <2>1, OnePasses DEF Bootstrap
<1>2. CASE UNCHANGED sessionVars
  <2>1. UNCHANGED <<used, births, sessions, answers, cookie>>
    BY <1>2 DEF sessionVars
  <2> QED
    BY <1>1, <2>1, OtherSteps
<1>3. CASE ~ UNCHANGED sessionVars
  <2> DEFINE id == Len(births) + 1
  <2>1. /\ ~ used /\ used' = TRUE
        /\ births' = Append(births, launch)
        /\ sessions' = [s \in DOMAIN sessions \cup {id} |-> IF s = id THEN now ELSE sessions[s]]
        /\ answers' = answers \cup {id} /\ cookie' = cookie
    BY <1>3 DEF Bootstrap, Admits
  <2>2. /\ now \in Nat /\ launch \in Nat \ {0} /\ births \in Seq(1..launch)
        /\ cookie \in [id : 0..Len(births), expires : Nat]
    BY DEF SessionsTyped
  <2>3. /\ Len(births) \in Nat /\ DOMAIN births = 1..Len(births)
        /\ \A k \in 1..Len(births) : births[k] \in 1..launch
        /\ births' \in Seq(1..launch) /\ Len(births') = Len(births) + 1
        /\ DOMAIN births' = 1..Len(births) + 1
        /\ births'[id] = launch
        /\ \A k \in 1..Len(births) : births'[k] = births[k]
    BY <2>1, <2>2, AppendProperties, LenProperties, ElementOfSeq
  <2>4. \A k \in 1..Len(births) : births[k] # launch
    <3>1. \A s \in DOMAIN births : births[s] < launch
      BY <2>1 DEF NoneBefore
    <3> TAKE k \in 1..Len(births)
    <3>2. births[k] < launch /\ births[k] \in 1..launch
      BY <2>3, <3>1
    <3> QED
      BY <2>2, <3>2
  <2>5. RequestsTyped'
    <3>1. births \in Seq(Nat) /\ births' \in Seq(Nat)
      BY <2>2, <2>3, SeqDef
    <3> QED
      BY <1>1, <2>3, <3>1, RequestsStayTyped
  <2>6. SessionsTyped'
    <3>1. cookie' \in [id : 0..Len(births'), expires : Nat] /\ cookie'.expires <= now + MaxAge
      BY <2>1, <2>2, <2>3 DEF SessionsTyped
    <3>2. DOMAIN sessions' \subseteq DOMAIN births'
      BY <2>1, <2>3 DEF SessionsTyped
    <3>3. \A s \in DOMAIN sessions' : sessions'[s] \in 0..now
      BY <2>1, <2>2 DEF SessionsTyped
    <3> QED
      BY <1>1, <2>2, <2>3, <3>1, <3>2, <3>3 DEF SessionsTyped
  <2>7. OneSessionPerLaunch'
    BY <2>3, <2>4 DEF OneSessionPerLaunch
  <2>8. NoneBefore'
    BY <2>1 DEF NoneBefore
  <2>9. OnTheWay'
    <3>1. \A k \in DOMAIN request' : request'[k].cookie \in 0..Len(births) \ answers
      BY <1>1 DEF SameCookies, OnTheWay, RequestsTyped
    <3>2. cookie.id \in 0..Len(births) \ answers
      BY <2>2 DEF OnTheWay
    <3>3. id \notin 0..Len(births)
      BY <2>3
    <3>4. answers' \subseteq DOMAIN births'
      BY <2>1, <2>3 DEF OnTheWay
    <3> QED
      BY <2>1, <3>1, <3>2, <3>3, <3>4 DEF OnTheWay
  <2>10. SessionBehindCookie'
    <3>1. cookie.id # 0 => births'[cookie.id] # launch
      BY <2>2, <2>3, <2>4
    <3> QED
      BY <1>1, <2>1, <3>1 DEF SessionBehindCookie
  <2> QED
    BY <2>5, <2>6, <2>7, <2>8, <2>9, <2>10
<1> QED
  BY <1>2, <1>3

(* The answer comes: nobody has been let in with its cookie yet. *)
LEMMA ReceiveKeeps ==
    ASSUME GatewayInv, NEW id \in answers, Receive(id)
    PROVE  GatewayInv'
<1> USE GatewayAssumption DEF GatewayInv
<1>1. /\ answers' = answers \ {id} /\ cookie' = [id |-> id, expires |-> now + MaxAge]
      /\ UNCHANGED <<now, launch, used, births, sessions, request>>
  BY DEF Receive
<1>2. id \in 1..Len(births)
  BY LenProperties DEF OnTheWay, SessionsTyped
<1>3. SessionsTyped'
  BY <1>1, <1>2 DEF SessionsTyped, MaxAge
<1>4. OnTheWay'
  BY <1>1 DEF OnTheWay
<1>5. ~ LetIn(id)'
  BY <1>1 DEF LetIn, OnTheWay
<1>6. SessionBehindCookie'
  BY <1>1, <1>5 DEF SessionBehindCookie
<1> QED
  BY <1>1, <1>3, <1>4, <1>6 DEF RequestsTyped, OneSessionPerLaunch, NoneBefore

LEMMA TickKeeps ==
    ASSUME GatewayInv, Tick
    PROVE  GatewayInv'
<1> USE GatewayAssumption DEF GatewayInv
<1>1. now' = now + 1 /\ UNCHANGED <<launch, used, births, sessions, answers, cookie, request>>
  BY DEF Tick, sessionVars
<1>2. SessionsTyped'
  BY <1>1 DEF SessionsTyped, MaxAge
<1>3. SessionBehindCookie'
  BY <1>1 DEF SessionBehindCookie, SessionsTyped, LetIn
<1> QED
  BY <1>1, <1>2, <1>3 DEF RequestsTyped, OneSessionPerLaunch, NoneBefore, OnTheWay

LEMMA RestartKeeps ==
    ASSUME GatewayInv, Restart
    PROVE  GatewayInv'
<1> USE DEF GatewayInv
<1>1. /\ launch' = launch + 1 /\ used' = FALSE /\ sessions' = <<>>
      /\ UNCHANGED <<now, births, answers, cookie>>
  BY DEF Restart
<1>2. SameCookies
  BY DEF Restart, SameCookies, RequestsTyped, Fields
<1>3. /\ launch \in Nat \ {0} /\ births \in Seq(1..launch)
      /\ Len(births) \in Nat /\ DOMAIN births = 1..Len(births)
      /\ \A k \in 1..Len(births) : births[k] \in 1..launch
  BY LenProperties, ElementOfSeq DEF SessionsTyped
<1>4. births \in Seq(Nat) /\ births \in Seq(1..launch')
  BY <1>1, <1>3, SeqDef
<1>5. RequestsTyped'
  BY <1>1, <1>2, <1>3, <1>4, RequestsStayTyped
<1>6. SessionsTyped'
  BY <1>1, <1>3, <1>4 DEF SessionsTyped
<1>7. \A k \in 1..Len(births) : births'[k] < launch' /\ births'[k] # launch'
  BY <1>1, <1>3
<1>8. OnTheWay'
  BY <1>1, <1>2 DEF OnTheWay, SameCookies
<1>9. SessionBehindCookie'
  <2>1. cookie'.id # 0 => cookie'.id \in 1..Len(births)
    BY <1>1, <1>3 DEF SessionsTyped
  <2> QED
    BY <1>7, <2>1 DEF SessionBehindCookie
<1> QED
  BY <1>1, <1>3, <1>5, <1>6, <1>7, <1>8, <1>9 DEF OneSessionPerLaunch, NoneBefore

LEMMA GatewayInductive == GatewayInv /\ [Next]_vars => GatewayInv'
<1> SUFFICES ASSUME GatewayInv, [Next]_vars PROVE GatewayInv'
  OBVIOUS
<1>1. CASE \E kind \in Kinds : Send(kind)
  BY <1>1, SendKeeps
<1>2. ASSUME NEW i \in DOMAIN request, RequestStep(i) PROVE GatewayInv'
  BY <1>2, AuthenticateKeeps, BootstrapKeeps, QuietSteps DEF RequestStep
<1>3. CASE Tick
  BY <1>3, TickKeeps
<1>4. CASE Restart
  BY <1>4, RestartKeeps
<1>5. CASE UNCHANGED vars
  BY <1>5 DEF vars, sessionVars, GatewayInv, RequestsTyped, SessionsTyped, OneSessionPerLaunch,
              NoneBefore, OnTheWay, SessionBehindCookie, LetIn
<1>6. ASSUME NEW id \in answers, Receive(id) PROVE GatewayInv'
  BY <1>6, ReceiveKeeps
<1> QED
  BY <1>1, <1>2, <1>3, <1>4, <1>5, <1>6 DEF Next

LEMMA GatewayInvariant == Spec => []GatewayInv
BY GatewayInit, GatewayInductive, PTL DEF Spec

-----------------------------------------------------------------------------
(* However many windows present the token of a launch, and in whatever     *)
(* order, bootstrapSession makes one session of it.                        *)
THEOREM OneSessionCorrect == Spec => []OneSessionPerLaunch
<1>1. GatewayInv => OneSessionPerLaunch
  BY DEF GatewayInv
<1> QED
  BY <1>1, GatewayInvariant, PTL

(* Whenever the browser got the cookie: after a request has been let in    *)
(* with it, authenticate refuses no request that carries it before it has  *)
(* expired, for its session was seen since the cookie came, and goes only  *)
(* when idle for longer than the cookie lives.                             *)
THEOREM CookieCorrect == Spec => []CookieIsEnough
<1>1. GatewayInv => CookieIsEnough
  <2> SUFFICES ASSUME GatewayInv, NEW i \in DOMAIN request, request[i].cookie # 0,
                      births[request[i].cookie] = launch, LetIn(request[i].cookie),
                      request[i].cookie = cookie.id, now < cookie.expires
               PROVE  request[i].cookie \in DOMAIN sessions /\ now - sessions[request[i].cookie] <= Idle
    BY DEF CookieIsEnough
  <2>1. cookie.id \in DOMAIN sessions /\ cookie.expires <= sessions[cookie.id] + MaxAge
    BY DEF GatewayInv, SessionBehindCookie
  <2>2. sessions[cookie.id] \in Nat /\ now \in Nat /\ cookie.expires \in Nat /\ Idle \in Nat
    BY <2>1, GatewayAssumption DEF GatewayInv, SessionsTyped
  <2> QED
    BY <2>1, <2>2 DEF MaxAge
<1> QED
  BY <1>1, GatewayInvariant, PTL

-----------------------------------------------------------------------------
(* Points and ways.                                                        *)

Entering == {"intent", "command", "enter"}

GatewayPhases ==
    {"authenticate", "validation", "bootstrap", "ui_action", "submitted", "response",
     "queued", "background_result", "start", "start refused", "asked", "stop"}

GatewayPoints ==
    {Point("gateway", phase) : phase \in GatewayPhases}

(* The points inside an operation of the application. *)
Calls == {Point("seshat", "enter"), Point("seshat", "command"),
          Point("provider", "root.probe"), Point("provider", "before_scan"),
          Point("provider", "after_scan"), Point("observer", "result")}

InnerPoints == Calls \cup {Point("seshat", "decision")}

Points ==
    GatewayPoints \cup InnerPoints
        \cup {Point("application", "intent"), Point("application", "result")}

(* The component has been entered by the n-th point of the way. *)
Entered(way, n, by) ==
    \E j \in 1..n : j \in DOMAIN way /\ way[j].by = by /\ way[j].phase \in Entering

(* A component is called by one that was entered, and left after it was.   *)
Nested(way) ==
    \A k \in DOMAIN way :
        /\ way[k].by \in {"seshat", "provider", "observer"} => Entered(way, k - 1, "application")
        /\ way[k] = Point("application", "result") => Entered(way, k - 1, "application")
        /\ way[k] = Point("seshat", "decision") => Entered(way, k - 1, "seshat")

(* Each decision of Seshat is about a call before it. *)
Decided(steps) ==
    \A k \in DOMAIN steps : steps[k] = Point("seshat", "decision") => Entered(steps, k - 1, "seshat")

(* The first point of a way, and the second of one that is not a view. *)
First == {"authenticate", "validation", "bootstrap"}
Second == {"submitted", "queued", "asked", "start", "start refused"}

Opened(kind, way) ==
    /\ Len(way) > 0 /\ way[1] \in GatewayPoints
    /\ \A k \in DOMAIN way : way[k].phase \in First <=> k = 1
    /\ way[1].phase # "authenticate" => Len(way) = 1
    /\ way[1].phase = "bootstrap" => kind = "bootstrap"
    /\ kind # "view" /\ Len(way) > 1 => way[2].by = "gateway" /\ way[2].phase \in Second

(* The points that come after the first, and what a component may do with  *)
(* them.                                                                   *)
Later == {p \in Points : p.phase \notin First}

WellMade(kind, way) == way \in Seq(Points) /\ Nested(way) /\ Opened(kind, way)

(* What is true of the points, by looking at each. *)
LEMMA PointFacts ==
    \A p \in Points :
        /\ p.by \in {"gateway", "application", "seshat", "provider", "observer"}
        /\ p \in InnerPoints => p.by \in {"seshat", "provider", "observer"} /\ p \in Later
        /\ p \in GatewayPoints <=> p.by = "gateway"
        /\ p.phase \in Entering => p.by \in {"application", "seshat"}
        /\ p.phase \in First => p \in GatewayPoints
        /\ p.by = "application" => p.phase \in {"intent", "result"} /\ p = Point("application", p.phase)
        /\ p.by = "seshat" => p.phase \in {"enter", "command", "decision"} /\ p = Point("seshat", p.phase)
        /\ p.by \in {"provider", "observer"}
             => p.phase \in {"root.probe", "before_scan", "after_scan", "result"}
<1> TAKE p \in Points
<1>1. \A by, phase : Point(by, phase).by = by /\ Point(by, phase).phase = phase
  BY DEF Point
<1>2. p.by = "gateway" <=> p \in GatewayPoints
  BY <1>1 DEF Points, GatewayPoints, InnerPoints, Calls
<1>3. CASE p \in GatewayPoints
  <2>1. PICK phase \in GatewayPhases : p = Point("gateway", phase)
    BY <1>3 DEF GatewayPoints, GatewayPhases
  <2>2. p.by = "gateway" /\ p.phase \in GatewayPhases
    BY <1>1, <2>1
  <2>3. p \notin InnerPoints
    BY <1>1, <2>2 DEF InnerPoints, Calls
  <2> QED
    BY <1>3, <2>2, <2>3 DEF GatewayPhases, Entering
<1>4. CASE p \in InnerPoints
  <2>1. /\ p.by \in {"seshat", "provider", "observer"} /\ p.phase \notin First
        /\ p.phase \in Entering => p.by = "seshat"
        /\ p.by = "seshat" => p.phase \in {"enter", "command", "decision"} /\ p = Point("seshat", p.phase)
        /\ p.by \in {"provider", "observer"}
             => p.phase \in {"root.probe", "before_scan", "after_scan", "result"}
    BY <1>1, <1>4 DEF InnerPoints, Calls, First, Entering
  <2> QED
    BY <1>2, <2>1 DEF Later
<1>5. CASE p = Point("application", "intent") \/ p = Point("application", "result")
  <2>1. /\ p.by = "application" /\ p.phase \in {"intent", "result"}
        /\ p = Point("application", p.phase)
    BY <1>1, <1>5
  <2>2. p \notin InnerPoints
    BY <1>1, <2>1 DEF InnerPoints, Calls
  <2> QED
    BY <1>2, <2>1, <2>2 DEF First
<1> QED
  BY <1>3, <1>4, <1>5 DEF Points

(* Where the points of two sequences are in the one they make together. *)
LEMMA JoinedAt ==
    ASSUME NEW S, NEW s \in Seq(S), NEW t \in Seq(S)
    PROVE  /\ s \o t \in Seq(S) /\ Len(s \o t) = Len(s) + Len(t)
           /\ Len(s) \in Nat /\ Len(t) \in Nat
           /\ DOMAIN s = 1..Len(s) /\ DOMAIN t = 1..Len(t)
           /\ DOMAIN (s \o t) = 1..Len(s) + Len(t)
           /\ \A i \in 1..Len(s) : (s \o t)[i] = s[i]
           /\ \A i \in 1..Len(t) : (s \o t)[Len(s) + i] = t[i]
           /\ \A k \in DOMAIN (s \o t) :
                \/ k \in 1..Len(s) /\ (s \o t)[k] = s[k]
                \/ k - Len(s) \in 1..Len(t) /\ (s \o t)[k] = t[k - Len(s)]
<1>1. /\ s \o t \in Seq(S) /\ Len(s \o t) = Len(s) + Len(t)
      /\ \A i \in 1..Len(s) + Len(t) :
           (s \o t)[i] = IF i <= Len(s) THEN s[i] ELSE t[i - Len(s)]
  BY ConcatProperties
<1>2. /\ Len(s) \in Nat /\ Len(t) \in Nat /\ DOMAIN s = 1..Len(s) /\ DOMAIN t = 1..Len(t)
      /\ DOMAIN (s \o t) = 1..Len(s) + Len(t)
  BY <1>1, LenProperties
<1>3. ASSUME NEW i \in 1..Len(t) PROVE (s \o t)[Len(s) + i] = t[i]
  <2>1. Len(s) + i \in 1..Len(s) + Len(t) /\ ~ (Len(s) + i <= Len(s)) /\ Len(s) + i - Len(s) = i
    BY <1>2
  <2> QED
    BY <1>1, <2>1
<1> QED
  BY <1>1, <1>2, <1>3

LEMMA OnePoint ==
    ASSUME NEW S, NEW p \in S
    PROVE  <<p>> \in Seq(S) /\ Len(<<p>>) = 1 /\ DOMAIN <<p>> = 1..1 /\ <<p>>[1] = p
OBVIOUS

(* What was entered stays entered in a longer way. *)
LEMMA EnteredJoined ==
    ASSUME NEW S, NEW s \in Seq(S), NEW t \in Seq(S), NEW by, NEW n \in Nat
    PROVE  /\ Entered(s, n, by) => \A m \in Nat : m >= n => Entered(s \o t, m, by)
           /\ Entered(t, n, by) => Entered(s \o t, Len(s) + n, by)
<1>1. /\ Len(s) \in Nat /\ DOMAIN s = 1..Len(s) /\ DOMAIN t = 1..Len(t) /\ Len(t) \in Nat
      /\ DOMAIN (s \o t) = 1..Len(s) + Len(t)
      /\ \A i \in 1..Len(s) : (s \o t)[i] = s[i]
      /\ \A i \in 1..Len(t) : (s \o t)[Len(s) + i] = t[i]
  BY JoinedAt
<1> DEFINE way == s \o t
<1>2. /\ DOMAIN way = 1..Len(s) + Len(t)
      /\ \A i \in 1..Len(s) : way[i] = s[i]
      /\ \A i \in 1..Len(t) : way[Len(s) + i] = t[i]
  BY <1>1
<1> HIDE DEF way
<1>3. ASSUME Entered(s, n, by), NEW m \in Nat, m >= n PROVE Entered(way, m, by)
  <2>1. PICK j \in 1..n : j \in 1..Len(s) /\ s[j].by = by /\ s[j].phase \in Entering
    BY <1>1, <1>3 DEF Entered
  <2>2. j \in 1..m /\ j \in DOMAIN way /\ way[j] = s[j]
    BY <1>1, <1>2, <1>3, <2>1
  <2> QED
    BY <2>1, <2>2 DEF Entered
<1>4. ASSUME Entered(t, n, by) PROVE Entered(way, Len(s) + n, by)
  <2>1. PICK j \in 1..n : j \in 1..Len(t) /\ t[j].by = by /\ t[j].phase \in Entering
    BY <1>1, <1>4 DEF Entered
  <2>2. Len(s) + j \in 1..Len(s) + n /\ Len(s) + j \in DOMAIN way /\ way[Len(s) + j] = t[j]
    BY <1>1, <1>2, <2>1
  <2> QED
    BY <2>1, <2>2 DEF Entered
<1> QED
  BY <1>3, <1>4 DEF way

LEMMA NestedJoined ==
    ASSUME NEW S, NEW s \in Seq(S), NEW t \in Seq(S)
    PROVE  /\ Nested(s) /\ Nested(t) => Nested(s \o t)
           /\ Decided(s) /\ Decided(t) => Decided(s \o t)
<1> DEFINE way == s \o t
<1>1. /\ Len(s) \in Nat /\ DOMAIN s = 1..Len(s) /\ DOMAIN t = 1..Len(t)
      /\ \A k \in DOMAIN way :
           \/ k \in 1..Len(s) /\ way[k] = s[k]
           \/ k - Len(s) \in 1..Len(t) /\ way[k] = t[k - Len(s)]
  BY JoinedAt
<1>2. DOMAIN way = 1..Len(s) + Len(t) /\ Len(t) \in Nat
  BY JoinedAt
<1>3. ASSUME NEW by, NEW k \in 1..Len(s), Entered(s, k - 1, by) PROVE Entered(way, k - 1, by)
  <2>1. k - 1 \in Nat
    BY <1>1
  <2> QED
    BY <1>3, <2>1, EnteredJoined
<1>4. ASSUME NEW by, NEW k \in 1..Len(s) + Len(t), k - Len(s) \in 1..Len(t),
             Entered(t, k - Len(s) - 1, by)
      PROVE  Entered(way, k - 1, by)
  <2>1. k - Len(s) - 1 \in Nat /\ Len(s) + (k - Len(s) - 1) = k - 1
    BY <1>1, <1>4
  <2>2. Entered(way, Len(s) + (k - Len(s) - 1), by)
    BY <1>4, <2>1, EnteredJoined
  <2> QED
    BY <2>1, <2>2
<1> HIDE DEF way
<1>5. ASSUME Nested(s), Nested(t) PROVE Nested(way)
  <2> SUFFICES ASSUME NEW k \in DOMAIN way
               PROVE  /\ way[k].by \in {"seshat", "provider", "observer"} => Entered(way, k - 1, "application")
                      /\ way[k] = Point("application", "result") => Entered(way, k - 1, "application")
                      /\ way[k] = Point("seshat", "decision") => Entered(way, k - 1, "seshat")
    BY DEF Nested
  <2>1. CASE k \in 1..Len(s) /\ way[k] = s[k]
    BY <1>1, <1>3, <1>5, <2>1 DEF Nested
  <2>2. CASE k - Len(s) \in 1..Len(t) /\ way[k] = t[k - Len(s)]
    BY <1>1, <1>2, <1>4, <1>5, <2>2 DEF Nested
  <2> QED
    BY <1>1, <2>1, <2>2
<1>6. ASSUME Decided(s), Decided(t) PROVE Decided(way)
  <2> SUFFICES ASSUME NEW k \in DOMAIN way, way[k] = Point("seshat", "decision")
               PROVE  Entered(way, k - 1, "seshat")
    BY DEF Decided
  <2>1. CASE k \in 1..Len(s) /\ way[k] = s[k]
    BY <1>1, <1>3, <1>6, <2>1 DEF Decided
  <2>2. CASE k - Len(s) \in 1..Len(t) /\ way[k] = t[k - Len(s)]
    BY <1>1, <1>2, <1>4, <1>6, <2>2 DEF Decided
  <2> QED
    BY <1>1, <2>1, <2>2
<1> QED
  BY <1>5, <1>6 DEF way

(* A single point, and none, are nested if it is the gateway's or an intent. *)
LEMMA NestedStart ==
    /\ Nested(<<>>) /\ Decided(<<>>)
    /\ \A p \in GatewayPoints \cup {Point("application", "intent")} : Nested(<<p>>)
    /\ \A p \in Points : p # Point("seshat", "decision") => Decided(<<p>>)
<1>1. Nested(<<>>) /\ Decided(<<>>)
  BY DEF Nested, Decided
<1>2. \A p : DOMAIN <<p>> = {1} /\ <<p>>[1] = p
  OBVIOUS
<1>3. ASSUME NEW p \in GatewayPoints \cup {Point("application", "intent")} PROVE Nested(<<p>>)
  <2>1. p.by \in {"gateway", "application"} /\ p # Point("application", "result")
        /\ p # Point("seshat", "decision")
    BY DEF GatewayPoints, Point
  <2> QED
    BY <1>2, <2>1 DEF Nested
<1> QED
  BY <1>1, <1>2, <1>3 DEF Decided

(* A call of the catalogue. *)
LEMMA CatalogueDecided ==
    ASSUME NEW p \in {Point("seshat", "enter"), Point("seshat", "command")}
    PROVE  LET call == <<p, Point("seshat", "decision")>> IN
           call \in Seq(InnerPoints) /\ Decided(call)
<1> DEFINE call == <<p, Point("seshat", "decision")>>
<1>1. p \in InnerPoints /\ Point("seshat", "decision") \in InnerPoints
  BY DEF InnerPoints, Calls
<1>2. call \in Seq(InnerPoints)
  BY <1>1
<1>3. DOMAIN call = {1, 2} /\ call[1] = p
  OBVIOUS
<1>4. p.by = "seshat" /\ p.phase \in Entering /\ p # Point("seshat", "decision")
  BY DEF Point, Entering
<1>5. Entered(call, 1, "seshat")
  BY <1>3, <1>4 DEF Entered
<1>6. Decided(call)
  <2> HIDE DEF call
  <2> QED
    BY <1>3, <1>4, <1>5 DEF Decided
<1> QED
  BY <1>2, <1>6

(* An operation of the application is nested, if each decision in it is    *)
(* about a call in it.                                                     *)
LEMMA OperationNested ==
    ASSUME NEW steps \in Seq(InnerPoints), Decided(steps)
    PROVE  Operation(steps) \in Seq(Later) /\ Nested(Operation(steps))
<1> DEFINE intent == <<Point("application", "intent")>>
           result == <<Point("application", "result")>>
           begun  == intent \o steps
<1>1. InnerPoints \subseteq Later
  BY PointFacts DEF Points
<1>2. Point("application", "intent") \in Later /\ Point("application", "result") \in Later
  BY DEF Later, Points, First, Point
<1>3. /\ steps \in Seq(Later)
      /\ intent \in Seq(Later) /\ Len(intent) = 1 /\ intent[1] = Point("application", "intent")
      /\ result \in Seq(Later) /\ Len(result) = 1 /\ result[1] = Point("application", "result")
  BY <1>1, <1>2, OnePoint, SeqMonotonic
<1>4. Operation(steps) = begun \o result
  BY DEF Operation
<1> HIDE DEF intent, result
<1>5. /\ begun \in Seq(Later) /\ Len(begun) = 1 + Len(steps) /\ Len(steps) \in Nat
      /\ DOMAIN begun = 1..Len(begun)
      /\ begun[1] = Point("application", "intent")
      /\ \A k \in DOMAIN begun :
           \/ k = 1 /\ begun[k] = Point("application", "intent")
           \/ k - 1 \in 1..Len(steps) /\ begun[k] = steps[k - 1]
  <2>1. /\ begun \in Seq(Later) /\ Len(begun) = Len(intent) + Len(steps) /\ Len(steps) \in Nat
        /\ DOMAIN begun = 1..Len(intent) + Len(steps)
        /\ \A k \in 1..Len(intent) : begun[k] = intent[k]
        /\ \A k \in DOMAIN begun :
             \/ k \in 1..Len(intent) /\ begun[k] = intent[k]
             \/ k - Len(intent) \in 1..Len(steps) /\ begun[k] = steps[k - Len(intent)]
    BY <1>3, JoinedAt, SMTT(40)
  <2> HIDE DEF begun
  <2> QED
    BY <1>3, <2>1
<1>6. \A n \in Nat : \A t : t \in Seq(Later) /\ n > 0 => Entered(begun \o t, n, "application")
  <2>1. intent[1].by = "application" /\ intent[1].phase \in Entering
    BY <1>3 DEF Point, Entering
  <2>2. Entered(begun, 1, "application")
    BY <1>3, <1>5, <2>1 DEF Entered
  <2> TAKE n \in Nat
  <2> TAKE t
  <2> HAVE t \in Seq(Later) /\ n > 0
  <2> HIDE DEF begun
  <2> QED
    BY <1>5, <2>2, EnteredJoined
<1>7. \A k \in DOMAIN begun : k > 1 => Entered(begun, k - 1, "application")
  <2> TAKE k \in DOMAIN begun
  <2> HAVE k > 1
  <2>1. intent[1].by = "application" /\ intent[1].phase \in Entering
    BY <1>3 DEF Point, Entering
  <2>2. 1 \in 1..k - 1 /\ 1 \in DOMAIN begun /\ begun[1] = intent[1]
    BY <1>3, <1>5
  <2> QED
    BY <2>1, <2>2 DEF Entered
<1>8. Nested(begun)
  <2>1. DOMAIN steps = 1..Len(steps)
    BY LenProperties
  <2> SUFFICES ASSUME NEW k \in DOMAIN begun
               PROVE  /\ begun[k].by \in {"seshat", "provider", "observer"} => Entered(begun, k - 1, "application")
                      /\ begun[k] = Point("application", "result") => Entered(begun, k - 1, "application")
                      /\ begun[k] = Point("seshat", "decision") => Entered(begun, k - 1, "seshat")
    BY DEF Nested
  <2>2. CASE k = 1
    BY <1>5, <2>2 DEF Point
  <2>3. CASE k - 1 \in 1..Len(steps) /\ begun[k] = steps[k - 1] /\ k # 1
    <3>1. k > 1
      BY <1>5, <2>3
    <3>2. ASSUME begun[k] = Point("seshat", "decision") PROVE Entered(begun, k - 1, "seshat")
      <4>1. Entered(steps, k - 2, "seshat") /\ k - 2 \in Nat /\ 1 + (k - 2) = k - 1
        BY <1>5, <2>1, <2>3, <3>1, <3>2 DEF Decided
      <4>2. Entered(begun, Len(intent) + (k - 2), "seshat")
        BY <1>3, <4>1, EnteredJoined
      <4> QED
        BY <1>3, <4>1, <4>2
    <3> QED
      BY <1>7, <3>1, <3>2
  <2> QED
    BY <1>5, <2>2, <2>3
<1>9. ASSUME NEW way, way = begun \o result PROVE way \in Seq(Later) /\ Nested(way)
  <2>1. /\ way \in Seq(Later) /\ DOMAIN way = 1..Len(begun) + 1
        /\ \A k \in DOMAIN way :
             \/ k \in 1..Len(begun) /\ way[k] = begun[k]
             \/ k = Len(begun) + 1 /\ way[k] = Point("application", "result")
    <3> HIDE DEF begun
    <3>1. /\ way \in Seq(Later) /\ DOMAIN way = 1..Len(begun) + Len(result)
          /\ \A k \in DOMAIN way :
               \/ k \in 1..Len(begun) /\ way[k] = begun[k]
               \/ k - Len(begun) \in 1..Len(result) /\ way[k] = result[k - Len(begun)]
      <4>1. begun \in Seq(Later) /\ result \in Seq(Later)
        BY <1>3, <1>5
      <4>2. /\ begun \o result \in Seq(Later)
            /\ DOMAIN (begun \o result) = 1..Len(begun) + Len(result)
            /\ \A k \in DOMAIN (begun \o result) :
                 \/ k \in 1..Len(begun) /\ (begun \o result)[k] = begun[k]
                 \/ k - Len(begun) \in 1..Len(result) /\ (begun \o result)[k] = result[k - Len(begun)]
        BY <4>1, JoinedAt
      <4> QED
        BY <1>9, <4>2
    <3>2. Len(begun) \in Nat
      BY <1>5
    <3>3. \A k \in Nat : k - Len(begun) \in 1..1 => k = Len(begun) + 1 /\ k - Len(begun) = 1
      BY <3>2
    <3>4. \A k \in DOMAIN way : k \in Nat
      BY <1>3, <3>1, <3>2
    <3> QED
      BY <1>3, <3>1, <3>3, <3>4
  <2>2. \A k \in 1..Len(begun) : \A by : Entered(begun, k - 1, by) => Entered(way, k - 1, by)
    <3> TAKE k \in 1..Len(begun)
    <3> TAKE by
    <3> HAVE Entered(begun, k - 1, by)
    <3>1. k - 1 \in Nat
      BY <1>5
    <3> HIDE DEF begun
    <3> QED
      BY <1>3, <1>5, <1>9, <3>1, EnteredJoined
  <2>3. Entered(way, Len(begun), "application")
    <3>1. Len(begun) \in Nat /\ Len(begun) > 0
      BY <1>5
    <3> QED
      BY <1>3, <1>6, <1>9, <3>1
  <2>4. Point("application", "result") # Point("seshat", "decision")
        /\ Point("application", "result").by \notin {"seshat", "provider", "observer"}
    BY DEF Point
  <2> HIDE DEF begun
  <2> SUFFICES ASSUME NEW k \in DOMAIN way
               PROVE  /\ way[k].by \in {"seshat", "provider", "observer"} => Entered(way, k - 1, "application")
                      /\ way[k] = Point("application", "result") => Entered(way, k - 1, "application")
                      /\ way[k] = Point("seshat", "decision") => Entered(way, k - 1, "seshat")
    BY <2>1 DEF Nested
  <2>5. CASE k \in 1..Len(begun) /\ way[k] = begun[k]
    BY <1>5, <1>8, <2>2, <2>5 DEF Nested
  <2>6. CASE k = Len(begun) + 1 /\ way[k] = Point("application", "result")
    <3>1. k - 1 = Len(begun)
      BY <1>5, <2>6
    <3> QED
      BY <2>3, <2>4, <2>6, <3>1
  <2> QED
    BY <2>1, <2>5, <2>6
<1> QED
  BY <1>4, <1>9

(* What a handler does makes a way, behind the authentication. *)
LEMMA AuthenticatedWay ==
    ASSUME NEW kind, NEW w \in Seq(Later), Nested(w), Len(w) > 0, w[1] \in GatewayPoints,
           kind # "view" => w[1].phase \in Second
    PROVE  WellMade(kind, <<Point("gateway", "authenticate")>> \o w)
<1> DEFINE p == Point("gateway", "authenticate")
           way == <<p>> \o w
<1>1. p \in GatewayPoints /\ p \in Points /\ p.phase = "authenticate" /\ p.phase \in First
  BY DEF Points, GatewayPoints, GatewayPhases, Point, First
<1>2. <<p>> \in Seq(Points) /\ Len(<<p>>) = 1 /\ <<p>>[1] = p /\ Nested(<<p>>)
  BY <1>1, OnePoint, NestedStart
<1>3. w \in Seq(Points) /\ Len(w) \in Nat /\ \A k \in 1..Len(w) : w[k] \in Later
  <2>1. Later \subseteq Points
    BY DEF Later
  <2> QED
    BY <2>1, SeqMonotonic, LenProperties, ElementOfSeq
<1> HIDE DEF p
<1>4. /\ way \in Seq(Points) /\ Len(way) = 1 + Len(w) /\ DOMAIN way = 1..1 + Len(w)
      /\ way[1] = p /\ way[2] = w[1]
      /\ \A k \in DOMAIN way : k = 1 \/ (k - 1 \in 1..Len(w) /\ way[k] = w[k - 1])
  <2>1. /\ way \in Seq(Points) /\ Len(way) = Len(<<p>>) + Len(w)
        /\ DOMAIN way = 1..Len(<<p>>) + Len(w)
        /\ \A i \in 1..Len(<<p>>) : way[i] = <<p>>[i]
        /\ \A i \in 1..Len(w) : way[Len(<<p>>) + i] = w[i]
        /\ \A k \in DOMAIN way :
             \/ k \in 1..Len(<<p>>) /\ way[k] = <<p>>[k]
             \/ k - Len(<<p>>) \in 1..Len(w) /\ way[k] = w[k - Len(<<p>>)]
    BY <1>2, <1>3, JoinedAt
  <2> HIDE DEF way
  <2> QED
    BY <1>2, <1>3, <2>1
<1>5. Nested(way)
  BY <1>2, <1>3, NestedJoined
<1> HIDE DEF way
<1>6. \A k \in DOMAIN way : way[k].phase \in First <=> k = 1
  <2> TAKE k \in DOMAIN way
  <2>1. CASE k = 1
    BY <1>1, <1>4, <2>1
  <2>2. CASE k # 1
    <3>1. way[k] \in Later
      BY <1>3, <1>4, <2>2
    <3> QED
      BY <2>2, <3>1 DEF Later
  <2> QED
    BY <2>1, <2>2
<1>7. w[1].by = "gateway"
  BY PointFacts DEF Points
<1>8. Opened(kind, way)
  BY <1>1, <1>3, <1>4, <1>6, <1>7 DEF Opened
<1> QED
  BY <1>4, <1>5, <1>8 DEF WellMade, way, p

(* The steps of an operation. *)
Inside(steps) == steps \in Seq(InnerPoints) /\ Decided(steps)

LEMMA InsideJoined ==
    ASSUME NEW s, NEW t, Inside(s), Inside(t)
    PROVE  Inside(s \o t)
BY ConcatProperties, NestedJoined DEF Inside

LEMMA InsideCalls == \A s \in Seq(Calls) : Inside(s)
<1> TAKE s \in Seq(Calls)
<1>1. s \in Seq(InnerPoints) /\ \A k \in DOMAIN s : s[k] \in Calls
  BY SeqMonotonic, LenProperties, ElementOfSeq DEF InnerPoints
<1>2. Point("seshat", "decision") \notin Calls
  BY DEF Calls, Point
<1> QED
  BY <1>1, <1>2 DEF Inside, Decided

LEMMA InsideCatalogue ==
    /\ Inside(<<>>) /\ Inside(Catalogue)
    /\ Inside(<<Point("seshat", "command"), Point("seshat", "decision")>>)
BY CatalogueDecided, NestedStart, EmptySeq DEF Inside, Catalogue

LEMMA OperationInside ==
    ASSUME NEW steps, Inside(steps)
    PROVE  Operation(steps) \in Seq(Later) /\ Nested(Operation(steps))
BY OperationNested DEF Inside

(* Two parts of what a handler does. *)
Part(w) == w \in Seq(Later) /\ Nested(w)

LEMMA PartsJoined ==
    ASSUME NEW s, NEW t, Part(s), Part(t)
    PROVE  Part(s \o t)
BY ConcatProperties, NestedJoined DEF Part

(* A point of the gateway that comes after the first. *)
LEMMA GatewayPart ==
    ASSUME NEW phase \in GatewayPhases \ First
    PROVE  /\ Part(<<Point("gateway", phase)>>) /\ Point("gateway", phase) \in GatewayPoints
           /\ Point("gateway", phase).phase = phase
<1>1. Point("gateway", phase) \in GatewayPoints /\ Point("gateway", phase).phase = phase
  BY DEF GatewayPoints, Point
<1>2. Point("gateway", phase) \in Later
  BY <1>1 DEF Later, Points
<1> QED
  BY <1>1, <1>2, OnePoint, NestedStart DEF Part

(* Handlers that begin with one point of the gateway and go on. *)
LEMMA HandlerWay ==
    ASSUME NEW kind, NEW phase \in GatewayPhases \ First, NEW rest, Part(rest),
           kind # "view" => phase \in Second
    PROVE  WellMade(kind, <<Point("gateway", "authenticate")>> \o (<<Point("gateway", phase)>> \o rest))
<1> DEFINE first == <<Point("gateway", phase)>>
           w     == first \o rest
<1>1. Part(w)
  BY GatewayPart, PartsJoined
<1>2. /\ first \in Seq(Later) /\ rest \in Seq(Later) /\ Len(first) = 1
      /\ first[1] = Point("gateway", phase)
  BY GatewayPart DEF Part
<1> HIDE DEF first
<1>3. Len(w) > 0 /\ w[1] = Point("gateway", phase)
  <2>1. Len(w) = Len(first) + Len(rest) /\ Len(rest) \in Nat
        /\ \A i \in 1..Len(first) : w[i] = first[i]
    BY <1>2, JoinedAt
  <2> QED
    BY <1>2, <2>1
<1> HIDE DEF w
<1>4. WellMade(kind, <<Point("gateway", "authenticate")>> \o w)
  BY <1>1, <1>3, GatewayPart, AuthenticatedWay DEF Part
<1> QED
  BY <1>4 DEF w, first

LEMMA ViewWays == \A w \in Views : WellMade("view", <<Point("gateway", "authenticate")>> \o w)
<1> DEFINE query == Operation(Catalogue)
<1>1. Part(query) /\ Part(Operation(<<>>))
  BY InsideCatalogue, OperationInside DEF Part
<1> HIDE DEF query
<1>2. ASSUME NEW q, q \in {query, query \o query, query \o query \o query,
                           query \o query \o Operation(<<>>)}
      PROVE  Part(q)
  <2>1. Part(query \o query)
    BY <1>1, PartsJoined
  <2>2. Part(query \o query \o query) /\ Part(query \o query \o Operation(<<>>))
    BY <1>1, <2>1, PartsJoined
  <2> QED
    BY <1>1, <1>2, <2>1, <2>2
<1>3. "ui_action" \in GatewayPhases \ First
  BY DEF GatewayPhases, First
<1>4. ASSUME NEW w \in Views PROVE WellMade("view", <<Point("gateway", "authenticate")>> \o w)
  <2>1. PICK q \in {query, query \o query, query \o query \o query,
                    query \o query \o Operation(<<>>)} :
               w = <<Point("gateway", "ui_action")>> \o q
    BY DEF Views, query
  <2> QED
    BY <1>2, <1>3, <2>1, HandlerWay
<1> QED
  BY <1>4

(* An operation between two points of the gateway. *)
LEMMA BetweenWay ==
    ASSUME NEW kind, NEW steps, Inside(steps),
           NEW phase \in (GatewayPhases \ First) \cap Second, NEW last \in GatewayPhases \ First
    PROVE  WellMade(kind, <<Point("gateway", "authenticate")>> \o
                            (<<Point("gateway", phase)>> \o Operation(steps) \o <<Point("gateway", last)>>))
<1> DEFINE rest == Operation(steps) \o <<Point("gateway", last)>>
<1>1. Part(Operation(steps)) /\ Part(<<Point("gateway", last)>>) /\ Part(<<Point("gateway", phase)>>)
  BY OperationInside, GatewayPart DEF Part
<1>2. Part(rest)
  BY <1>1, PartsJoined
<1>3. <<Point("gateway", phase)>> \o Operation(steps) \o <<Point("gateway", last)>>
        = <<Point("gateway", phase)>> \o rest
  BY <1>1, ConcatAssociative DEF Part
<1> HIDE DEF rest
<1> QED
  BY <1>2, <1>3, HandlerWay

LEMMA EnrolmentWays ==
    \A w \in Enrolments : WellMade("enroll", <<Point("gateway", "authenticate")>> \o w)
<1> DEFINE Probe == <<Point("provider", "root.probe")>>
           Add   == <<Point("seshat", "command"), Point("seshat", "decision")>>
<1>1. Inside(Probe) /\ Inside(Add) /\ Inside(<<>>)
  <2>1. Probe \in Seq(Calls)
    BY OnePoint DEF Calls
  <2> QED
    BY <2>1, InsideCalls, InsideCatalogue
<1> HIDE DEF Probe, Add
<1>2. Inside(Probe \o Add)
  BY <1>1, InsideJoined
<1>3. "submitted" \in (GatewayPhases \ First) \cap Second /\ "response" \in GatewayPhases \ First
  BY DEF GatewayPhases, First, Second
<1> TAKE w \in Enrolments
<1>4. PICK steps \in {<<>>, Probe, Probe \o Add} :
         w = <<Point("gateway", "submitted")>> \o Operation(steps) \o <<Point("gateway", "response")>>
  BY DEF Enrolments, Probe, Add
<1>5. Inside(steps)
  BY <1>1, <1>2
<1> QED
  BY <1>3, <1>4, <1>5, BetweenWay

LEMMA ScanWays ==
    \A w \in Scans : WellMade("scan", <<Point("gateway", "authenticate")>> \o w)
<1> DEFINE Walk  == <<Point("provider", "before_scan"), Point("observer", "result"),
                      Point("provider", "after_scan")>>
           Ends  == {SubSeq(Walk, 1, n) \o Catalogue : n \in 1..3} \cup {Walk \o Catalogue \o Catalogue}
           Rooted == Ends \cup {Catalogue \o later : later \in Ends}
           Begun == {Catalogue \o Catalogue \o end : end \in Rooted}
           All   == {<<>>, Catalogue, Catalogue \o Catalogue} \cup Begun
<1>0. Scans = {<<Point("gateway", "queued")>> \o Operation(steps)
                 \o <<Point("gateway", "background_result")>> : steps \in All}
  BY DEF Scans
<1>1. Inside(<<>>) /\ Inside(Catalogue) /\ Inside(Catalogue \o Catalogue)
  BY InsideCatalogue, InsideJoined
<1>2. Walk \in Seq(Calls)
  BY DEF Calls
<1>3. Inside(Walk) /\ \A n \in 1..3 : Inside(SubSeq(Walk, 1, n))
  <2>1. Len(Walk) = 3 /\ \A i \in 1..3 : Walk[i] \in Calls
    BY <1>2, ElementOfSeq
  <2> HIDE DEF Walk
  <2>2. \A n \in 1..3 : SubSeq(Walk, 1, n) \in Seq(Calls)
    BY <2>1, SubSeqProperties
  <2> QED
    BY <1>2, <2>2, InsideCalls
<1> HIDE DEF Walk
<1>4. \A end \in Ends : Inside(end)
  BY <1>1, <1>3, InsideJoined
<1> HIDE DEF Ends
<1>5. \A steps \in Begun : Inside(steps)
  <2>1. \A end \in Rooted : Inside(end)
    BY <1>1, <1>4, InsideJoined
  <2> HIDE DEF Rooted
  <2> QED
    BY <1>1, <2>1, InsideJoined
<1>6. "queued" \in (GatewayPhases \ First) \cap Second /\ "background_result" \in GatewayPhases \ First
  BY DEF GatewayPhases, First, Second
<1> TAKE w \in Scans
<1>7. PICK steps \in All :
         w = <<Point("gateway", "queued")>> \o Operation(steps) \o <<Point("gateway", "background_result")>>
  <2> HIDE DEF All
  <2> QED
    BY <1>0
<1> HIDE DEF Begun
<1>8. Inside(steps)
  BY <1>1, <1>5, <1>7
<1> QED
  BY <1>6, <1>7, <1>8, BetweenWay

(* One or two points of the gateway. *)
LEMMA ShortWays ==
    ASSUME NEW kind, NEW p \in GatewayPoints \cap Later, NEW q \in GatewayPoints \cap Later,
           p.phase \in Second
    PROVE  /\ WellMade(kind, <<Point("gateway", "authenticate")>> \o <<p>>)
           /\ WellMade(kind, <<Point("gateway", "authenticate")>> \o <<p, q>>)
<1>1. p.by = "gateway" /\ q.by = "gateway"
  BY PointFacts DEF Later
<1>2. /\ DOMAIN <<p, q>> = {1, 2} /\ Len(<<p, q>>) > 0
      /\ <<p, q>>[1] = p /\ <<p, q>>[2] = q /\ <<p, q>> \in Seq(Later)
  OBVIOUS
<1>3. Point("application", "result").by # "gateway" /\ Point("seshat", "decision").by # "gateway"
  BY DEF Point
<1>4. Nested(<<p, q>>)
  BY <1>1, <1>2, <1>3 DEF Nested
<1>5. /\ DOMAIN <<p>> = {1} /\ Len(<<p>>) > 0 /\ <<p>>[1] = p /\ <<p>> \in Seq(Later)
  OBVIOUS
<1>6. Nested(<<p>>)
  BY <1>1, <1>3, <1>5 DEF Nested
<1> QED
  BY <1>2, <1>4, <1>5, <1>6, AuthenticatedWay

(* Each way a request may go keeps to the order of calls and returns. *)
LEMMA WaysWellMade == \A kind \in Kinds : \A way \in Ways(kind) : WellMade(kind, way)
<1> TAKE kind \in Kinds
<1>1. ASSUME NEW phase \in {"validation", "bootstrap"}, phase = "bootstrap" => kind = "bootstrap"
      PROVE  WellMade(kind, <<Point("gateway", phase)>>)
  <2> DEFINE p == Point("gateway", phase)
  <2>1. p \in GatewayPoints /\ p.phase = phase /\ p \in Points
    BY DEF GatewayPoints, GatewayPhases, Point, Points
  <2> HIDE DEF p
  <2>2. <<p>> \in Seq(Points) /\ Len(<<p>>) = 1 /\ DOMAIN <<p>> = {1} /\ <<p>>[1] = p
    BY <2>1
  <2>3. Opened(kind, <<p>>)
    BY <1>1, <2>1, <2>2 DEF Opened, First
  <2>4. WellMade(kind, <<p>>)
    BY <2>1, <2>2, <2>3, NestedStart DEF WellMade
  <2> QED
    BY <2>4 DEF p
<1>2. ASSUME NEW w \in Handled(kind), kind # "bootstrap"
      PROVE  WellMade(kind, <<Point("gateway", "authenticate")>> \o w)
  <2>1. CASE kind = "view"
    BY <2>1, ViewWays DEF Handled
  <2>2. CASE kind = "enroll"
    BY <2>2, EnrolmentWays DEF Handled
  <2>3. CASE kind = "scan"
    BY <2>3, ScanWays DEF Handled
  <2>4. ASSUME NEW phase \in {"start", "asked", "start refused"}, NEW last \in {"asked", "stop"}
        PROVE  /\ WellMade(kind, <<Point("gateway", "authenticate")>> \o
                                   <<Point("gateway", phase), Point("gateway", last)>>)
               /\ WellMade(kind, <<Point("gateway", "authenticate")>> \o <<Point("gateway", phase)>>)
    <3> DEFINE p == Point("gateway", phase)
               q == Point("gateway", last)
    <3>1. phase \in GatewayPhases \ First /\ last \in GatewayPhases \ First /\ phase \in Second
      BY <2>4 DEF GatewayPhases, First, Second
    <3>2. Part(<<p>>) /\ Part(<<q>>) /\ p \in GatewayPoints /\ p.phase \in Second
      BY <3>1, GatewayPart
    <3>3. p \in Later /\ q \in Later /\ q \in GatewayPoints
      BY <3>1, GatewayPart DEF Later, Points, First
    <3> HIDE DEF p, q
    <3>4. /\ WellMade(kind, <<Point("gateway", "authenticate")>> \o <<p>>)
          /\ WellMade(kind, <<Point("gateway", "authenticate")>> \o <<p, q>>)
      BY <3>2, <3>3, ShortWays
    <3> QED
      BY <3>4 DEF p, q
  <2>5. CASE kind = "start"
    <3>1. w \in {<<Point("gateway", "start"), Point("gateway", "asked")>>,
                 <<Point("gateway", "start refused")>>}
      BY <2>5 DEF Handled
    <3> QED
      BY <2>4, <3>1
  <2>6. CASE kind = "stop"
    <3>1. w = <<Point("gateway", "asked"), Point("gateway", "stop")>>
      BY <2>6 DEF Handled
    <3>2. WellMade(kind, <<Point("gateway", "authenticate")>> \o
                           <<Point("gateway", "asked"), Point("gateway", "stop")>>)
      BY <2>4
    <3> QED
      BY <3>1, <3>2
  <2> QED
    BY <1>2, <2>1, <2>2, <2>3, <2>5, <2>6 DEF Kinds
<1> TAKE way \in Ways(kind)
<1> QED
  BY <1>1, <1>2 DEF Ways, Routes

-----------------------------------------------------------------------------
(* Where a request may go on to.                                           *)

LEMMA PrefixMeans ==
    ASSUME NEW S, NEW s \in Seq(S), NEW t \in Seq(S)
    PROVE  /\ IsPrefix(s, t) <=> Len(s) <= Len(t) /\ \A j \in 1..Len(s) : s[j] = t[j]
           /\ IsStrictPrefix(s, t) => Len(s) < Len(t)
<1>1. Len(s) \in Nat /\ Len(t) \in Nat
  BY LenProperties
<1>2. ASSUME NEW u \in Seq(S), Len(s) <= Len(u)
      PROVE  /\ SubSeq(u, 1, Len(s)) \in Seq(S) /\ Len(SubSeq(u, 1, Len(s))) = Len(s)
             /\ \A j \in 1..Len(s) : SubSeq(u, 1, Len(s))[j] = u[j]
  <2>1. \A j \in 1..Len(s) : u[j] \in S
    BY <1>1, <1>2, LenProperties, ElementOfSeq
  <2>2. 1 \in Int /\ Len(s) \in Int /\ Len(s) - 1 + 1 = Len(s)
        /\ \A j \in 1..Len(s) : 1 + j - 1 = j
    BY <1>1
  <2>3. CASE 1 <= Len(s)
    BY <2>1, <2>2, <2>3, SubSeqProperties
  <2>4. CASE Len(s) = 0
    BY <2>1, <2>2, <2>4, SubSeqProperties
  <2> QED
    BY <1>1, <2>3, <2>4
<1>3. ASSUME Len(s) <= Len(t)
      PROVE  SubSeq(s, 1, Len(s)) = SubSeq(t, 1, Len(s)) <=> \A j \in 1..Len(s) : s[j] = t[j]
  <2>1. \A j \in 1..Len(s) : SubSeq(s, 1, Len(s))[j] = s[j] /\ SubSeq(t, 1, Len(s))[j] = t[j]
    BY <1>1, <1>2, <1>3
  <2>2. /\ SubSeq(s, 1, Len(s)) \in Seq(S) /\ SubSeq(t, 1, Len(s)) \in Seq(S)
        /\ Len(SubSeq(s, 1, Len(s))) = Len(s) /\ Len(SubSeq(t, 1, Len(s))) = Len(s)
    BY <1>1, <1>2, <1>3
  <2>3. ASSUME \A j \in 1..Len(s) : s[j] = t[j]
        PROVE  SubSeq(s, 1, Len(s)) = SubSeq(t, 1, Len(s))
    BY <2>1, <2>2, <2>3, SeqEqual
  <2>4. ASSUME SubSeq(s, 1, Len(s)) = SubSeq(t, 1, Len(s)), NEW j \in 1..Len(s)
        PROVE  s[j] = t[j]
    BY <2>1, <2>4
  <2> QED
    BY <2>3, <2>4
<1>4. IsPrefix(s, t) <=> Len(s) <= Len(t) /\ \A j \in 1..Len(s) : s[j] = t[j]
  BY <1>3 DEF IsPrefix
<1>5. ASSUME IsStrictPrefix(s, t) PROVE Len(s) < Len(t)
  <2>1. IsPrefix(s, t) /\ s # t
    BY <1>5 DEF IsStrictPrefix
  <2>2. CASE Len(s) = Len(t)
    BY <1>4, <2>1, <2>2, SeqEqual
  <2> QED
    BY <1>1, <1>4, <2>1, <2>2
<1> QED
  BY <1>4, <1>5

(* What is known of the next point p of a request r. *)
Ahead(r, p) ==
    LET n     == Len(r.passed)
        later == Append(r.passed, p)
    IN
    /\ n \in Nat /\ DOMAIN r.passed = 1..n
    /\ p \in Points /\ later \in Seq(Points) /\ Len(later) = n + 1 /\ DOMAIN later = 1..n + 1
    /\ later[n + 1] = p /\ \A j \in 1..n : later[j] = r.passed[j]
    /\ \E way \in Ways(r.kind) : IsPrefix(later, way)
    /\ p.by \in {"seshat", "provider", "observer"} => Entered(r.passed, n, "application")
    /\ p = Point("application", "result") => Entered(r.passed, n, "application")
    /\ p = Point("seshat", "decision") => Entered(r.passed, n, "seshat")
    /\ p.phase \in First <=> n = 0
    /\ n > 0 => r.passed[1].phase = "authenticate"
    /\ r.kind # "view" /\ n = 1 => p.by = "gateway" /\ p.phase \in Second
    /\ \A by : Entered(later, n + 1, by) <=> Entered(r.passed, n, by) \/ (p.by = by /\ p.phase \in Entering)
    /\ \A by : Entered(r.passed, n, by) => n > 1

LEMMA OnwardIsAhead ==
    ASSUME NEW r, r.kind \in Kinds, r.passed \in Seq(Points), NEW p \in Onward(r)
    PROVE  Ahead(r, p)
<1> DEFINE s == r.passed
           n == Len(s)
           later == Append(s, p)
<1>1. PICK way \in Ways(r.kind) : IsStrictPrefix(s, way) /\ p = way[n + 1]
  BY DEF Onward
<1>2. WellMade(r.kind, way)
  BY WaysWellMade
<1>3. way \in Seq(Points) /\ Nested(way) /\ Opened(r.kind, way)
  BY <1>2 DEF WellMade
<1>4. n \in Nat /\ DOMAIN s = 1..n /\ Len(way) \in Nat /\ DOMAIN way = 1..Len(way)
  BY <1>3, LenProperties
<1>5. n < Len(way) /\ \A j \in 1..n : s[j] = way[j]
  BY <1>1, <1>3, PrefixMeans DEF IsStrictPrefix
<1>6. n + 1 \in DOMAIN way /\ p \in Points
  BY <1>1, <1>3, <1>4, <1>5, ElementOfSeq
<1>7. /\ later \in Seq(Points) /\ Len(later) = n + 1 /\ DOMAIN later = 1..n + 1
      /\ later[n + 1] = p /\ \A j \in 1..n : later[j] = s[j]
  BY <1>4, <1>6, AppendProperties, LenProperties
<1> HIDE DEF later, s
<1>8. Len(later) <= Len(way) /\ \A j \in 1..Len(later) : later[j] = way[j]
  BY <1>1, <1>4, <1>5, <1>7
<1>9. IsPrefix(later, way)
  BY <1>3, <1>7, <1>8, PrefixMeans
<1>10. \A by : Entered(way, n, by) => Entered(s, n, by)
  BY <1>4, <1>5 DEF Entered
<1>11. n + 1 - 1 = n
  BY <1>4
<1>12. /\ p.by \in {"seshat", "provider", "observer"} => Entered(s, n, "application")
       /\ p = Point("application", "result") => Entered(s, n, "application")
       /\ p = Point("seshat", "decision") => Entered(s, n, "seshat")
  BY <1>1, <1>3, <1>6, <1>10, <1>11 DEF Nested
<1>13. p.phase \in First <=> n = 0
  <2>1. p.phase \in First <=> n + 1 = 1
    BY <1>1, <1>3, <1>6 DEF Opened
  <2> QED
    BY <1>4, <2>1
<1>14. n > 0 => s[1].phase = "authenticate"
  <2> HAVE n > 0
  <2>1. Len(way) # 1 /\ 1 \in 1..n /\ way[1] = s[1]
    BY <1>4, <1>5
  <2> QED
    BY <1>3, <2>1 DEF Opened
<1>15. r.kind # "view" /\ n = 1 => p.by = "gateway" /\ p.phase \in Second
  <2> HAVE r.kind # "view" /\ n = 1
  <2>1. Len(way) > 1 /\ p = way[2]
    BY <1>1, <1>4, <1>5
  <2> QED
    BY <1>3, <2>1 DEF Opened
<1>16. ASSUME NEW by
       PROVE  Entered(later, n + 1, by) <=> Entered(s, n, by) \/ (p.by = by /\ p.phase \in Entering)
  <2>1. ASSUME Entered(later, n + 1, by)
        PROVE  Entered(s, n, by) \/ (p.by = by /\ p.phase \in Entering)
    <3>1. PICK j \in 1..n + 1 : later[j].by = by /\ later[j].phase \in Entering
      BY <2>1 DEF Entered
    <3>2. CASE j = n + 1
      BY <1>7, <3>1, <3>2
    <3>3. CASE j \in 1..n
      BY <1>4, <1>7, <3>1, <3>3 DEF Entered
    <3> QED
      BY <1>4, <3>1, <3>2, <3>3
  <2>2. ASSUME Entered(s, n, by) PROVE Entered(later, n + 1, by)
    BY <1>4, <1>7, <2>2 DEF Entered
  <2>3. ASSUME p.by = by, p.phase \in Entering PROVE Entered(later, n + 1, by)
    <3>1. n + 1 \in 1..n + 1
      BY <1>4
    <3> QED
      BY <1>7, <2>3, <3>1 DEF Entered
  <2> QED
    BY <2>1, <2>2, <2>3
<1>17. ASSUME NEW by, Entered(s, n, by) PROVE n > 1
  <2>1. PICK j \in 1..n : s[j].phase \in Entering
    BY <1>17 DEF Entered
  <2>2. way[j].phase \notin First
    BY <1>5, <2>1 DEF Entering, First
  <2>3. j # 1
    BY <1>3, <1>4, <1>5, <2>1, <2>2 DEF Opened
  <2> QED
    BY <1>4, <2>1, <2>3
<1> QED
  BY <1>4, <1>6, <1>7, <1>9, <1>12, <1>13, <1>14, <1>15, <1>16, <1>17 DEF Ahead, later, s

-----------------------------------------------------------------------------
(* Places.                                                                 *)

LEMMA PlaceAfter ==
    ASSUME NEW n \in Nat, NEW S \in SUBSET (1..n)
    PROVE  /\ Cardinality(S) \in Nat
           /\ Cardinality(S \cup {n + 1}) = Cardinality(S) + 1
           /\ Place(S \cup {n + 1}, n + 1) = Cardinality(S) + 1
           /\ \A k \in S : Place(S \cup {n + 1}, k) = Place(S, k) /\ Place(S, k) < Cardinality(S) + 1
<1>1. IsFiniteSet(S)
  <2>1. IsFiniteSet(1..n)
    BY FS_Interval
  <2> QED
    BY <2>1, FS_Subset
<1>2. Cardinality(S) \in Nat /\ Cardinality(S \cup {n + 1}) = Cardinality(S) + 1
  <2>1. n + 1 \notin S
    OBVIOUS
  <2> QED
    BY <1>1, <2>1, FS_AddElement, FS_CardinalityType
<1>3. {j \in S \cup {n + 1} : j <= n + 1} = S \cup {n + 1}
  <2>1. \A j \in S \cup {n + 1} : j <= n + 1
    OBVIOUS
  <2> QED
    BY <2>1
<1>4. ASSUME NEW k \in S
      PROVE  Place(S \cup {n + 1}, k) = Place(S, k) /\ Place(S, k) < Cardinality(S) + 1
  <2>1. {j \in S \cup {n + 1} : j <= k} = {j \in S : j <= k}
    OBVIOUS
  <2>2. {j \in S : j <= k} \subseteq S
    OBVIOUS
  <2>3. Cardinality({j \in S : j <= k}) \in Nat /\ Cardinality({j \in S : j <= k}) <= Cardinality(S)
    BY <1>1, <2>2, FS_Subset, FS_CardinalityType
  <2> QED
    BY <1>2, <2>1, <2>3 DEF Place
<1> QED
  BY <1>2, <1>3, <1>4 DEF Place

LEMMA PlacesMatch ==
    ASSUME NEW n \in Nat, NEW S \in SUBSET (1..n), NEW m \in Nat, NEW T \in SUBSET (1..m),
           Cardinality(S) = Cardinality(T)
    PROVE  /\ Cardinality(S \cup {n + 1}) = Cardinality(T \cup {m + 1})
           /\ \A k \in S \cup {n + 1}, j \in T \cup {m + 1} :
                Place(S \cup {n + 1}, k) = Place(T \cup {m + 1}, j) =>
                    \/ k \in S /\ j \in T /\ Place(S, k) = Place(T, j)
                    \/ k = n + 1 /\ j = m + 1
<1>1. /\ Cardinality(S) \in Nat
      /\ Cardinality(S \cup {n + 1}) = Cardinality(S) + 1
      /\ Place(S \cup {n + 1}, n + 1) = Cardinality(S) + 1
      /\ \A k \in S : Place(S \cup {n + 1}, k) = Place(S, k) /\ Place(S, k) < Cardinality(S) + 1
  BY PlaceAfter
<1>2. /\ Cardinality(T) \in Nat
      /\ Cardinality(T \cup {m + 1}) = Cardinality(T) + 1
      /\ Place(T \cup {m + 1}, m + 1) = Cardinality(T) + 1
      /\ \A j \in T : Place(T \cup {m + 1}, j) = Place(T, j) /\ Place(T, j) < Cardinality(T) + 1
  BY PlaceAfter
<1>3. \A k \in S \cup {n + 1}, j \in T \cup {m + 1} :
         Place(S \cup {n + 1}, k) = Place(T \cup {m + 1}, j) =>
             \/ k \in S /\ j \in T /\ Place(S, k) = Place(T, j)
             \/ k = n + 1 /\ j = m + 1
  <2> TAKE k \in S \cup {n + 1}, j \in T \cup {m + 1}
  <2> HAVE Place(S \cup {n + 1}, k) = Place(T \cup {m + 1}, j)
  <2>1. \A c \in Nat : ~ (c + 1 < c + 1)
    OBVIOUS
  <2>2. CASE k \in S /\ j \in T
    BY <1>1, <1>2, <2>2
  <2>3. CASE k \in S /\ j = m + 1
    BY <1>1, <1>2, <2>1, <2>3
  <2>4. CASE k = n + 1 /\ j \in T
    BY <1>1, <1>2, <2>1, <2>4
  <2> QED
    BY <2>2, <2>3, <2>4
<1> QED
  BY <1>1, <1>2, <1>3

-----------------------------------------------------------------------------
(* What is told.                                                           *)

Components == {"gateway", "application", "seshat"}
Ids == Nat \X Nat

Events == [request : Nat, point : Points, correlation : Ids]

RecorderTyped ==
    /\ started \in Nat /\ started <= MaxSessions /\ active \in 0..started
    /\ DOMAIN log = 1..MaxSessions
    /\ \A s \in 1..MaxSessions : log[s] \in Seq(Events)

RequestTyped(r) ==
    /\ r.kind \in Kinds
    /\ r.passed \in Seq(Points)
    /\ \E way \in Ways(r.kind) : IsPrefix(r.passed, way)
    /\ r.context \in [Components -> Ids]
    /\ r.noted \subseteq {"application", "seshat"}
    /\ r.under \in 0..started

(* A component that will tell of its outcome was entered. *)
NotedEntered(r) ==
    \A by \in r.noted : Entered(r.passed, Len(r.passed), by)

(* All contexts of an action, but a view, have the id of the gateway's. *)
OneContext(r) ==
    r.kind # "view" =>
        /\ Len(r.passed) > 1 => r.context.gateway # None
        /\ \A by \in {"application", "seshat"} :
             Entered(r.passed, Len(r.passed), by) => r.context[by] = r.context.gateway

(* So have those of a request during all of which one session is active,   *)
(* and each component it entered will tell of its outcome.                 *)
UnderOne(r) ==
    r.under # 0 /\ r.under = active =>
        /\ Len(r.passed) > 0 /\ r.context.gateway # None
        /\ \A by \in {"application", "seshat"} :
             Entered(r.passed, Len(r.passed), by)
                 => by \in r.noted /\ r.context[by] = r.context.gateway

(* A request tells nothing before its second point, unless it is refused.  *)
ToldLate(r) == Len(r.passed) > 0 /\ (r.passed[1].phase = "validation" \/ Len(r.passed) > 1)

(* The id under which an action, but a view, is told. *)
IdOf(i, r) == IF r.passed[1].phase = "validation" THEN <<i, 1>> ELSE r.context.gateway

EventsKnown ==
    \A s \in 1..MaxSessions : \A k \in DOMAIN log[s] :
        LET i == log[s][k].request IN
        /\ i \in DOMAIN request /\ ToldLate(request[i])
        /\ request[i].kind # "view" => log[s][k].correlation = IdOf(i, request[i])

(* Only steps that were passed are lost. *)
LostPast ==
    /\ lost \subseteq (DOMAIN request) \X Nat
    /\ \A i \in DOMAIN request : \A n \in Nat :
         <<i, n>> \in lost => n \in 1..Len(request[i].passed)

NarrativeInv ==
    /\ RecorderTyped
    /\ \A i \in DOMAIN request :
         /\ RequestTyped(request[i]) /\ NotedEntered(request[i])
         /\ OneContext(request[i]) /\ UnderOne(request[i])
    /\ EventsKnown /\ LostPast
    /\ WholeNarrative

(* Request i passes point p, and nothing happens to the others. *)
Passes(i, p) ==
    /\ i \in DOMAIN request /\ i \in Nat /\ Ahead(request[i], p)
    /\ DOMAIN request' = DOMAIN request
    /\ \A j \in DOMAIN request : j # i => request'[j] = request[j]
    /\ request'[i].kind = request[i].kind
    /\ request'[i].passed = Append(request[i].passed, p)
    /\ RequestTyped(request[i])' /\ NotedEntered(request[i])' /\ OneContext(request[i])'
    /\ Len(request[i].passed) > 1 /\ request[i].kind # "view"
         => request'[i].context.gateway = request[i].context.gateway

(* It tells of it to the active session: the event is written, or lost. *)
Tells(i, p, id) ==
    /\ active # 0 /\ Tell(i, p, id)
    /\ id \in Ids /\ p.phase \notin Silent
    /\ Len(request[i].passed) = 0 => p.phase = "validation" /\ id = <<i, 1>>
    /\ Len(request[i].passed) > 0 /\ request[i].kind # "view" => id = request'[i].context.gateway

Written(i, p, id) ==
    Recorder!Add([request |-> i, point |-> p, correlation |-> id]) /\ UNCHANGED lost

Loses(i) ==
    /\ lost' = lost \cup {<<i, Len(request[i].passed) + 1>>}
    /\ UNCHANGED <<started, active, log>>

LEMMA WrittenOrLost ==
    ASSUME NEW i, NEW p, NEW id, Tells(i, p, id)
    PROVE  Written(i, p, id) \/ Loses(i)
BY DEF Tells, Tell, Written, Loses

LEMMA LogAfterTelling ==
    ASSUME RecorderTyped, NEW i \in Nat, NEW p \in Points, NEW id, Tells(i, p, id), Written(i, p, id)
    PROVE  /\ RecorderTyped' /\ active \in 1..MaxSessions /\ active' = active /\ started' = started
           /\ \A s \in 1..MaxSessions : s # active => log'[s] = log[s]
           /\ Len(log[active]) \in Nat /\ DOMAIN log[active] = 1..Len(log[active])
           /\ DOMAIN log'[active] = 1..Len(log[active]) + 1
           /\ \A k \in 1..Len(log[active]) : log'[active][k] = log[active][k]
           /\ log'[active][Len(log[active]) + 1] = [request |-> i, point |-> p, correlation |-> id]
<1> DEFINE e == [request |-> i, point |-> p, correlation |-> id]
<1>1. e \in Events
  BY DEF Tells, Events
<1>2. active \in 1..MaxSessions /\ MaxSessions \in Nat
  BY GatewayAssumption DEF RecorderTyped, Tells
<1>3. log' = [log EXCEPT ![active] = Append(@, e)] /\ active' = active /\ started' = started
  BY DEF Written, Recorder!Add
<1> HIDE DEF e
<1>4. log[active] \in Seq(Events)
  BY <1>2 DEF RecorderTyped
<1>5. /\ log'[active] = Append(log[active], e) /\ DOMAIN log' = 1..MaxSessions
      /\ \A s \in 1..MaxSessions : s # active => log'[s] = log[s]
  BY <1>2, <1>3 DEF RecorderTyped
<1>6. /\ Append(log[active], e) \in Seq(Events) /\ Len(Append(log[active], e)) = Len(log[active]) + 1
      /\ \A k \in 1..Len(log[active]) : Append(log[active], e)[k] = log[active][k]
      /\ Append(log[active], e)[Len(log[active]) + 1] = e
  BY <1>1, <1>4, AppendProperties
<1>7. /\ Len(log[active]) \in Nat /\ DOMAIN log[active] = 1..Len(log[active])
      /\ DOMAIN Append(log[active], e) = 1..Len(log[active]) + 1
  BY <1>4, <1>6, LenProperties
<1>8. RecorderTyped'
  BY <1>3, <1>5, <1>6 DEF RecorderTyped
<1> QED
  BY <1>2, <1>3, <1>5, <1>6, <1>7, <1>8 DEF e

LEMMA EventsAfter ==
    ASSUME RecorderTyped, EventsKnown, NEW i, NEW p, NEW id, Passes(i, p),
           UNCHANGED log \/ Tells(i, p, id)
    PROVE  EventsKnown'
<1> DEFINE n == Len(request[i].passed)
<1>1. /\ n \in Nat /\ Len(request'[i].passed) = n + 1
      /\ request'[i].passed[n + 1] = p /\ p \in Points
      /\ n > 0 => request'[i].passed[1] = request[i].passed[1]
      /\ n > 0 => request[i].passed[1].phase = "authenticate"
  BY DEF Passes, Ahead
<1>2. ASSUME ToldLate(request[i])
      PROVE  /\ ToldLate(request'[i])
             /\ request[i].kind # "view" => IdOf(i, request'[i]) = IdOf(i, request[i])
  <2>1. n > 1 /\ n > 0 /\ Len(request'[i].passed) > 1 /\ Len(request'[i].passed) > 0
    <3>1. n > 0 /\ (request[i].passed[1].phase = "validation" \/ n > 1)
      BY <1>2 DEF ToldLate
    <3>2. n > 1
      BY <1>1, <3>1
    <3> QED
      BY <1>1, <3>1, <3>2
  <2>2. request[i].kind # "view" => request'[i].context.gateway = request[i].context.gateway
    BY <2>1 DEF Passes
  <2>3. request'[i].passed[1] = request[i].passed[1] /\ request[i].passed[1].phase = "authenticate"
    BY <1>1, <2>1
  <2> HIDE DEF n
  <2> QED
    BY <2>1, <2>2, <2>3 DEF ToldLate, IdOf
<1>3. ASSUME NEW j \in DOMAIN request, ToldLate(request[j])
      PROVE  /\ j \in DOMAIN request' /\ ToldLate(request'[j]) /\ request'[j].kind = request[j].kind
             /\ request[j].kind # "view" => IdOf(j, request'[j]) = IdOf(j, request[j])
  BY <1>2, <1>3 DEF Passes
<1>4. ASSUME NEW s \in 1..MaxSessions, NEW k \in DOMAIN log[s], log'[s][k] = log[s][k]
      PROVE  LET j == log'[s][k].request IN
             /\ j \in DOMAIN request' /\ ToldLate(request'[j])
             /\ request'[j].kind # "view" => log'[s][k].correlation = IdOf(j, request'[j])
  <2>1. /\ log[s][k].request \in DOMAIN request /\ ToldLate(request[log[s][k].request])
        /\ request[log[s][k].request].kind # "view" =>
             log[s][k].correlation = IdOf(log[s][k].request, request[log[s][k].request])
    BY DEF EventsKnown
  <2> QED
    BY <1>3, <1>4, <2>1
<1>5. CASE UNCHANGED log
  BY <1>4, <1>5 DEF EventsKnown
<1>6. CASE Tells(i, p, id) /\ Written(i, p, id)
  <2> DEFINE m == Len(log[active])
             e == [request |-> i, point |-> p, correlation |-> id]
  <2>1. /\ active \in 1..MaxSessions
        /\ \A s \in 1..MaxSessions : s # active => log'[s] = log[s]
        /\ m \in Nat /\ DOMAIN log[active] = 1..m /\ DOMAIN log'[active] = 1..m + 1
        /\ \A k \in 1..m : log'[active][k] = log[active][k]
        /\ log'[active][m + 1] = e
    BY <1>1, <1>6, LogAfterTelling DEF Passes
  <2>2. /\ i \in DOMAIN request' /\ ToldLate(request'[i])
        /\ request'[i].kind # "view" => id = IdOf(i, request'[i])
    <3>1. CASE n = 0
      BY <1>1, <1>6, <3>1 DEF Tells, Passes, ToldLate, IdOf
    <3>2. CASE n > 0
      <4>1. Len(request'[i].passed) > 1
        BY <1>1, <3>2
      <4> QED
        BY <1>1, <1>6, <3>2, <4>1 DEF Tells, Passes, ToldLate, IdOf
    <3> QED
      BY <1>1, <3>1, <3>2
  <2>3. e.request = i /\ e.correlation = id
    OBVIOUS
  <2> HIDE DEF e, m
  <2>4. ASSUME NEW s \in 1..MaxSessions, NEW k \in DOMAIN log'[s]
        PROVE  \/ k \in DOMAIN log[s] /\ log'[s][k] = log[s][k]
               \/ log'[s][k] = e
    BY <2>1
  <2> SUFFICES ASSUME NEW s \in 1..MaxSessions, NEW k \in DOMAIN log'[s]
               PROVE  LET j == log'[s][k].request IN
                      /\ j \in DOMAIN request' /\ ToldLate(request'[j])
                      /\ request'[j].kind # "view" => log'[s][k].correlation = IdOf(j, request'[j])
    BY DEF EventsKnown, ToldLate, IdOf
  <2>5. CASE k \in DOMAIN log[s] /\ log'[s][k] = log[s][k]
    BY <1>4, <2>5
  <2>6. CASE log'[s][k] = e
    BY <2>2, <2>3, <2>6
  <2> QED
    BY <2>4, <2>5, <2>6
<1> QED
  BY <1>5, <1>6, WrittenOrLost DEF Loses

(* What is lost is lost from the step that passes. *)
LEMMA LostAfter ==
    ASSUME LostPast, NEW i, NEW p, Passes(i, p),
           lost' \subseteq lost \cup {<<i, Len(request[i].passed) + 1>>}
    PROVE  LostPast'
<1> DEFINE n == Len(request[i].passed)
<1>1. /\ n \in Nat /\ Len(request'[i].passed) = n + 1 /\ i \in DOMAIN request
      /\ DOMAIN request' = DOMAIN request
      /\ \A j \in DOMAIN request : j # i => request'[j] = request[j]
  BY DEF Passes, Ahead
<1> HIDE DEF n
<1>2. lost' \subseteq (DOMAIN request') \X Nat
  BY <1>1 DEF LostPast, n
<1>3. ASSUME NEW j \in DOMAIN request', NEW k \in Nat, <<j, k>> \in lost'
      PROVE  k \in 1..Len(request'[j].passed)
  <2>1. CASE <<j, k>> \in lost
    <3>1. k \in 1..Len(request[j].passed)
      BY <1>1, <2>1 DEF LostPast
    <3>2. CASE j = i
      BY <1>1, <3>1, <3>2 DEF n
    <3>3. CASE j # i
      BY <1>1, <3>1, <3>3
    <3> QED
      BY <3>2, <3>3
  <2>2. CASE j = i /\ k = n + 1
    BY <1>1, <2>2
  <2> QED
    BY <1>3, <2>1, <2>2 DEF n
<1> QED
  BY <1>2, <1>3 DEF LostPast

(* The steps of request i that are to be told, but for those that are lost. *)
Due(i, r, gone) == Loud(r) \ {n \in DOMAIN r.passed : <<i, n>> \in gone}

(* The lines told of a request are the steps that are due, in order. *)
Narrated(told, lines, due, r) ==
    /\ Cardinality(told) = Cardinality(due)
    /\ \A k \in told, n \in due :
         Place(told, k) = Place(due, n) => lines[k].point = r.passed[n]
    /\ \A k \in told : lines[k].correlation = r.context.gateway

(* The lines of request i among some. *)
ToldIn(i, lines) == {k \in DOMAIN lines : lines[k].request = i}

LEMMA WholeIsNarrated ==
    /\ WholeNarrative <=>
           \A i \in DOMAIN request :
               request[i].under # 0 /\ request[i].under = active =>
                   Narrated(ToldIn(i, log[active]), log[active], Due(i, request[i], lost), request[i])
    /\ WholeNarrative' <=>
           \A i \in DOMAIN request' :
               request'[i].under # 0 /\ request'[i].under = active' =>
                   Narrated(ToldIn(i, log'[active']), log'[active'],
                            Due(i, request'[i], lost'), request'[i])
BY DEF WholeNarrative, Narrated, Told, ToldIn, Due, Missed, Loud, Place

(* What request i had told of what it had passed. *)
LEMMA NarratedBefore ==
    ASSUME NarrativeInv, NEW i, NEW p, Passes(i, p), active # 0,
           \/ request[i].passed = <<>>
           \/ request[i].under = active /\ request'[i].context.gateway = request[i].context.gateway
    PROVE  LET told == ToldIn(i, log[active]) r == request[i] due == Due(i, r, lost) IN
           /\ Cardinality(told) = Cardinality(due)
           /\ \A k \in told, n \in due :
                Place(told, k) = Place(due, n) => log[active][k].point = r.passed[n]
           /\ \A k \in told : log[active][k].correlation = request'[i].context.gateway
<1> DEFINE told == ToldIn(i, log[active])
           r == request[i]
           due == Due(i, r, lost)
<1>1. CASE r.passed = <<>>
  <2>1. due = {}
    <3>1. DOMAIN r.passed = {}
      BY <1>1
    <3> QED
      BY <3>1 DEF Due, Loud
  <2>2. told = {}
    <3> SUFFICES ASSUME NEW k \in told PROVE FALSE
      OBVIOUS
    <3>1. active \in 1..MaxSessions
      BY GatewayAssumption DEF NarrativeInv, RecorderTyped
    <3>2. k \in DOMAIN log[active] /\ log[active][k].request = i
      BY DEF ToldIn
    <3>3. ToldLate(request[i])
      BY <3>1, <3>2 DEF NarrativeInv, EventsKnown
    <3>4. Len(r.passed) = 0
      BY <1>1
    <3> QED
      BY <3>3, <3>4 DEF ToldLate
  <2> QED
    BY <2>1, <2>2
<1>2. CASE request[i].under = active /\ request'[i].context.gateway = request[i].context.gateway
  <2>1. i \in DOMAIN request
    BY DEF Passes
  <2>2. Narrated(told, log[active], due, r)
    BY <1>2, <2>1, WholeIsNarrated DEF NarrativeInv
  <2> QED
    BY <1>2, <2>2 DEF Narrated
<1> QED
  BY <1>1, <1>2

(* What is due after a step that is told, or not. *)
LEMMA DueAfter ==
    ASSUME LostPast, NEW i, NEW p, Passes(i, p)
    PROVE  LET n == Len(request[i].passed) r == request[i] q == request'[i] IN
           /\ n \in Nat /\ Due(i, r, lost) \in SUBSET (1..n)
           /\ \A k \in Due(i, r, lost) : q.passed[k] = r.passed[k]
           /\ q.passed[n + 1] = p
           /\ UNCHANGED lost /\ p.phase \in Silent => Due(i, q, lost') = Due(i, r, lost)
           /\ UNCHANGED lost /\ p.phase \notin Silent
                => Due(i, q, lost') = Due(i, r, lost) \cup {n + 1}
           /\ Loses(i) => /\ Due(i, q, lost') = Due(i, r, lost)
                          /\ \A j : j # i => Due(j, request[j], lost') = Due(j, request[j], lost)
<1> DEFINE n == Len(request[i].passed)
           r == request[i]
           q == request'[i]
<1>1. /\ n \in Nat /\ DOMAIN r.passed = 1..n /\ DOMAIN q.passed = 1..n + 1 /\ q.passed[n + 1] = p
      /\ \A k \in 1..n : q.passed[k] = r.passed[k]
      /\ i \in DOMAIN request
  BY DEF Passes, Ahead
<1>2. /\ n + 1 \in 1..n + 1 /\ n + 1 \notin 1..n /\ 1..n + 1 = 1..n \cup {n + 1} /\ n + 1 \in Nat
  BY <1>1
<1>3. <<i, n + 1>> \notin lost
  BY <1>1, <1>2 DEF LostPast
<1>l. Loses(i) => lost' = lost \cup {<<i, n + 1>>}
  BY DEF Loses
<1> HIDE DEF n, r, q
<1>4. Loud(r) \in SUBSET (1..n) /\ Loud(q) = IF p.phase \in Silent THEN Loud(r) ELSE Loud(r) \cup {n + 1}
  BY <1>1, <1>2 DEF Loud
<1>5. Due(i, r, lost) \in SUBSET (1..n)
  BY <1>4 DEF Due
<1>d. \A j, u, gone : Due(j, u, gone) = {k \in Loud(u) : <<j, k>> \notin gone}
  BY DEF Due, Loud
<1>6. UNCHANGED lost /\ p.phase \in Silent => Due(i, q, lost') = Due(i, r, lost)
  BY <1>4, <1>d
<1>7. UNCHANGED lost /\ p.phase \notin Silent => Due(i, q, lost') = Due(i, r, lost) \cup {n + 1}
  BY <1>3, <1>4, <1>d
<1>8. ASSUME Loses(i)
      PROVE  /\ Due(i, q, lost') = Due(i, r, lost)
             /\ \A j : j # i => Due(j, request[j], lost') = Due(j, request[j], lost)
  <2>1. \A j, k : <<j, k>> \in lost' <=> <<j, k>> \in lost \/ (j = i /\ k = n + 1)
    BY <1>8, <1>l
  <2> QED
    BY <1>2, <1>4, <1>d, <2>1
<1> QED
  BY <1>1, <1>5, <1>6, <1>7, <1>8 DEF n, r, q

LEMMA NarrativeAfter ==
    ASSUME NarrativeInv, NEW i, NEW p, NEW id, Passes(i, p),
           \/ /\ UNCHANGED recorderVars
              /\ request'[i].under # 0 /\ request'[i].under = active => p.phase \in Silent
           \/ /\ Tells(i, p, id)
              /\ request'[i].under = active => id = request'[i].context.gateway,
           request'[i].under # 0 /\ request'[i].under = active =>
               \/ request[i].passed = <<>>
               \/ request[i].under = active /\ request'[i].context.gateway = request[i].context.gateway
    PROVE  WholeNarrative'
<1> DEFINE n == Len(request[i].passed)
           m == Len(log[active])
           r == request[i]
           q == request'[i]
           T == ToldIn(i, log[active])
           D == Due(i, r, lost)
<1>1. /\ p \in Points /\ i \in Nat /\ i \in DOMAIN request
      /\ DOMAIN request' = DOMAIN request
      /\ \A j \in DOMAIN request : j # i => request'[j] = request[j]
  BY DEF Passes, Ahead
<1>2. /\ n \in Nat /\ D \in SUBSET (1..n)
      /\ \A k \in D : q.passed[k] = r.passed[k]
      /\ q.passed[n + 1] = p
      /\ UNCHANGED lost /\ p.phase \in Silent => Due(i, q, lost') = D
      /\ UNCHANGED lost /\ p.phase \notin Silent => Due(i, q, lost') = D \cup {n + 1}
      /\ Loses(i) => /\ Due(i, q, lost') = D
                     /\ \A j : j # i => Due(j, request[j], lost') = Due(j, request[j], lost)
  BY DueAfter DEF NarrativeInv
<1>3. CASE \/ UNCHANGED recorderVars /\ (q.under # 0 /\ q.under = active => p.phase \in Silent)
           \/ Loses(i)
  <2>1. UNCHANGED <<active, log>>
    BY <1>3 DEF recorderVars, Loses
  <2>0. \A j : j # i => Due(j, request[j], lost') = Due(j, request[j], lost)
    BY <1>2, <1>3 DEF recorderVars
  <2> SUFFICES ASSUME NEW j \in DOMAIN request', request'[j].under # 0, request'[j].under = active
               PROVE  Narrated(ToldIn(j, log[active]), log[active], Due(j, request'[j], lost'), request'[j])
    BY <2>1, WholeIsNarrated
  <2>2. CASE j # i
    BY <1>1, <2>0, <2>2, WholeIsNarrated DEF NarrativeInv
  <2>3. CASE j = i
    <3>1. Due(i, q, lost') = D
      BY <1>2, <1>3, <2>3 DEF recorderVars
    <3>2. /\ Cardinality(T) = Cardinality(D)
          /\ \A k \in T, l \in D :
               Place(T, k) = Place(D, l) => log[active][k].point = r.passed[l]
          /\ \A k \in T : log[active][k].correlation = q.context.gateway
      BY <2>3, NarratedBefore
    <3>3. \A l \in D : q.passed[l] = r.passed[l]
      BY <1>2
    <3> HIDE DEF T, q, r, D
    <3> QED
      BY <2>3, <3>1, <3>2, <3>3 DEF Narrated, T, q
  <2> QED
    BY <2>2, <2>3
<1>4. CASE /\ Tells(i, p, id) /\ (q.under = active => id = q.context.gateway)
           /\ Written(i, p, id)
  <2>1. /\ active \in 1..MaxSessions /\ active' = active /\ active # 0
        /\ m \in Nat /\ DOMAIN log[active] = 1..m /\ DOMAIN log'[active] = 1..m + 1
        /\ \A k \in 1..m : log'[active][k] = log[active][k]
        /\ log'[active][m + 1] = [request |-> i, point |-> p, correlation |-> id]
    BY <1>1, <1>4, LogAfterTelling DEF NarrativeInv, Tells
  <2>u. UNCHANGED lost
    BY <1>4 DEF Written
  <2>2. log'[active][m + 1].request = i /\ log'[active][m + 1].point = p /\ log'[active][m + 1].correlation = id
    BY <2>1
  <2> DEFINE Told2(j) == ToldIn(j, log'[active])
  <2>3. T \in SUBSET (1..m) /\ Told2(i) = T \cup {m + 1}
    BY <2>1, <2>2 DEF ToldIn
  <2>4. \A j : j # i => Told2(j) = ToldIn(j, log[active])
    BY <2>1, <2>2 DEF ToldIn
  <2> HIDE DEF Told2
  <2> SUFFICES ASSUME NEW j \in DOMAIN request', request'[j].under # 0, request'[j].under = active
               PROVE  Narrated(Told2(j), log'[active], Due(j, request'[j], lost'), request'[j])
    BY <2>1, WholeIsNarrated DEF Told2
  <2>5. CASE j # i
    <3>1. /\ Narrated(ToldIn(j, log[active]), log[active], Due(j, request[j], lost), request[j])
          /\ request'[j] = request[j]
      BY <1>1, <2>5, WholeIsNarrated DEF NarrativeInv
    <3>2. \A k \in ToldIn(j, log[active]) : log'[active][k] = log[active][k]
      BY <2>1 DEF ToldIn
    <3> QED
      BY <2>4, <2>5, <2>u, <3>1, <3>2 DEF Narrated
  <2>6. CASE j = i
    <3>1. /\ Cardinality(T) = Cardinality(D)
          /\ \A k \in T, l \in D :
               Place(T, k) = Place(D, l) => log[active][k].point = r.passed[l]
          /\ \A k \in T : log[active][k].correlation = q.context.gateway
      BY <2>1, <2>6, NarratedBefore
    <3>2. Due(i, q, lost') = D \cup {n + 1} /\ id = q.context.gateway
      BY <1>2, <1>4, <2>6, <2>u DEF Tells
    <3> HIDE DEF T, q, r, n, m, D
    <3>3. /\ Cardinality(T \cup {m + 1}) = Cardinality(D \cup {n + 1})
          /\ \A k \in T \cup {m + 1}, l \in D \cup {n + 1} :
               Place(T \cup {m + 1}, k) = Place(D \cup {n + 1}, l) =>
                   \/ k \in T /\ l \in D /\ Place(T, k) = Place(D, l)
                   \/ k = m + 1 /\ l = n + 1
      <4>1. /\ n \in Nat /\ D \in SUBSET (1..n) /\ m \in Nat /\ T \in SUBSET (1..m)
            /\ Cardinality(T) = Cardinality(D)
        BY <1>2, <2>1, <2>3, <3>1
      <4> QED
        BY <4>1, PlacesMatch
    <3>4. \A k \in T : log'[active][k] = log[active][k]
      BY <2>1, <2>3
    <3>5. ASSUME NEW k \in Told2(i), NEW l \in Due(i, q, lost'),
                 Place(Told2(i), k) = Place(Due(i, q, lost'), l)
          PROVE  log'[active][k].point = q.passed[l]
      <4>1. \/ k \in T /\ l \in D /\ Place(T, k) = Place(D, l)
            \/ k = m + 1 /\ l = n + 1
        <5>1. Told2(i) = T \cup {m + 1} /\ Due(i, q, lost') = D \cup {n + 1}
          BY <2>3, <3>2
        <5>2. /\ k \in T \cup {m + 1} /\ l \in D \cup {n + 1}
              /\ Place(T \cup {m + 1}, k) = Place(D \cup {n + 1}, l)
          BY <3>5, <5>1
        <5> QED
          BY <3>3, <5>2
      <4>2. CASE k \in T /\ l \in D /\ Place(T, k) = Place(D, l)
        BY <1>2, <3>1, <3>4, <4>2
      <4>3. CASE k = m + 1 /\ l = n + 1
        BY <1>2, <2>2, <4>3
      <4> QED
        BY <4>1, <4>2, <4>3
    <3>6. \A k \in Told2(i) : log'[active][k].correlation = q.context.gateway
      BY <2>2, <2>3, <3>1, <3>2, <3>4
    <3>7. Cardinality(Told2(i)) = Cardinality(Due(i, q, lost'))
      BY <2>3, <3>2, <3>3
    <3> QED
      BY <2>6, <3>5, <3>6, <3>7 DEF Narrated, q
  <2> QED
    BY <2>5, <2>6
<1> QED
  BY <1>3, <1>4, WrittenOrLost

LEMMA NarrativeInit == Init => NarrativeInv
<1> SUFFICES ASSUME Init PROVE NarrativeInv
  OBVIOUS
<1>1. /\ started = 0 /\ active = 0 /\ log = [s \in 1..MaxSessions |-> <<>>]
      /\ request = <<>> /\ lost = {} /\ MaxSessions \in Nat
  BY GatewayAssumption DEF Init, Recorder!RecorderInit
<1>2. RecorderTyped
  BY <1>1, EmptySeq DEF RecorderTyped
<1>3. EventsKnown
  BY <1>1 DEF EventsKnown
<1>4. DOMAIN request = {}
  BY <1>1
<1> QED
  BY <1>1, <1>2, <1>3, <1>4 DEF NarrativeInv, WholeNarrative, LostPast

(* A step that may tell. *)
LEMMA NarrativeStep ==
    ASSUME NarrativeInv, NEW i, NEW p, NEW id, Passes(i, p), UnderOne(request[i])',
           \/ /\ UNCHANGED recorderVars
              /\ request'[i].under # 0 /\ request'[i].under = active => p.phase \in Silent
           \/ /\ Tells(i, p, id)
              /\ request'[i].under = active => id = request'[i].context.gateway,
           request'[i].under # 0 /\ request'[i].under = active =>
               \/ request[i].passed = <<>>
               \/ request[i].under = active /\ request'[i].context.gateway = request[i].context.gateway
    PROVE  NarrativeInv'
<1>1. i \in Nat /\ p \in Points
  BY DEF Passes, Ahead
<1>2. RecorderTyped' /\ active' = active /\ started' = started
  <2>1. CASE UNCHANGED recorderVars \/ Loses(i)
    BY <2>1 DEF NarrativeInv, RecorderTyped, recorderVars, Loses
  <2>2. CASE Tells(i, p, id) /\ Written(i, p, id)
    BY <1>1, <2>2, LogAfterTelling DEF NarrativeInv
  <2> QED
    BY <2>1, <2>2, WrittenOrLost
<1>3. EventsKnown'
  BY EventsAfter DEF NarrativeInv, recorderVars
<1>4. WholeNarrative'
  BY NarrativeAfter
<1>l. LostPast'
  <2>1. lost' \subseteq lost \cup {<<i, Len(request[i].passed) + 1>>}
    BY WrittenOrLost DEF recorderVars, Written, Loses
  <2> QED
    BY <2>1, LostAfter DEF NarrativeInv
<1>5. ASSUME NEW j \in DOMAIN request'
      PROVE  /\ RequestTyped(request[j])' /\ NotedEntered(request[j])'
             /\ OneContext(request[j])' /\ UnderOne(request[j])'
  <2>1. CASE j = i
    BY <2>1 DEF Passes
  <2>2. CASE j # i
    <3>1. request'[j] = request[j] /\ j \in DOMAIN request
      BY <2>2 DEF Passes
    <3>2. RequestTyped(request[j]) /\ NotedEntered(request[j]) /\ OneContext(request[j]) /\ UnderOne(request[j])
      BY <3>1 DEF NarrativeInv
    <3> QED
      BY <1>2, <3>1, <3>2 DEF RequestTyped, NotedEntered, OneContext, UnderOne
  <2> QED
    BY <2>1, <2>2
<1> QED
  BY <1>2, <1>3, <1>4, <1>5, <1>l DEF NarrativeInv

(* A step after which no request has been under the active session. *)
LEMMA TurningStep ==
    ASSUME NarrativeInv, NEW i, NEW p, Passes(i, p), UNCHANGED <<log, lost>>,
           started' \in Nat, started <= started', started' <= MaxSessions,
           active' \in 0..started', active' = 0 \/ active' > started,
           request'[i].under = request[i].under
    PROVE  NarrativeInv'
<1>1. RecorderTyped' /\ started \in Nat
  BY DEF NarrativeInv, RecorderTyped
<1>2. EventsKnown'
  BY EventsAfter DEF NarrativeInv
<1>3. ASSUME NEW j \in DOMAIN request'
      PROVE  j \in DOMAIN request /\ request'[j].under = request[j].under
             /\ request'[j].under \in 0..started /\ ~ (request'[j].under # 0 /\ request'[j].under = active')
  <2>1. j \in DOMAIN request /\ request'[j].under = request[j].under
    BY DEF Passes
  <2>2. request[j].under \in 0..started
    BY <2>1 DEF NarrativeInv, RequestTyped
  <2> QED
    BY <1>1, <2>1, <2>2
<1>4. WholeNarrative'
  BY <1>3, WholeIsNarrated
<1>l. LostPast'
  BY LostAfter DEF NarrativeInv
<1>5. ASSUME NEW j \in DOMAIN request'
      PROVE  /\ RequestTyped(request[j])' /\ NotedEntered(request[j])'
             /\ OneContext(request[j])' /\ UnderOne(request[j])'
  <2>1. UnderOne(request[j])'
    BY <1>3 DEF UnderOne
  <2>2. CASE j = i
    BY <2>1, <2>2 DEF Passes
  <2>3. CASE j # i
    <3>1. request'[j] = request[j] /\ j \in DOMAIN request
      BY <2>3 DEF Passes
    <3>2. RequestTyped(request[j]) /\ NotedEntered(request[j]) /\ OneContext(request[j])
      BY <3>1 DEF NarrativeInv
    <3>3. 0..started \subseteq 0..started'
      BY <1>1
    <3> QED
      BY <2>1, <3>1, <3>2, <3>3 DEF RequestTyped, NotedEntered, OneContext
  <2> QED
    BY <2>2, <2>3
<1> QED
  BY <1>1, <1>2, <1>4, <1>5, <1>l DEF NarrativeInv

(* A request and its ids. *)
LEMMA RequestIds ==
    ASSUME GatewayInv, NarrativeInv, NEW i \in DOMAIN request
    PROVE  /\ i \in Nat /\ i # 0
           /\ DOMAIN request[i] = Fields
           /\ request[i].context \in [Components -> Ids]
           /\ request[i].passed \in Seq(Points) /\ request[i].kind \in Kinds
           /\ request[i].noted \subseteq {"application", "seshat"}
           /\ request[i].under \in 0..started
           /\ None \in Ids /\ NewId(i) \in Ids /\ NewId(i) # None
           /\ Len(request[i].passed) = 0 => NewId(i) = <<i, 1>> /\ request[i].passed = <<>>
<1>1. DOMAIN request = 1..Len(request) /\ Len(request) \in Nat /\ DOMAIN request[i] = Fields
  BY LenProperties DEF GatewayInv, RequestsTyped
<1>2. i \in Nat /\ i # 0
  BY <1>1
<1>3. RequestTyped(request[i])
  BY DEF NarrativeInv
<1>4. Len(request[i].passed) \in Nat
  BY <1>3 DEF RequestTyped
<1>5. None \in Ids /\ NewId(i) \in Ids /\ NewId(i) # None
  BY <1>2, <1>4 DEF None, NewId, Ids
<1>6. Len(request[i].passed) = 0 => NewId(i) = <<i, 1>> /\ request[i].passed = <<>>
  BY <1>3, EmptySeq DEF NewId, RequestTyped
<1> QED
  BY <1>1, <1>2, <1>3, <1>5, <1>6 DEF RequestTyped

LEMMA AuthenticateNarrative ==
    ASSUME GatewayInv, NarrativeInv, NEW i \in DOMAIN request, Authenticate(i)
    PROVE  NarrativeInv'
<1> DEFINE r  == request[i]
           ok == r.cookie \in DOMAIN sessions /\ now - sessions[r.cookie] <= Idle
           p  == Point("gateway", IF ok THEN "authenticate" ELSE "validation")
           given == IF active = 0 THEN None ELSE NewId(i)
<1>1. p.by = "gateway" /\ p.phase = IF ok THEN "authenticate" ELSE "validation"
  BY DEF Point
<1>2. Ahead(r, p)
  BY RequestIds, OnwardIsAhead DEF Authenticate, At
<1>3. Len(r.passed) = 0 /\ r.passed = <<>> /\ NewId(i) = <<i, 1>>
  BY <1>1, <1>2, RequestIds DEF Ahead, First
<1>4. /\ DOMAIN request' = DOMAIN request
      /\ \A j \in DOMAIN request : j # i => request'[j] = request[j]
      /\ request'[i].kind = r.kind /\ request'[i].passed = Append(r.passed, p)
      /\ request'[i].context = [r.context EXCEPT !.gateway = given]
      /\ request'[i].noted = r.noted /\ request'[i].under = active
  BY RequestIds DEF Authenticate, Passed, Fields
<1>5. IF ok THEN UNCHANGED recorderVars ELSE Tell(i, p, NewId(i))
  BY DEF Authenticate
<1> HIDE DEF r, ok, p
<1>6. /\ request'[i].context \in [Components -> Ids] /\ request'[i].context.gateway = given
      /\ \A by \in {"application", "seshat"} : request'[i].context[by] = r.context[by]
  BY <1>4, RequestIds DEF r, Components
<1>7. \A by : ~ Entered(r.passed, 0, by)
  BY <1>2, <1>3 DEF Ahead
<1>8. \A by : ~ Entered(request'[i].passed, 1, by)
  <2>1. p.phase \notin Entering
    BY <1>1 DEF Entering
  <2> QED
    BY <1>2, <1>3, <1>4, <1>7, <2>1 DEF Ahead
<1>9. Len(request'[i].passed) = 1
  BY <1>2, <1>3, <1>4 DEF Ahead
<1>10. r.noted = {}
  <2>1. NotedEntered(r)
    BY DEF NarrativeInv, r
  <2> QED
    BY <1>3, <1>7, <2>1 DEF NotedEntered
<1>11. active' = active /\ started' = started /\ active \in 0..started
  BY <1>5 DEF NarrativeInv, RecorderTyped, Tell, Recorder!Add, recorderVars
<1>12. RequestTyped(request[i])'
  <2>1. /\ Append(r.passed, p) \in Seq(Points)
        /\ \E way \in Ways(r.kind) : IsPrefix(Append(r.passed, p), way)
    BY <1>2 DEF Ahead
  <2>2. r.kind \in Kinds
    BY RequestIds DEF r
  <2>3. active \in 0..started'
    BY <1>11
  <2> QED
    BY <1>4, <1>6, <1>10, <2>1, <2>2, <2>3 DEF RequestTyped
<1>13. NotedEntered(request[i])' /\ OneContext(request[i])' /\ UnderOne(request[i])'
  BY <1>4, <1>6, <1>8, <1>9, <1>10, <1>11, RequestIds DEF NotedEntered, OneContext, UnderOne
<1>14. Passes(i, p)
  BY <1>2, <1>3, <1>4, <1>12, <1>13, RequestIds DEF Passes, r
<1>15. CASE ok
  <2>1. UNCHANGED recorderVars /\ p.phase \in Silent
    BY <1>1, <1>5, <1>15 DEF Silent
  <2> QED
    BY <1>3, <1>13, <1>14, <2>1, NarrativeStep DEF r
<1>16. CASE ~ ok /\ active = 0
  <2>1. UNCHANGED recorderVars
    BY <1>5, <1>16 DEF Tell
  <2> QED
    BY <1>3, <1>4, <1>13, <1>14, <1>16, <2>1, NarrativeStep DEF r
<1>17. CASE ~ ok /\ active # 0
  <2>1. p.phase = "validation" /\ p.phase \notin Silent
    BY <1>1, <1>17 DEF Silent
  <2>2. Tells(i, p, NewId(i)) /\ NewId(i) = request'[i].context.gateway
    BY <1>3, <1>5, <1>6, <1>17, <2>1, RequestIds DEF Tells, r
  <2> QED
    BY <1>3, <1>13, <1>14, <2>2, NarrativeStep DEF r
<1> QED
  BY <1>15, <1>16, <1>17

LEMMA BootstrapNarrative ==
    ASSUME GatewayInv, NarrativeInv, NEW i \in DOMAIN request, Bootstrap(i)
    PROVE  NarrativeInv'
<1> DEFINE r == request[i]
           p == Point("gateway", "bootstrap")
<1>1. p.by = "gateway" /\ p.phase = "bootstrap"
  BY DEF Point
<1>2. Ahead(r, p)
  BY RequestIds, OnwardIsAhead DEF Bootstrap, At
<1>3. Len(r.passed) = 0 /\ r.passed = <<>>
  BY <1>1, <1>2, RequestIds DEF Ahead, First
<1>4. /\ DOMAIN request' = DOMAIN request
      /\ \A j \in DOMAIN request : j # i => request'[j] = request[j]
      /\ request'[i].kind = r.kind /\ request'[i].passed = Append(r.passed, p)
      /\ request'[i].context = r.context
      /\ request'[i].noted = r.noted /\ request'[i].under = r.under
  BY RequestIds DEF Bootstrap, Passed, Fields
<1>5. UNCHANGED recorderVars
  BY DEF Bootstrap
<1> HIDE DEF r, p
<1>6. \A by : ~ Entered(r.passed, 0, by)
  BY <1>2, <1>3 DEF Ahead
<1>7. \A by : ~ Entered(request'[i].passed, 1, by)
  <2>1. p.phase \notin Entering
    BY <1>1 DEF Entering
  <2> QED
    BY <1>2, <1>3, <1>4, <1>6, <2>1 DEF Ahead
<1>8. Len(request'[i].passed) = 1
  BY <1>2, <1>3, <1>4 DEF Ahead
<1>9. r.noted = {} /\ ~ (r.under # 0 /\ r.under = active)
  <2>1. NotedEntered(r) /\ UnderOne(r)
    BY DEF NarrativeInv, r
  <2> QED
    BY <1>3, <1>6, <2>1 DEF NotedEntered, UnderOne
<1>10. active' = active /\ started' = started
  BY <1>5 DEF recorderVars
<1>11. RequestTyped(request[i])'
  BY <1>2, <1>4, <1>10, RequestIds DEF RequestTyped, Ahead, r
<1>12. NotedEntered(request[i])' /\ OneContext(request[i])' /\ UnderOne(request[i])'
  BY <1>4, <1>7, <1>8, <1>9, <1>10 DEF NotedEntered, OneContext, UnderOne
<1>13. Passes(i, p)
  BY <1>2, <1>3, <1>4, <1>11, <1>12, RequestIds DEF Passes, r
<1> QED
  BY <1>3, <1>4, <1>5, <1>9, <1>12, <1>13, NarrativeStep DEF r

(* What a step does that changes at most the contexts of its request, and  *)
(* what the components have noted.                                         *)
Continues(i, p, id) ==
    LET r == request[i] q == request'[i] IN
    /\ Ahead(r, p) /\ Len(r.passed) > 0 /\ id \in Ids
    /\ DOMAIN request' = DOMAIN request
    /\ \A j \in DOMAIN request : j # i => request'[j] = request[j]
    /\ q.kind = r.kind /\ q.passed = Append(r.passed, p) /\ q.under = r.under
    /\ q.context \in [Components -> Ids]
    /\ q.noted \subseteq {"application", "seshat"}
    /\ r.context.gateway # None => q.context.gateway = r.context.gateway
    /\ r.kind # "view" => q.context.gateway # None
    /\ \A by \in {"application", "seshat"} :
         \/ q.context[by] = r.context[by] /\ (by \in q.noted <=> by \in r.noted)
            /\ ~ (p.by = by /\ p.phase \in Entering)
         \/ p.by = by /\ p.phase \in Entering
            /\ (r.kind # "view" \/ (r.under # 0 /\ r.under = active) => q.context[by] = q.context.gateway)
            /\ (active # 0 => by \in q.noted)

LEMMA ContinuesPasses ==
    ASSUME GatewayInv, NarrativeInv, NEW i \in DOMAIN request, NEW p, NEW id, Continues(i, p, id),
           started' \in Nat, started <= started'
    PROVE  Passes(i, p) /\ (active' = active => UnderOne(request[i])')
<1> DEFINE r == request[i]
           q == request'[i]
           n == Len(r.passed)
<1>1. NotedEntered(r) /\ OneContext(r) /\ UnderOne(r) /\ RequestTyped(r)
  BY DEF NarrativeInv
<1>2. Ahead(r, p) /\ n > 0 /\ n \in Nat /\ Len(q.passed) = n + 1
  BY DEF Continues, Ahead
<1>3. \A by : Entered(q.passed, Len(q.passed), by) <=> Entered(r.passed, n, by) \/ (p.by = by /\ p.phase \in Entering)
  BY <1>2 DEF Continues, Ahead
<1>4. \A by : Entered(r.passed, n, by) => n > 1
  BY <1>2 DEF Ahead
<1>5. RequestTyped(request[i])'
  <2>1. 0..started \subseteq 0..started'
    BY DEF NarrativeInv, RecorderTyped
  <2> QED
    BY <1>1, <1>2, <2>1 DEF Continues, Ahead, RequestTyped
<1> HIDE DEF n
<1>6. NotedEntered(request[i])'
  BY <1>1, <1>3 DEF Continues, NotedEntered, n
<1>7. n > 1 /\ r.kind # "view" => q.context.gateway = r.context.gateway
  BY <1>1 DEF Continues, OneContext, n
<1>8. OneContext(request[i])'
  <2> SUFFICES ASSUME q.kind # "view"
               PROVE  /\ q.context.gateway # None
                      /\ \A by \in {"application", "seshat"} :
                           Entered(q.passed, Len(q.passed), by) => q.context[by] = q.context.gateway
    BY DEF OneContext
  <2>1. r.kind # "view" /\ q.context.gateway # None
    BY DEF Continues
  <2>2. ASSUME NEW by \in {"application", "seshat"}, Entered(q.passed, Len(q.passed), by)
        PROVE  q.context[by] = q.context.gateway
    <3>1. CASE p.by = by /\ p.phase \in Entering
      BY <2>1, <3>1 DEF Continues
    <3>2. CASE ~ (p.by = by /\ p.phase \in Entering)
      <4>1. Entered(r.passed, n, by) /\ q.context[by] = r.context[by]
        BY <1>3, <2>2, <3>2 DEF Continues
      <4> QED
        BY <1>1, <1>4, <1>7, <2>1, <4>1 DEF OneContext, n
    <3> QED
      BY <3>1, <3>2
  <2> QED
    BY <2>1, <2>2
<1>9. Passes(i, p)
  BY <1>2, <1>5, <1>6, <1>7, <1>8, RequestIds DEF Continues, Passes, n
<1>10. ASSUME active' = active PROVE UnderOne(request[i])'
  <2> SUFFICES ASSUME q.under # 0, q.under = active
               PROVE  /\ Len(q.passed) > 0 /\ q.context.gateway # None
                      /\ \A by \in {"application", "seshat"} :
                           Entered(q.passed, Len(q.passed), by)
                               => by \in q.noted /\ q.context[by] = q.context.gateway
    BY <1>10 DEF UnderOne
  <2>1. r.under # 0 /\ r.under = active
    BY DEF Continues
  <2>2. q.context.gateway # None /\ q.context.gateway = r.context.gateway
    BY <1>1, <2>1 DEF Continues, UnderOne
  <2>3. ASSUME NEW by \in {"application", "seshat"}, Entered(q.passed, Len(q.passed), by)
        PROVE  by \in q.noted /\ q.context[by] = q.context.gateway
    <3>1. CASE p.by = by /\ p.phase \in Entering
      BY <2>1, <3>1 DEF Continues
    <3>2. CASE ~ (p.by = by /\ p.phase \in Entering)
      <4>1. Entered(r.passed, n, by) /\ q.context[by] = r.context[by] /\ (by \in q.noted <=> by \in r.noted)
        BY <1>3, <2>3, <3>2 DEF Continues
      <4> QED
        BY <1>1, <2>1, <2>2, <4>1 DEF UnderOne, n
    <3> QED
      BY <3>1, <3>2
  <2>4. Len(q.passed) > 0
    BY <1>2
  <2> QED
    BY <2>2, <2>3, <2>4
<1> QED
  BY <1>9, <1>10

LEMMA ContinuesKeeps ==
    ASSUME GatewayInv, NarrativeInv, NEW i \in DOMAIN request, NEW p, NEW id, Continues(i, p, id),
           \/ /\ UNCHANGED recorderVars
              /\ request[i].under # 0 /\ request[i].under = active => p.phase \in Silent
           \/ /\ active # 0 /\ Tell(i, p, id)
              /\ p.phase \notin Silent
              /\ request[i].kind # "view" \/ request[i].under = active
                   => id = request'[i].context.gateway
    PROVE  NarrativeInv'
<1>1. started' = started /\ active' = active /\ started \in Nat
  BY DEF NarrativeInv, RecorderTyped, recorderVars, Tell, Recorder!Add
<1>2. Passes(i, p) /\ UnderOne(request[i])'
  BY <1>1, ContinuesPasses
<1>3. request'[i].under = request[i].under /\ Len(request[i].passed) > 0 /\ id \in Ids
  BY DEF Continues
<1>4. request'[i].under # 0 /\ request'[i].under = active =>
         request[i].under = active /\ request'[i].context.gateway = request[i].context.gateway
  BY <1>3 DEF Continues, NarrativeInv, UnderOne
<1>5. CASE /\ UNCHANGED recorderVars
           /\ request[i].under # 0 /\ request[i].under = active => p.phase \in Silent
  BY <1>2, <1>3, <1>4, <1>5, NarrativeStep
<1>6. CASE /\ active # 0 /\ Tell(i, p, id)
           /\ p.phase \notin Silent
           /\ request[i].kind # "view" \/ request[i].under = active
                => id = request'[i].context.gateway
  <2>1. Len(request[i].passed) # 0
    BY <1>3
  <2>2. Tells(i, p, id) /\ (request'[i].under = active => id = request'[i].context.gateway)
    BY <1>3, <1>6, <2>1 DEF Tells
  <2> QED
    BY <1>2, <1>4, <2>2, NarrativeStep
<1> QED
  BY <1>5, <1>6

(* What is known of a request before a point that is not its first: of an  *)
(* action, but a view, or of any request under the active session.         *)
LEMMA Continuing ==
    ASSUME GatewayInv, NarrativeInv, NEW i \in DOMAIN request, NEW p, Ahead(request[i], p),
           p.phase \notin First
    PROVE  LET r == request[i] n == Len(r.passed) IN
           /\ n > 0
           /\ r.kind # "view" /\ ~ (p.by = "gateway" /\ p.phase \in Second) =>
                /\ r.context.gateway # None
                /\ \A by \in {"application", "seshat"} :
                     Entered(r.passed, n, by) => r.context[by] = r.context.gateway
           /\ r.under # 0 /\ r.under = active =>
                /\ r.context.gateway # None
                /\ \A by \in {"application", "seshat"} :
                     Entered(r.passed, n, by) => by \in r.noted /\ r.context[by] = r.context.gateway
           /\ \A by \in r.noted : Entered(r.passed, n, by)
<1> DEFINE r == request[i]
           n == Len(r.passed)
<1>1. n \in Nat /\ n # 0
  BY DEF Ahead
<1>2. n > 0
  BY <1>1
<1>3. NotedEntered(r) /\ OneContext(r) /\ UnderOne(r)
  BY DEF NarrativeInv
<1>4. r.kind # "view" /\ ~ (p.by = "gateway" /\ p.phase \in Second) => n > 1
  <2>1. r.kind # "view" /\ ~ (p.by = "gateway" /\ p.phase \in Second) => n # 1
    BY DEF Ahead
  <2> HIDE DEF n, r
  <2> QED
    BY <1>1, <2>1
<1> QED
  BY <1>2, <1>3, <1>4 DEF NotedEntered, OneContext, UnderOne

LEMMA EnterNarrative ==
    ASSUME GatewayInv, NarrativeInv, NEW i \in DOMAIN request, NEW p \in Onward(request[i]), Enter(i, p)
    PROVE  NarrativeInv'
<1> DEFINE r  == request[i]
           id == IF active = 0 THEN Inherited(i, p.by) ELSE Ensure(Inherited(i, p.by), NewId(i))
<1>1. Ahead(r, p)
  BY RequestIds, OnwardIsAhead
<1>2. p.phase \in Entering /\ p.phase \notin First /\ p.phase \notin Second
  BY DEF Enter, Entering, First, Second
<1>3. p.by \in {"application", "seshat"} /\ p.by # "gateway"
  BY <1>1, <1>2, PointFacts DEF Ahead
<1>4. /\ DOMAIN request' = DOMAIN request
      /\ \A j \in DOMAIN request : j # i => request'[j] = request[j]
      /\ request'[i].kind = r.kind /\ request'[i].passed = Append(r.passed, p)
      /\ request'[i].context = [r.context EXCEPT ![p.by] = id]
      /\ request'[i].noted = (IF active = 0 THEN r.noted \ {p.by} ELSE r.noted \cup {p.by})
      /\ request'[i].under = r.under
  BY RequestIds DEF Enter, Passed, Fields
<1>5. Inherited(i, p.by) \in Ids /\ id \in Ids
  BY <1>3, RequestIds DEF Inherited, Outer, Ensure, Components
<1>6. Len(r.passed) > 0
  BY <1>1, <1>2, Continuing
<1>7. ASSUME r.kind # "view" \/ (r.under # 0 /\ r.under = active)
      PROVE  id = r.context.gateway /\ r.context.gateway # None
  <2>1. /\ r.context.gateway # None
        /\ Entered(r.passed, Len(r.passed), "application") => r.context["application"] = r.context.gateway
    BY <1>1, <1>2, <1>3, <1>7, Continuing
  <2>2. CASE p.by = "application"
    BY <2>1, <2>2 DEF Inherited, Outer, Ensure
  <2>3. CASE p.by = "seshat"
    <3>1. Entered(r.passed, Len(r.passed), "application")
      BY <1>1, <2>3 DEF Ahead
    <3> QED
      BY <2>1, <2>3, <3>1 DEF Inherited, Outer, Ensure
  <2> QED
    BY <1>3, <2>2, <2>3
<1> HIDE DEF id, r
<1>8. /\ request'[i].context \in [Components -> Ids] /\ request'[i].context[p.by] = id
      /\ request'[i].context.gateway = r.context.gateway
      /\ \A by \in {"application", "seshat"} : by # p.by => request'[i].context[by] = r.context[by]
  BY <1>3, <1>4, <1>5, RequestIds DEF Components, r
<1>9. Continues(i, p, id)
  <2>1. ASSUME NEW by \in {"application", "seshat"}, by # p.by
        PROVE  /\ request'[i].context[by] = r.context[by]
               /\ by \in request'[i].noted <=> by \in r.noted
    BY <1>4, <1>8, <2>1
  <2>2. /\ r.kind # "view" \/ (r.under # 0 /\ r.under = active)
             => request'[i].context[p.by] = request'[i].context.gateway
        /\ active # 0 => p.by \in request'[i].noted
        /\ r.kind # "view" => request'[i].context.gateway # None
    BY <1>4, <1>7, <1>8
  <2>3. request'[i].noted \subseteq {"application", "seshat"}
    BY <1>3, <1>4, RequestIds DEF r
  <2> QED
    BY <1>1, <1>2, <1>4, <1>5, <1>6, <1>8, <2>1, <2>2, <2>3 DEF Continues, r
<1>10. IF p.phase = "enter" THEN UNCHANGED recorderVars ELSE Tell(i, p, id)
  BY DEF Enter, id
<1>11. CASE p.phase = "enter"
  BY <1>9, <1>10, <1>11, ContinuesKeeps DEF Silent
<1>12. CASE p.phase # "enter" /\ active = 0
  BY <1>9, <1>10, <1>12, ContinuesKeeps DEF Tell
<1>13. CASE p.phase # "enter" /\ active # 0
  <2>1. Tell(i, p, id)
    BY <1>10, <1>13
  <2>2. p.phase \notin Silent
    BY <1>2, <1>13 DEF Entering, Silent
  <2>3. r.kind # "view" \/ r.under = active => id = request'[i].context.gateway
    BY <1>7, <1>8, <1>13
  <2> QED
    BY <1>9, <1>13, <2>1, <2>2, <2>3, ContinuesKeeps DEF r
<1> QED
  BY <1>11, <1>12, <1>13

(* A step that leaves the contexts alone. *)
LEMMA ContextsStay ==
    ASSUME GatewayInv, NarrativeInv, NEW i \in DOMAIN request, NEW p, NEW id \in Ids,
           Ahead(request[i], p), p.phase \notin First \cup Second \cup Entering,
           request' = [request EXCEPT ![i].passed = Passed(i, p)]
    PROVE  /\ Continues(i, p, id) /\ request'[i].under = request[i].under
           /\ request'[i].context = request[i].context
<1> DEFINE r == request[i]
<1>1. /\ DOMAIN request' = DOMAIN request
      /\ \A j \in DOMAIN request : j # i => request'[j] = request[j]
      /\ request'[i].kind = r.kind /\ request'[i].passed = Append(r.passed, p)
      /\ request'[i].context = r.context /\ request'[i].noted = r.noted
      /\ request'[i].under = r.under
  BY RequestIds DEF Passed, Fields
<1>2. Len(r.passed) > 0 /\ (r.kind # "view" => r.context.gateway # None)
  BY Continuing
<1> HIDE DEF r
<1> QED
  BY <1>1, <1>2, RequestIds DEF Continues, r

LEMMA LeaveNarrative ==
    ASSUME GatewayInv, NarrativeInv, NEW i \in DOMAIN request, NEW p \in Onward(request[i]), Leave(i, p)
    PROVE  NarrativeInv'
<1> DEFINE r  == request[i]
           id == r.context[p.by]
<1>1. Ahead(r, p) /\ p \in Points
  <2>1. Ahead(r, p)
    BY RequestIds, OnwardIsAhead
  <2> QED
    BY <2>1 DEF Ahead
<1>2. /\ p.by \in {"application", "seshat"} /\ p.phase \in {"result", "decision"}
      /\ p.phase \notin First \cup Second \cup Entering /\ p.phase \notin Silent
  BY DEF Leave, Entering, First, Second, Silent
<1>3. id \in Ids
  BY <1>2, RequestIds DEF Components
<1>4. Entered(r.passed, Len(r.passed), p.by)
  <2>1. CASE p.by = "application"
    <3>1. p = Point("application", "result")
      BY <1>1, <1>2, <2>1, PointFacts
    <3> QED
      BY <1>1, <2>1, <3>1 DEF Ahead
  <2>2. CASE p.by = "seshat"
    <3>1. p = Point("seshat", "decision")
      BY <1>1, <1>2, <2>2, PointFacts
    <3> QED
      BY <1>1, <2>2, <3>1 DEF Ahead
  <2> QED
    BY <1>2, <2>1, <2>2
<1>5. /\ r.kind # "view" => id = r.context.gateway
      /\ r.under # 0 /\ r.under = active => id = r.context.gateway /\ p.by \in r.noted
  BY <1>1, <1>2, <1>4, Continuing
<1>6. /\ request' = [request EXCEPT ![i].passed = Passed(i, p)]
      /\ IF p.by \in r.noted THEN Tell(i, p, id) ELSE UNCHANGED recorderVars
  BY DEF Leave
<1> HIDE DEF id, r
<1>7. /\ Continues(i, p, id) /\ request'[i].under = r.under /\ request'[i].context = r.context
  BY <1>1, <1>2, <1>3, <1>6, ContextsStay DEF r
<1>8. CASE p.by \in r.noted /\ active # 0
  <2>1. Tell(i, p, id)
    BY <1>6, <1>8
  <2> QED
    BY <1>2, <1>5, <1>7, <1>8, <2>1, ContinuesKeeps DEF r
<1>9. CASE ~ (p.by \in r.noted /\ active # 0)
  <2>1. UNCHANGED recorderVars /\ ~ (r.under # 0 /\ r.under = active)
    BY <1>5, <1>6, <1>9 DEF Tell
  <2> QED
    BY <1>7, <2>1, ContinuesKeeps DEF r
<1> QED
  BY <1>8, <1>9

LEMMA NoteNarrative ==
    ASSUME GatewayInv, NarrativeInv, NEW i \in DOMAIN request, NEW p \in Onward(request[i]), Note(i, p)
    PROVE  NarrativeInv'
<1> DEFINE r  == request[i]
           id == Ensure(r.context.application, NewId(i))
<1>1. Ahead(r, p) /\ p \in Points /\ p.by \in {"provider", "observer"}
  <2>1. Ahead(r, p)
    BY RequestIds, OnwardIsAhead
  <2> QED
    BY <2>1 DEF Ahead, Note
<1>2. p.phase \notin First \cup Second \cup Entering /\ p.phase \notin Silent
  <2>1. p.phase \in {"root.probe", "before_scan", "after_scan", "result"}
    BY <1>1, PointFacts
  <2> QED
    BY <2>1 DEF Entering, First, Second, Silent
<1>3. id \in Ids
  BY RequestIds DEF Components, Ensure
<1>4. /\ r.kind # "view" => id = r.context.gateway
      /\ r.under # 0 /\ r.under = active => id = r.context.gateway
  <2>1. Entered(r.passed, Len(r.passed), "application") /\ p.by # "gateway"
    BY <1>1 DEF Ahead
  <2>2. r.kind # "view" \/ (r.under # 0 /\ r.under = active) =>
           r.context["application"] = r.context.gateway /\ r.context.gateway # None
    BY <1>1, <1>2, <2>1, Continuing
  <2> QED
    BY <2>2 DEF Ensure
<1>5. /\ request' = [request EXCEPT ![i].passed = Passed(i, p)]
      /\ Tell(i, p, id)
  BY DEF Note
<1> HIDE DEF id, r
<1>6. /\ Continues(i, p, id) /\ request'[i].under = r.under /\ request'[i].context = r.context
  BY <1>1, <1>2, <1>3, <1>5, ContextsStay DEF r
<1>7. CASE active # 0
  <2> QED
    BY <1>2, <1>4, <1>5, <1>6, <1>7, ContinuesKeeps DEF r
<1>8. CASE active = 0
  <2>1. UNCHANGED recorderVars
    BY <1>5, <1>8 DEF Tell
  <2> QED
    BY <1>6, <1>8, <2>1, ContinuesKeeps DEF r
<1> QED
  BY <1>7, <1>8

LEMMA ReportNarrative ==
    ASSUME GatewayInv, NarrativeInv, NEW i \in DOMAIN request, NEW p \in Onward(request[i]), Report(i, p)
    PROVE  NarrativeInv'
<1> DEFINE r  == request[i]
           id == Ensure(r.context.gateway, NewId(i))
           given == IF p.phase \in Handlers THEN id ELSE r.context.gateway
<1>1. Ahead(r, p)
  BY RequestIds, OnwardIsAhead
<1>2. /\ p.by = "gateway" /\ p.phase \notin First \cup Entering /\ p.phase \notin Silent
      /\ p.phase \in Second => p.phase \in Handlers
  BY DEF Report, Entering, First, Second, Silent, Handlers
<1>3. /\ DOMAIN request' = DOMAIN request
      /\ \A j \in DOMAIN request : j # i => request'[j] = request[j]
      /\ request'[i].kind = r.kind /\ request'[i].passed = Append(r.passed, p)
      /\ request'[i].context = [r.context EXCEPT !.gateway = given]
      /\ request'[i].noted = r.noted /\ request'[i].under = r.under
  BY RequestIds DEF Report, Passed, Fields
<1>4. r.context.gateway \in Ids /\ id \in Ids /\ id # None /\ given \in Ids
      /\ (r.context.gateway # None => id = r.context.gateway /\ given = r.context.gateway)
  BY RequestIds DEF Components, Ensure
<1>5. /\ Len(r.passed) > 0
      /\ r.kind # "view" /\ p.phase \notin Second => r.context.gateway # None
      /\ r.under # 0 /\ r.under = active => r.context.gateway # None
  BY <1>1, <1>2, Continuing
<1>6. Tell(i, p, id)
  BY DEF Report
<1>7. r.kind # "view" \/ (r.under # 0 /\ r.under = active) => id = given /\ given # None
  BY <1>2, <1>4, <1>5
<1> HIDE DEF id, r, given
<1>8. /\ request'[i].context \in [Components -> Ids] /\ request'[i].context.gateway = given
      /\ \A by \in {"application", "seshat"} : request'[i].context[by] = r.context[by]
  <2>1. r.context \in [Components -> Ids]
    BY RequestIds DEF r
  <2>2. {"gateway", "application", "seshat"} = Components
    BY DEF Components
  <2>3. given \in Ids /\ request'[i].context = [r.context EXCEPT !["gateway"] = given]
    BY <1>3, <1>4
  <2> HIDE DEF Components
  <2> QED
    BY <2>1, <2>2, <2>3
<1>9. Continues(i, p, id)
  BY <1>1, <1>2, <1>3, <1>4, <1>5, <1>7, <1>8, RequestIds DEF Continues, r
<1>10. CASE active # 0
  <2> QED
    BY <1>2, <1>6, <1>7, <1>8, <1>9, <1>10, ContinuesKeeps DEF r
<1>11. CASE active = 0
  <2>1. UNCHANGED recorderVars
    BY <1>6, <1>11 DEF Tell
  <2> QED
    BY <1>3, <1>9, <1>11, <2>1, ContinuesKeeps DEF r
<1> QED
  BY <1>10, <1>11

LEMMA SayNarrative ==
    ASSUME GatewayInv, NarrativeInv, NEW i \in DOMAIN request, NEW p \in Onward(request[i]), Say(i, p)
    PROVE  NarrativeInv'
BY EnterNarrative, LeaveNarrative, NoteNarrative, ReportNarrative DEF Say

LEMMA StartNarrative ==
    ASSUME GatewayInv, NarrativeInv, NEW i \in DOMAIN request, StartDebug(i)
    PROVE  NarrativeInv'
<1> DEFINE r  == request[i]
           ok == active = 0 /\ started < MaxSessions
           p  == Point("gateway", IF ok THEN "start" ELSE "start refused")
           id == Ensure(r.context.gateway, NewId(i))
<1>1. p.by = "gateway" /\ p.phase = IF ok THEN "start" ELSE "start refused"
  BY DEF Point
<1>2. Ahead(r, p)
  BY RequestIds, OnwardIsAhead DEF StartDebug, At
<1>3. /\ DOMAIN request' = DOMAIN request
      /\ \A j \in DOMAIN request : j # i => request'[j] = request[j]
      /\ request'[i].kind = r.kind /\ request'[i].passed = Append(r.passed, p)
      /\ request'[i].context = [r.context EXCEPT !.gateway = id]
      /\ request'[i].noted = r.noted /\ request'[i].under = r.under
  BY RequestIds DEF StartDebug, Passed, Fields
<1>4. IF ok THEN Recorder!Begin /\ UNCHANGED lost ELSE UNCHANGED recorderVars
  BY DEF StartDebug
<1>5. id \in Ids /\ id # None /\ (r.context.gateway # None => id = r.context.gateway)
  BY RequestIds DEF Components, Ensure
<1> HIDE DEF id, r, p
<1>6. p.phase \notin First \cup Entering
  BY <1>1 DEF First, Entering
<1>7. Len(r.passed) > 0
  BY <1>2, <1>6, Continuing DEF r
<1>8. /\ request'[i].context \in [Components -> Ids] /\ request'[i].context.gateway = id
      /\ \A by \in {"application", "seshat"} : request'[i].context[by] = r.context[by]
  <2>1. r.context \in [Components -> Ids]
    BY RequestIds DEF r
  <2>2. {"gateway", "application", "seshat"} = Components
    BY DEF Components
  <2>3. id \in Ids /\ request'[i].context = [r.context EXCEPT !["gateway"] = id]
    BY <1>3, <1>5
  <2> HIDE DEF Components
  <2> QED
    BY <2>1, <2>2, <2>3
<1>9. Continues(i, p, id)
  BY <1>1, <1>2, <1>3, <1>5, <1>6, <1>7, <1>8, RequestIds DEF Continues, r
<1>10. CASE ok
  <2>1. /\ UNCHANGED <<log, lost>> /\ started' = started + 1 /\ active' = started + 1
        /\ started \in Nat /\ MaxSessions \in Nat /\ started < MaxSessions
    BY <1>4, <1>10, GatewayAssumption DEF Recorder!Begin, NarrativeInv, RecorderTyped
  <2>2. /\ started' \in Nat /\ started <= started' /\ started' <= MaxSessions
        /\ active' \in 0..started' /\ active' > started
    BY <2>1
  <2>3. Passes(i, p)
    BY <1>9, <2>2, ContinuesPasses
  <2> QED
    BY <1>3, <2>1, <2>2, <2>3, TurningStep DEF r
<1>11. CASE ~ ok
  <2>1. UNCHANGED recorderVars /\ p.phase \in Silent
    BY <1>1, <1>4, <1>11 DEF Silent
  <2> QED
    BY <1>9, <2>1, ContinuesKeeps
<1> QED
  BY <1>10, <1>11

LEMMA StopNarrative ==
    ASSUME GatewayInv, NarrativeInv, NEW i \in DOMAIN request, StopDebug(i)
    PROVE  NarrativeInv'
<1> DEFINE r == request[i]
           p == Point("gateway", "stop")
<1>1. p.by = "gateway" /\ p.phase = "stop"
  BY DEF Point
<1>2. Ahead(r, p)
  BY RequestIds, OnwardIsAhead DEF StopDebug, At
<1>3. request' = [request EXCEPT ![i].passed = Passed(i, p)]
      /\ IF active # 0 THEN Recorder!End /\ UNCHANGED lost ELSE UNCHANGED recorderVars
  BY DEF StopDebug
<1> HIDE DEF r, p
<1>4. p.phase \notin First \cup Second \cup Entering /\ p.phase \in Silent
  BY <1>1 DEF First, Second, Entering, Silent
<1>5. Continues(i, p, None) /\ request'[i].under = request[i].under
  BY <1>2, <1>3, <1>4, RequestIds, ContextsStay DEF r
<1>6. CASE active # 0
  <2>1. UNCHANGED <<log, started, lost>> /\ active' = 0
    BY <1>3, <1>6 DEF Recorder!End
  <2>2. /\ started' \in Nat /\ started <= started' /\ started' <= MaxSessions
        /\ active' \in 0..started'
    BY <2>1 DEF NarrativeInv, RecorderTyped
  <2>3. Passes(i, p)
    BY <1>5, <2>2, ContinuesPasses
  <2> QED
    BY <1>5, <2>1, <2>2, <2>3, TurningStep
<1>7. CASE active = 0
  BY <1>3, <1>4, <1>5, <1>7, ContinuesKeeps
<1> QED
  BY <1>6, <1>7

-----------------------------------------------------------------------------
(* Steps that are no step of a request.                                    *)

(* The requests are as they were, but for their ends. *)
SameTraces ==
    /\ DOMAIN request' = DOMAIN request
    /\ \A j \in DOMAIN request :
         /\ request'[j].kind = request[j].kind /\ request'[j].passed = request[j].passed
         /\ request'[j].context = request[j].context /\ request'[j].noted = request[j].noted
         /\ request'[j].under = request[j].under

LEMMA TracesStay ==
    ASSUME NarrativeInv, SameTraces, UNCHANGED <<log, started, lost>>, active' \in {active, 0}
    PROVE  NarrativeInv'
<1>1. RecorderTyped'
  BY DEF NarrativeInv, RecorderTyped
<1>2. EventsKnown'
  <2>1. \A j \in DOMAIN request :
           /\ j \in DOMAIN request' /\ request'[j].kind = request[j].kind
           /\ ToldLate(request[j]) => ToldLate(request'[j])
           /\ IdOf(j, request'[j]) = IdOf(j, request[j])
    BY DEF SameTraces, ToldLate, IdOf
  <2>2. ASSUME NEW s \in 1..MaxSessions, NEW k \in DOMAIN log[s]
        PROVE  LET j == log[s][k].request IN
               /\ j \in DOMAIN request' /\ ToldLate(request'[j])
               /\ request'[j].kind # "view" => log[s][k].correlation = IdOf(j, request'[j])
    <3>1. LET j == log[s][k].request IN
          /\ j \in DOMAIN request /\ ToldLate(request[j])
          /\ request[j].kind # "view" => log[s][k].correlation = IdOf(j, request[j])
      BY DEF NarrativeInv, EventsKnown
    <3> QED
      BY <2>1, <3>1
  <2> QED
    BY <2>2 DEF EventsKnown
<1>3. ASSUME NEW j \in DOMAIN request'
      PROVE  /\ RequestTyped(request[j])' /\ NotedEntered(request[j])'
             /\ OneContext(request[j])' /\ UnderOne(request[j])'
  <2>1. /\ RequestTyped(request[j]) /\ NotedEntered(request[j]) /\ OneContext(request[j])
        /\ UnderOne(request[j]) /\ j \in DOMAIN request
    BY DEF NarrativeInv, SameTraces
  <2> QED
    BY <2>1 DEF SameTraces, RequestTyped, NotedEntered, OneContext, UnderOne
<1>4. WholeNarrative'
  <2> SUFFICES ASSUME NEW j \in DOMAIN request', request'[j].under # 0, request'[j].under = active'
               PROVE  Narrated(ToldIn(j, log'[active']), log'[active'],
                               Due(j, request'[j], lost'), request'[j])
    BY WholeIsNarrated
  <2>1. j \in DOMAIN request /\ request[j].under # 0 /\ request[j].under = active /\ active' = active
    BY DEF SameTraces
  <2>2. Narrated(ToldIn(j, log[active]), log[active], Due(j, request[j], lost), request[j])
    BY <2>1, WholeIsNarrated DEF NarrativeInv
  <2>3. Due(j, request'[j], lost') = Due(j, request[j], lost)
    BY <2>1 DEF SameTraces, Due, Loud
  <2> QED
    BY <2>1, <2>2, <2>3 DEF Narrated, SameTraces
<1>5. LostPast'
  BY DEF NarrativeInv, LostPast, SameTraces
<1> QED
  BY <1>1, <1>2, <1>3, <1>4, <1>5 DEF NarrativeInv

LEMMA RestartNarrative == GatewayInv /\ NarrativeInv /\ Restart => NarrativeInv'
<1> SUFFICES ASSUME GatewayInv, NarrativeInv, Restart PROVE NarrativeInv'
  OBVIOUS
<1>1. SameTraces
  <2>1. /\ DOMAIN request' = DOMAIN request
        /\ \A j \in DOMAIN request :
             request'[j] = IF Ended(request[j]) THEN request[j] ELSE [request[j] EXCEPT !.gone = TRUE]
    BY DEF Restart
  <2>2. ASSUME NEW j \in DOMAIN request
        PROVE  /\ request'[j].kind = request[j].kind /\ request'[j].passed = request[j].passed
               /\ request'[j].context = request[j].context /\ request'[j].noted = request[j].noted
               /\ request'[j].under = request[j].under
    BY <2>1, RequestIds DEF Fields
  <2> QED
    BY <2>1, <2>2 DEF SameTraces
<1>2. UNCHANGED <<log, started, lost>> /\ active' = 0
  BY DEF Restart, Recorder!Stopped
<1> QED
  BY <1>1, <1>2, TracesStay

LEMMA SendNarrative ==
    ASSUME GatewayInv, NarrativeInv, NEW kind \in Kinds, Send(kind)
    PROVE  NarrativeInv'
<1> DEFINE r == [kind |-> kind, passed |-> <<>>, gone |-> FALSE,
                 cookie |-> IF now < cookie.expires THEN cookie.id ELSE 0,
                 context |-> NoContexts, noted |-> {}, under |-> 0]
           S == {request[i] : i \in DOMAIN request} \cup {r}
           n == Len(request) + 1
<1>1. request' = Append(request, r) /\ UNCHANGED recorderVars
  BY DEF Send
<1>2. request \in Seq(S)
  BY SeqDef DEF GatewayInv, RequestsTyped
<1>3. /\ DOMAIN request' = 1..Len(request) + 1
      /\ Len(request) \in Nat /\ DOMAIN request = 1..Len(request)
      /\ \A i \in 1..Len(request) : request'[i] = request[i]
      /\ request'[n] = r
  BY <1>1, <1>2, AppendProperties, LenProperties
<1>4. UNCHANGED <<log, started, active, lost>> /\ started \in Nat
  BY <1>1 DEF recorderVars, NarrativeInv, RecorderTyped
<1>5. /\ r.kind = kind /\ r.passed = <<>> /\ r.context = NoContexts /\ r.noted = {} /\ r.under = 0
  OBVIOUS
<1> HIDE DEF r, S
<1>6. RequestTyped(r)
  <2>1. NoContexts \in [Components -> Ids]
    BY DEF NoContexts, Components, Ids, None
  <2>2. \E way \in Ways(kind) : IsPrefix(<<>>, way)
    <3>1. PICK way : way \in Ways(kind)
      BY DEF Ways, Routes
    <3>2. way \in Seq(Points)
      BY <3>1, WaysWellMade DEF WellMade
    <3>3. <<>> \in Seq(Points) /\ Len(<<>>) = 0 /\ Len(way) \in Nat
      BY <3>2, EmptySeq, LenProperties
    <3>4. Len(<<>>) <= Len(way) /\ \A j \in 1..Len(<<>>) : <<>>[j] = way[j]
      BY <3>3
    <3>5. IsPrefix(<<>>, way)
      BY <3>2, <3>3, <3>4, PrefixMeans
    <3> QED
      BY <3>1, <3>5
  <2>3. <<>> \in Seq(Points)
    BY EmptySeq
  <2> QED
    BY <1>4, <1>5, <2>1, <2>2, <2>3 DEF RequestTyped
<1>7. NotedEntered(r) /\ OneContext(r) /\ UnderOne(r)
  BY <1>5 DEF NotedEntered, OneContext, UnderOne, Entered
<1>8. ASSUME NEW j \in DOMAIN request'
      PROVE  (j \in DOMAIN request /\ request'[j] = request[j]) \/ (request'[j] = r /\ r.under = 0)
  BY <1>3, <1>5
<1>9. ASSUME NEW j \in DOMAIN request'
      PROVE  /\ RequestTyped(request[j])' /\ NotedEntered(request[j])'
             /\ OneContext(request[j])' /\ UnderOne(request[j])'
  <2>1. RequestTyped(request'[j]) /\ NotedEntered(request'[j]) /\ OneContext(request'[j]) /\ UnderOne(request'[j])
    BY <1>6, <1>7, <1>8 DEF NarrativeInv
  <2> QED
    BY <1>4, <2>1 DEF RequestTyped, NotedEntered, OneContext, UnderOne
<1>10. RecorderTyped'
  BY <1>4 DEF NarrativeInv, RecorderTyped
<1>11. EventsKnown'
  <2>1. \A j \in DOMAIN request : j \in DOMAIN request' /\ request'[j] = request[j]
    BY <1>3
  <2> QED
    BY <1>4, <2>1 DEF NarrativeInv, EventsKnown
<1>12. WholeNarrative'
  BY <1>4, <1>8, WholeIsNarrated DEF NarrativeInv
<1>13. LostPast'
  <2>1. \A j \in DOMAIN request : j \in DOMAIN request' /\ request'[j] = request[j]
    BY <1>3
  <2> QED
    BY <1>4, <2>1 DEF NarrativeInv, LostPast
<1> QED
  BY <1>9, <1>10, <1>11, <1>12, <1>13 DEF NarrativeInv

LEMMA NarrativeInductive == GatewayInv /\ NarrativeInv /\ [Next]_vars => NarrativeInv'
<1> SUFFICES ASSUME GatewayInv, NarrativeInv, [Next]_vars PROVE NarrativeInv'
  OBVIOUS
<1>1. CASE \E kind \in Kinds : Send(kind)
  BY <1>1, SendNarrative
<1>2. ASSUME NEW i \in DOMAIN request, RequestStep(i) PROVE NarrativeInv'
  BY <1>2, AuthenticateNarrative, BootstrapNarrative, SayNarrative, StartNarrative, StopNarrative
     DEF RequestStep
<1>3. CASE Tick \/ UNCHANGED vars
  BY <1>3, TracesStay DEF Tick, vars, recorderVars, SameTraces
<1>4. CASE Restart
  BY <1>4, RestartNarrative
<1>5. ASSUME NEW id \in answers, Receive(id) PROVE NarrativeInv'
  BY <1>5, TracesStay DEF Receive, recorderVars, SameTraces
<1> QED
  BY <1>1, <1>2, <1>3, <1>4, <1>5 DEF Next

LEMMA NarrativeInvariant == Spec => [](GatewayInv /\ NarrativeInv)
<1>1. Init => GatewayInv /\ NarrativeInv
  BY GatewayInit, NarrativeInit
<1>2. GatewayInv /\ NarrativeInv /\ [Next]_vars => (GatewayInv /\ NarrativeInv)'
  BY GatewayInductive, NarrativeInductive
<1> QED
  BY <1>1, <1>2, PTL DEF Spec

(* A request during all of which Debug Mode is on, with one session, is    *)
(* told in the log of that session, step for step but for the events whose *)
(* write or flush failed, in order and under one correlation id, whatever  *)
(* else is recorded, lost, started, stopped or restarted around it, for    *)
(* any plans of the browser and any number of lost events.                 *)
THEOREM NarrativeCorrect == Spec => []WholeNarrative
<1>1. GatewayInv /\ NarrativeInv => WholeNarrative
  BY DEF NarrativeInv
<1> QED
  BY <1>1, NarrativeInvariant, PTL

(* An action of the user is told under one correlation id, in all the      *)
(* sessions that hear of it.                                               *)
THEOREM OneIdCorrect == Spec => []OneIdPerAction
<1>1. GatewayInv /\ NarrativeInv => OneIdPerAction
  <2> SUFFICES ASSUME NarrativeInv, NEW s \in 1..started, NEW t \in 1..started,
                      NEW d \in Range(log[s]), NEW e \in Range(log[t]),
                      d.request = e.request, request[d.request].kind # "view"
               PROVE  d.correlation = e.correlation
    BY DEF OneIdPerAction
  <2>1. s \in 1..MaxSessions /\ t \in 1..MaxSessions
    BY GatewayAssumption DEF NarrativeInv, RecorderTyped
  <2>2. PICK k \in DOMAIN log[s] : d = log[s][k]
    BY DEF Range
  <2>3. PICK l \in DOMAIN log[t] : e = log[t][l]
    BY DEF Range
  <2>4. d.correlation = IdOf(d.request, request[d.request])
    BY <2>1, <2>2 DEF NarrativeInv, EventsKnown
  <2>5. e.correlation = IdOf(e.request, request[e.request])
    BY <2>1, <2>3 DEF NarrativeInv, EventsKnown
  <2> QED
    BY <2>4, <2>5
<1> QED
  BY <1>1, NarrativeInvariant, PTL

-----------------------------------------------------------------------------
(* The type of the state.                                                  *)

Bounded ==
    /\ now \in 0..MaxTime /\ launch \in 1..MaxLaunches /\ used \in BOOLEAN
    /\ \A s \in DOMAIN sessions : births[s] = launch
    /\ cookie.expires \in 0..now + MaxAge

LEMMA BoundedInit == Init => Bounded
<1> SUFFICES ASSUME Init PROVE Bounded
  OBVIOUS
<1>1. /\ now = 0 /\ launch = 1 /\ used = FALSE /\ sessions = <<>> /\ cookie = NoCookie
      /\ MaxTime \in Nat /\ MaxLaunches \in Nat \ {0} /\ Idle \in Nat
  BY GatewayAssumption DEF Init
<1>2. cookie.expires = 0 /\ DOMAIN sessions = {}
  BY <1>1 DEF NoCookie
<1>3. 0 \in 0..MaxTime /\ 1 \in 1..MaxLaunches /\ 0 \in 0..0 + MaxAge
  BY <1>1 DEF MaxAge
<1> QED
  BY <1>1, <1>2, <1>3 DEF Bounded

LEMMA BoundedInductive == GatewayInv /\ Bounded /\ [Next]_vars => Bounded'
<1> SUFFICES ASSUME GatewayInv, Bounded, [Next]_vars PROVE Bounded'
  OBVIOUS
<1> USE GatewayAssumption DEF Bounded
<1>1. now \in Nat /\ Idle \in Nat /\ cookie.expires \in Nat /\ launch \in Nat
      /\ MaxTime \in Nat /\ MaxLaunches \in Nat
  OBVIOUS
<1>2. ASSUME UNCHANGED <<now, launch, used, births, sessions, cookie>> PROVE Bounded'
  BY <1>2 DEF MaxAge
<1>3. ASSUME NEW kind, Send(kind) PROVE Bounded'
  BY <1>2, <1>3 DEF Send, sessionVars
<1>4. ASSUME NEW i \in DOMAIN request, Authenticate(i) PROVE Bounded'
  <2>1. /\ UNCHANGED <<now, launch, used, births, cookie>>
        /\ \A s \in DOMAIN sessions' : s \in DOMAIN sessions
    BY <1>4 DEF Authenticate
  <2> QED
    BY <2>1 DEF MaxAge
<1>5. ASSUME NEW i \in DOMAIN request, Bootstrap(i) PROVE Bounded'
  <2>1. CASE UNCHANGED sessionVars
    BY <1>2, <1>5, <2>1 DEF Bootstrap, sessionVars
  <2>2. CASE ~ UNCHANGED sessionVars
    <3> DEFINE id == Len(births) + 1
    <3>1. /\ UNCHANGED <<now, launch>> /\ used' = TRUE
          /\ births' = Append(births, launch)
          /\ DOMAIN sessions' = DOMAIN sessions \cup {id}
          /\ cookie' = cookie
      BY <1>5, <2>2 DEF Bootstrap
    <3>2. births \in Seq(1..launch) /\ DOMAIN sessions \subseteq DOMAIN births
          /\ launch \in 1..launch
      BY <1>1 DEF GatewayInv, SessionsTyped
    <3>3. births'[id] = launch /\ \A s \in DOMAIN births : births'[s] = births[s]
      BY <3>1, <3>2, AppendProperties, LenProperties
    <3>4. \A s \in DOMAIN sessions' : births'[s] = launch
      BY <3>1, <3>2, <3>3
    <3>5. cookie'.expires \in 0..now + MaxAge
      BY <1>1, <3>1 DEF MaxAge
    <3> QED
      BY <3>1, <3>4, <3>5 DEF MaxAge
  <2> QED
    BY <2>1, <2>2
<1>6. ASSUME NEW i \in DOMAIN request, \/ \E p \in Onward(request[i]) : Say(i, p)
                                       \/ StartDebug(i) \/ StopDebug(i)
      PROVE  Bounded'
  BY <1>2, <1>6 DEF Say, StartDebug, StopDebug, sessionVars
<1>7. CASE Tick
  <2>1. now < MaxTime /\ now' = now + 1 /\ UNCHANGED <<launch, used, births, sessions, cookie>>
    BY <1>7 DEF Tick, sessionVars
  <2>2. now' \in 0..MaxTime /\ cookie'.expires \in 0..now' + MaxAge
    BY <1>1, <2>1 DEF MaxAge
  <2> QED
    BY <2>1, <2>2 DEF MaxAge
<1>8. CASE Restart
  <2>1. /\ launch < MaxLaunches /\ launch' = launch + 1 /\ used' = FALSE /\ sessions' = <<>>
        /\ UNCHANGED <<now, cookie>>
    BY <1>8 DEF Restart
  <2>2. DOMAIN sessions' = {} /\ launch' \in 1..MaxLaunches
    BY <1>1, <2>1
  <2> QED
    BY <2>1, <2>2 DEF MaxAge
<1>9. CASE UNCHANGED vars
  BY <1>2, <1>9 DEF vars, sessionVars
<1>10. ASSUME NEW id \in answers, Receive(id) PROVE Bounded'
  <2>1. UNCHANGED <<now, launch, used, births, sessions>> /\ cookie'.expires = now + MaxAge
    BY <1>10 DEF Receive
  <2>2. cookie'.expires \in 0..now' + MaxAge
    BY <1>1, <2>1 DEF MaxAge
  <2> QED
    BY <2>1, <2>2
<1> QED
  BY <1>3, <1>4, <1>5, <1>6, <1>7, <1>8, <1>9, <1>10 DEF Next, RequestStep

(* The Gateway's state keeps its type: the sessions are those of this      *)
(* launch, every request goes one of its ways, and there is no time, no    *)
(* launch and no Debug Mode session beyond the bounds.                     *)
THEOREM GatewayTypeCorrect == Spec => []TypeOK
<1>1. GatewayInv /\ NarrativeInv /\ Bounded => TypeOK
  <2> SUFFICES ASSUME GatewayInv, NarrativeInv, Bounded PROVE TypeOK
    OBVIOUS
  <2>1. ASSUME NEW i \in DOMAIN request
        PROVE  LET r == request[i] IN
               /\ r.kind \in Kinds /\ r.cookie \in 0..Len(births)
               /\ \E way \in Ways(r.kind) : IsPrefix(r.passed, way)
               /\ r.noted \subseteq {"application", "seshat"} /\ r.under \in 0..started
    BY DEF GatewayInv, RequestsTyped, NarrativeInv, RequestTyped
  <2>2. active \in 0..started /\ started \in 0..MaxSessions
    BY GatewayAssumption DEF NarrativeInv, RecorderTyped
  <2>3. answers \subseteq DOMAIN births /\ lost \subseteq (DOMAIN request) \X Nat
    BY DEF GatewayInv, OnTheWay, NarrativeInv, LostPast
  <2> QED
    BY <2>1, <2>2, <2>3 DEF TypeOK, GatewayInv, SessionsTyped, Bounded
<1>2. Init => Bounded
  BY BoundedInit
<1>3. GatewayInv /\ NarrativeInv /\ Bounded /\ [Next]_vars => Bounded'
  BY BoundedInductive
<1> QED
  BY <1>1, <1>2, <1>3, NarrativeInvariant, PTL DEF Spec
===============================================================================
