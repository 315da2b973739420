------------------------------ MODULE MCGateway -------------------------------
EXTENDS Gateway

(* Windows that compete for the token, before and after a restart; an      *)
(* enrolment while Debug Mode starts, stops and starts again; a scan and a *)
(* view while it starts or is on.                                          *)
MCPlans ==
    {<<"bootstrap", "bootstrap", "view", "bootstrap">>,
     <<"bootstrap", "start", "enroll", "stop", "start">>,
     <<"bootstrap", "start", "scan">>,
     <<"bootstrap", "start", "view">>}

(* One event of a scan and of a view may be lost. *)
MCMaxLost == [kind \in Kinds |-> IF kind \in {"scan", "view"} THEN 1 ELSE 0]

(* One window, used once. *)
OnePlan == {<<"bootstrap", "view">>}

NoLoss == [kind \in Kinds |-> 0]
===============================================================================
