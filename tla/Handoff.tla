------------------------------- MODULE Handoff -------------------------------
(***************************************************************************)
(* What a sending command promises, whatever the protocol: the message is  *)
(* handed over to the server at most once and for all its recipients at    *)
(* once; the command reports success only after that; and once it has      *)
(* reported, nothing is handed over any more.                              *)
(***************************************************************************)
CONSTANT Recipients

VARIABLES
    delivered,  \* the recipients the server has taken the message for
    report      \* what the command has told its caller

handoffVars == <<delivered, report>>

HandoffInit == delivered = {} /\ report = "none"

HandOver ==
    /\ report = "none"
    /\ delivered = {}
    /\ delivered' = Recipients
    /\ UNCHANGED report

Report(outcome) ==
    /\ report = "none"
    /\ outcome = "ok" => delivered = Recipients
    /\ report' = outcome
    /\ UNCHANGED delivered

HandoffNext == HandOver \/ \E outcome \in {"ok", "failed"} : Report(outcome)

HandoffSpec == HandoffInit /\ [][HandoffNext]_handoffVars
=============================================================================
