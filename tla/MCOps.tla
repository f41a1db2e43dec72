-------------------------------- MODULE MCOps --------------------------------
(***************************************************************************)
(* The line protocol and the hub share no state: a behaviour is about one  *)
(* of them, the subject, and leaves the other alone.                       *)
(***************************************************************************)
EXTENDS Wire, Hub, TLC

CONSTANTS t1, t2, w, r

VARIABLE subject

MCSessions == t1 :> "a" @@ t2 :> "b"
MCScenarios == {{t1, t2}, {t2, w, r}}

Host(loopback, token, hub, built, fresh) ==
    [loopback |-> loopback, token |-> token, hub |-> hub, built |-> built, fresh |-> fresh]
MCHosts == {Host(TRUE, FALSE, TRUE, TRUE, TRUE), Host(FALSE, FALSE, FALSE, TRUE, TRUE),
            Host(FALSE, TRUE, FALSE, TRUE, FALSE), Host(TRUE, TRUE, FALSE, FALSE, FALSE)}

Init ==
    /\ subject \in {"wire", "hub"}
    /\ WireInit
    /\ HubInit
    /\ subject = "wire" => host = CHOOSE h \in Hosts : TRUE
    /\ subject = "hub" => call[t1] = "unmade"

Next ==
    /\ UNCHANGED subject
    /\ \/ subject = "wire" /\ WireNext /\ UNCHANGED hubVars
       \/ subject = "hub" /\ HubNext /\ UNCHANGED wireVars

Spec == Init /\ [][Next]_<<subject, wireVars, hubVars>> /\ WireFairness
=============================================================================
