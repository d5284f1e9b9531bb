----------------------------- MODULE MCTaskAPI -----------------------------
(* Small instance of TaskAPI for TLC: two tenants whose names are their     *)
(* slugs, one with the slug of another, a JWT that expires after the first  *)
(* millisecond and one that does not.                                       *)
EXTENDS TaskAPI

MCOpen      == {"running"}
MCArtifacts == [ completed |-> {"completed"}, denied |-> {"rejected"} ]
MCTenancies == {"required"}

MCTenants == {"acme", "acme.", "beta"}

MCSanitize == [ t \in MCTenants \cup {""} |-> IF t = "acme." THEN "acme" ELSE t ]

MCTypes == {"incident_triage", "runbook_automation"}

Cred(kind, good, tenant, nbf, exp) ==
    [ kind |-> kind, good |-> good, tenant |-> tenant, nbf |-> nbf, exp |-> exp ]

MCCredentials ==
    { Cred("none", FALSE, "acme", 0, 0),
      Cred("jwt", TRUE, "acme", 0, 1), Cred("jwt", TRUE, "acme.", 0, 9),
      Cred("api_key", TRUE, "beta", 0, 0), Cred("api_key", FALSE, "acme", 0, 0) }

=============================================================================
