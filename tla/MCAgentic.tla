----------------------------- MODULE MCAgentic -----------------------------
(* Small instances of AgenticLoop for TLC. *)
EXTENDS AgenticLoop

MCTools  == {"logs.search", "incidents.create_ticket"}
MCTags   == {"read", "write"}
MCScopes == {"logs:read", "incidents:write"}

ReadStep  == [ Tool |-> "logs.search", Tags |-> {"read"},
               Scopes |-> {"logs:read"}, StopOnErr |-> FALSE ]
WriteStep == [ Tool |-> "incidents.create_ticket", Tags |-> {"write"},
               Scopes |-> {"incidents:write"}, StopOnErr |-> TRUE ]

(* A gated write before a read, a lone read, and a plan with no steps. *)
MCPlans == { <<WriteStep, ReadStep>>, <<ReadStep>>, <<>> }

Ruling(allowed, writes, tags) ==
    [ Allowed |-> allowed, AllowWrites |-> writes, ToolTagAllow |-> tags,
      Scopes |-> MCScopes, MaxToolCalls |-> 0 ]

(* Denied, reads only as the stock rule agent answers, everything allowed, *)
(* and writes without their tag, which CallTool refuses on every retry.    *)
MCPolicies ==
    { Ruling(FALSE, FALSE, {}), Ruling(TRUE, FALSE, {"read"}),
      Ruling(TRUE, TRUE, MCTags), Ruling(TRUE, TRUE, {"read"}) }

(* A plan that only reads, under a policy that allows it.                  *)
ReadPlans    == { <<ReadStep>> }
ReadPolicies == { Ruling(TRUE, FALSE, {"read"}) }

=============================================================================
