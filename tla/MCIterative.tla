----------------------------- MODULE MCIterative -----------------------------
(* A small instance of IterativeWorkflow for TLC. *)
EXTENDS IterativeWorkflow

MCTools  == {"logs.search", "incidents.create_ticket"}
MCTags   == {"read", "write"}
MCScopes == {"logs:read", "incidents:write"}

ReadStep  == [ Tool |-> "logs.search", Tags |-> {"read"},
               Scopes |-> {"logs:read"}, StopOnErr |-> FALSE ]
WriteStep == [ Tool |-> "incidents.create_ticket", Tags |-> {"write"},
               Scopes |-> {"incidents:write"}, StopOnErr |-> FALSE ]
LastWrite == [ WriteStep EXCEPT !.StopOnErr = TRUE ]

(* A gated write before a read that may fail, and a read before a write    *)
(* that ends the task when it fails.                                       *)
MCPlans == { <<WriteStep, ReadStep>>, <<ReadStep, LastWrite>> }

Decision(allowed, writes, tags) ==
    [ Allowed |-> allowed, AllowWrites |-> writes, ToolTagAllow |-> tags,
      Scopes |-> MCScopes, MaxToolCalls |-> 0 ]

(* Denied, gated, gated without the write tag as the stock rule agent      *)
(* answers, and everything allowed.                                        *)
MCPolicies ==
    { Decision(FALSE, FALSE, {}), Decision(TRUE, FALSE, MCTags),
      Decision(TRUE, FALSE, {"read"}), Decision(TRUE, TRUE, MCTags) }

=============================================================================
