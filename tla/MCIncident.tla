----------------------------- MODULE MCIncident -----------------------------
(* Small instances of IncidentWorkflow for TLC. *)
EXTENDS IncidentWorkflow

MCTools  == {"logs.search", "incidents.create_ticket"}
MCTags   == {"read", "write"}
MCScopes == {"logs:read", "incidents:write"}

ReadStep  == [ Tool |-> "logs.search", Tags |-> {"read"},
               Scopes |-> {"logs:read"}, StopOnErr |-> FALSE ]
WriteStep == [ Tool |-> "incidents.create_ticket", Tags |-> {"write"},
               Scopes |-> {"incidents:write"}, StopOnErr |-> TRUE ]
LateWrite == [ WriteStep EXCEPT !.StopOnErr = FALSE ]

(* A write that is waited for as the first step and as a later one, whose *)
(* failure stops the workflow or not.                                      *)
MCPlans == { <<WriteStep>>, <<ReadStep, LateWrite>> }

Ruling(allowed, writes, tags, scopes, max) ==
    [ Allowed |-> allowed, AllowWrites |-> writes, ToolTagAllow |-> tags,
      Scopes |-> scopes, MaxToolCalls |-> max ]

(* Denied; gated with a budget of one; gated with a budget of two, and     *)
(* writes allowed at once, without the read scope; gated without limit and *)
(* without the write tag, as the stock rule agent answers.                 *)
MCPolicies ==
    { Ruling(FALSE, FALSE, {}, {}, 0),
      Ruling(TRUE, FALSE, MCTags, MCScopes, 1),
      Ruling(TRUE, FALSE, MCTags, {"incidents:write"}, 2),
      Ruling(TRUE, TRUE, MCTags, {"incidents:write"}, 0),
      Ruling(TRUE, FALSE, {"read"}, MCScopes, 0) }

MCCatalogs == { MCTools, {"logs.search"} }

-----------------------------------------------------------------------------
(* The agents of the repository, for a task without and with the approved  *)
(* metadata.                                                               *)
StockTools   == { DecisionAgent[i].Tool : i \in 1..3 }
StockTags    == UNION { DecisionAgent[i].Tags : i \in 1..3 }
StockScopes  == UNION { DecisionAgent[i].Scopes : i \in 1..3 }
StockGated   == { RuleAgent(FALSE) }
StockPlans   == { DecisionAgent }
StockCatalog == { StockTools }

=============================================================================
