------------------------------- MODULE Agents -------------------------------
(***************************************************************************)
(* The contracts the control plane exchanges with its agents, and what the *)
(* two agents shipped with the repository answer.                          *)
(*                                                                         *)
(* contracts.PolicyDecision, contracts.Plan and contracts.PlanStep are     *)
(* records of the fields that some branch of the control plane reads; tag  *)
(* and scope lists are sets, because the code only asks for membership.    *)
(***************************************************************************)
EXTENDS Naturals, Sequences

CONSTANTS
    Tools,    \* tool name + version, as the catalog keys them
    Tags,     \* tags a plan step may carry; "read" and "write" are special
    Scopes    \* scopes a step may require and a policy may grant

ASSUME TagsAssumption == {"read", "write"} \subseteq Tags

(* contracts.PolicyDecision (Reasons is text and left out). *)
PolicyDecision ==
    [ Allowed      : BOOLEAN,
      AllowWrites  : BOOLEAN,
      Scopes       : SUBSET Scopes,
      ToolTagAllow : SUBSET Tags,
      MaxToolCalls : Nat ]

(* contracts.PlanStep: the arguments are part of the tool's identity. *)
PlanStep ==
    [ Tool      : Tools,
      Tags      : SUBSET Tags,
      Scopes    : SUBSET Scopes,
      StopOnErr : BOOLEAN ]

(* contracts.Plan: the ordered steps (Confidence is only reported and      *)
(* Fallbacks is never read).                                               *)
Plan == Seq(PlanStep)

(* What the CallTool activity asks of the policy before it lets a step reach *)
(* the MCP server: the write flag, the read/write tags and the scopes.      *)
PolicyAllows(step, policy) ==
    /\ "write" \in step.Tags => policy.AllowWrites
    /\ (step.Tags \cap {"read", "write"}) \subseteq policy.ToolTagAllow
    /\ step.Scopes \subseteq policy.Scopes

-----------------------------------------------------------------------------
(* The rule agent's POST /task: reads are always allowed, and only a task  *)
(* whose metadata already says approved=true gets writes and the write tag. *)
RuleAgent(approved) ==
    [ Allowed      |-> TRUE,
      AllowWrites  |-> approved,
      Scopes       |-> {"logs:read", "incidents:write", "remediation:write"},
      ToolTagAllow |-> IF approved THEN {"read", "write"} ELSE {"read"},
      MaxToolCalls |-> 10 ]

(* The decision agent's POST /task: logs, then a ticket, then a restart. *)
DecisionAgent ==
    << [ Tool |-> "logs.search", Tags |-> {"read", "logs"},
         Scopes |-> {"logs:read"}, StopOnErr |-> TRUE ],
       [ Tool |-> "incidents.create_ticket", Tags |-> {"write", "incidents"},
         Scopes |-> {"incidents:write"}, StopOnErr |-> TRUE ],
       [ Tool |-> "remediation.restart_service",
         Tags |-> {"write", "remediation"},
         Scopes |-> {"remediation:write"}, StopOnErr |-> FALSE ] >>

=============================================================================
