--------------------------- MODULE ExecContracts ---------------------------
(***************************************************************************)
(* The part of internal/controlplane/contracts/run-book-a2a.go that runbook *)
(* steps and the exec agent share: what an exec step asks for.             *)
(***************************************************************************)

CONSTANTS
    Deployments,  \* namespace and name of the deployments
    Replicas      \* replica counts

ActionTypes == {"k8s_scale", "k8s_restart", "unknown"}

(* contracts.ExecInput with the deployment it names.  A deployment that    *)
(* does not exist or a malformed replica count is a failing Get.           *)
ExecInput == [ action_type : ActionTypes, deployment : Deployments, replicas : Replicas ]

=============================================================================
