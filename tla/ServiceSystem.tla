--------------------------- MODULE ServiceSystem ---------------------------
(***************************************************************************)
(* Webhook deliveries, project deployments, project deletions and the      *)
(* rotation of the vault's password side by side.  They share no state:    *)
(* each behaviour is one of a single component, chosen in the initial      *)
(* state, while the others rest.                                           *)
(***************************************************************************)
EXTENDS WebhookDelivery, ProjectDeploy, ProjectDeletion, VaultRotation

VARIABLE component

vars == <<component, webhookVars, deployVars, deletionVars, vaultVars>>

Init ==
    /\ component \in {"webhooks", "deploy", "deletion", "vault"}
    /\ WebhookInit /\ DeployInit /\ DeletionInit /\ VaultInit
    /\ entryOpen = (component = "webhooks")

Webhooks ==
    /\ component = "webhooks" /\ WebhookNext
    /\ UNCHANGED <<component, deployVars, deletionVars, vaultVars>>

Deploy ==
    /\ component = "deploy" /\ DeployNext
    /\ UNCHANGED <<component, webhookVars, deletionVars, vaultVars>>

Deletion ==
    /\ component = "deletion" /\ DeletionNext
    /\ UNCHANGED <<component, webhookVars, deployVars, vaultVars>>

Vault ==
    /\ component = "vault" /\ VaultNext
    /\ UNCHANGED <<component, webhookVars, deployVars, deletionVars>>

Next == Webhooks \/ Deploy \/ Deletion \/ Vault

Spec == Init /\ [][Next]_vars
FairSpec == Spec /\ WebhookFairness

\* Every component keeps its rows, jobs and counters within their types.
TypeOK == WebhookTypeOK /\ DeployTypeOK /\ DeletionTypeOK /\ VaultTypeOK
=============================================================================
