---------------------------- MODULE MCServices ----------------------------
(***************************************************************************)
(* The services, checked in one run: every behaviour is about one of them. *)
(***************************************************************************)
EXTENDS BulkActions, ConfirmDialog, Permissions, HistoryCache, OAuthToken, TLC

Symmetry == Permutations(Items) \cup Permutations(Tenants)

ServicesInit ==
  /\ part \in ActionPages \union {"dialog", "permissions", "history", "oauth"} /\ events = 0
  /\ BulkInit /\ DialogInit /\ PermissionsInit /\ HistoryInit /\ TokenInit
  /\ part # "dialog" => form = "priority"
  /\ part # "permissions" =>
       granted = [t \in Tenants |-> {}]
  /\ part # "history" => started = 0

ServicesNext ==
  /\ UNCHANGED part
  /\ \/ part \in ActionPages /\ BulkNext
        /\ UNCHANGED <<dialogVars, permissionVars, historyVars, tokenVars>>
     \/ part = "dialog" /\ DialogNext
        /\ UNCHANGED <<bulkVars, permissionVars, historyVars, tokenVars>>
     \/ part = "permissions" /\ PermissionsNext
        /\ UNCHANGED <<bulkVars, dialogVars, historyVars, tokenVars>>
     \/ part = "history" /\ HistoryNext
        /\ UNCHANGED <<bulkVars, dialogVars, permissionVars, tokenVars>>
     \/ part = "oauth" /\ TokenNext
        /\ UNCHANGED <<bulkVars, dialogVars, permissionVars, historyVars>>

Spec == ServicesInit /\ [][ServicesNext]_<<part, events, bulkVars, dialogVars, permissionVars,
                                          historyVars, tokenVars>>
=============================================================================
