----------------------------- MODULE Publishing -----------------------------
(***************************************************************************)
(* The controllers that publish CRDs, and those that report on them in a   *)
(* condition.  Each writes documents, or a condition, of its own, so that  *)
(* it is enough to run one of them in every behaviour.                     *)
(***************************************************************************)
EXTENDS DiscoveryController, OpenAPIController, OpenAPIV3Controller

CONSTANTS Reported, Servers, Subjects, Conditions, NoCondition, Unseen, Settings, MaxUserWrites, MaxFaults

VARIABLES controller,  \* the one that runs
          rv, store, cache, watch, userWrites, reportQueue, task, lastSeen, faults, setting

Reports ==
  INSTANCE ConditionController WITH CRDs <- Reported, queue <- reportQueue

ASSUME SettingsAssumption == \A i \in DOMAIN Settings : Settings[i] \in Reports!Setting

\* There are finitely many servers and CRDs, and what stands for no CRD, or for
\* nothing seen, is none of those.
ASSUME ReportsAssumption ==
  /\ IsFiniteSet(Servers) /\ IsFiniteSet(Reported)
  /\ NoCRD \notin Reports!CRD
  /\ Unseen \notin Reports!Seen

publishingVars == <<sharedVars, discoveryVars, openAPIVars, openAPIV3Vars>>

reportVars == <<rv, store, cache, watch, userWrites, reportQueue, task, lastSeen, faults, setting>>

vars == <<publishingVars, reportVars, controller>>

TypeOK ==
  /\ SharedTypeOK /\ OpenAPITypeOK /\ OpenAPIV3TypeOK
  /\ controller = "discovery" => DiscoveryTypeOK
  /\ controller # "discovery" => queue \subseteq CRDs

Init ==
  /\ SharedInit /\ DiscoveryInit /\ OpenAPIInit /\ OpenAPIV3Init
  /\ controller \in {"discovery", "openapi", "openapiv3", "condition"}
  /\ Reports!Init
  /\ controller # "condition" => setting = 1

Discovery ==
  /\ controller = "discovery"
  /\ DiscoveryNext
  /\ UNCHANGED <<openAPIVars, openAPIV3Vars, reportVars, controller>>

OpenAPI ==
  /\ controller = "openapi"
  /\ OpenAPINext
  /\ UNCHANGED <<discoveryVars, openAPIV3Vars, reportVars, controller>>

OpenAPIV3 ==
  /\ controller = "openapiv3"
  /\ OpenAPIV3Next
  /\ UNCHANGED <<discoveryVars, openAPIVars, reportVars, controller>>

ChangeCache ==
  /\ controller # "condition"
  /\ Informer
  /\ UNCHANGED <<discoveryVars, openAPIVars, openAPIV3Vars, reportVars, controller>>

Report ==
  /\ controller = "condition"
  /\ Reports!Next
  /\ UNCHANGED <<publishingVars, controller>>

Next == Report \/ ChangeCache \/ Discovery \/ OpenAPI \/ OpenAPIV3

\* The informer notifies, and the controller's loop runs.  Requests need not
\* come; GetOpenAPI changes what is kept for the next only.
Fairness ==
  /\ WF_publishingVars(Discovery \/ OpenAPI \/ OpenAPIV3)
  /\ \A s \in Servers, k \in Reported :
       /\ WF_reportVars(controller = "condition" /\ Reports!Deliver(s) /\ UNCHANGED <<publishingVars, controller, setting>>)
       /\ WF_reportVars(controller = "condition" /\ Reports!Sync(s, k) /\ UNCHANGED <<publishingVars, controller, setting>>)

PublishingSpec == Init /\ [][Next]_vars

FairSpec == PublishingSpec /\ Fairness

-----------------------------------------------------------------------------
(* Properties.                                                             *)

\* See DiscoveryConsistent, OpenAPIConsistent and OpenAPIV3Consistent: between
\* syncs no change of a CRD is missed, whichever controller publishes it.
PublishedConsistent ==
  /\ controller = "discovery" => DiscoveryConsistent
  /\ controller = "openapi" => OpenAPIConsistent
  /\ controller = "openapiv3" => OpenAPIV3Consistent

\* See DiscoverySettled, OpenAPISettled, OpenAPIV3Settled and
\* OpenAPIV3ServedOnly: the documents become so, and stay so.
DiscoverySettles == controller = "discovery" => <>[]DiscoverySettled

OpenAPISettles == controller = "openapi" => <>[]OpenAPISettled

OpenAPIV3Settles == controller = "openapiv3" => <>[]OpenAPIV3Settled

\* Of ConditionController.
ServersDoNotFight == Reports!ServersDoNotFight

ConditionDescribesStored == Reports!ConditionDescribesStored

ConditionSettles == controller = "condition" => Reports!ConditionSettles

OpenAPIV3Forgets == controller = "openapiv3" => <>[]OpenAPIV3ServedOnly

=============================================================================
