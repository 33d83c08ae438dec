---------------------------- MODULE MCDetailPages ----------------------------
\* The machines of the detail pages, one in each behaviour
EXTENDS InstancePage, DefinitionPage, BatchPage, VariablesTab, HeatmapLayer, DeploymentPage,
        ActivityFilter, TLC

MCFileKinds == <<"dmn", "bpmn", "text", "dmn">>

Symmetry == Permutations(Ids) \union Permutations(Values) \union Permutations(FilterTabs)

instanceOnly == <<here, engine, dialog, acting, reloadDue, page, strayed, memoVars>>
definitionOnly == <<version, detailLoads, details, kept, itemFound, detailStray, diagramVars,
                    defAction, defReloadDue>>
allVars == <<itemType, events, bar, instanceOnly, definitionOnly, batchVars, variablesVars, heatVars,
                    deploymentVars, filterVars>>

MCInit ==
  /\ itemType \in ItemTypes \union {"Variables", "Heatmap", "Deployment", "Filter"}
  /\ events = 0
  /\ InstanceInit /\ DefinitionInit /\ BatchInit /\ HeatmapInit
  /\ VariablesInit /\ DeploymentInit /\ FilterInit
  /\ itemType # "Variables" => values = [i \in Ids |-> Absent]

MCNext ==
  \/ /\ itemType = "ProcessInstance" /\ InstanceNext
     /\ UNCHANGED <<itemType, definitionOnly, batchVars, variablesVars, heatVars,
                    deploymentVars, filterVars>>
  \/ /\ itemType = "ProcessDefinition" /\ DefinitionNext
     /\ UNCHANGED <<itemType, instanceOnly, batchVars, variablesVars, heatVars,
                    deploymentVars, filterVars>>
  \/ /\ itemType = "Batch" /\ BatchNext
     /\ UNCHANGED <<itemType, instanceOnly, definitionOnly, variablesVars, heatVars,
                    deploymentVars, filterVars>>
  \/ /\ itemType = "Variables" /\ VariablesNext
     /\ UNCHANGED <<itemType, bar, instanceOnly, definitionOnly, batchVars, heatVars,
                    deploymentVars, filterVars>>
  \/ /\ itemType = "Heatmap" /\ HeatmapNext
     /\ UNCHANGED <<itemType, bar, instanceOnly, definitionOnly, batchVars, variablesVars,
                    deploymentVars, filterVars>>
  \/ /\ itemType = "Deployment" /\ DeploymentNext
     /\ UNCHANGED <<itemType, bar, instanceOnly, definitionOnly, batchVars, variablesVars, heatVars, filterVars>>
  \/ /\ itemType = "Filter" /\ FilterNext
     /\ UNCHANGED <<itemType, bar, instanceOnly, definitionOnly, batchVars, variablesVars, heatVars,
                    deploymentVars>>

MCSpec == MCInit /\ [][MCNext]_allVars
=============================================================================
