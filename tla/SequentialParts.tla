--------------------------- MODULE SequentialParts ---------------------------
(***************************************************************************)
(* The parts of the system that are hard for what they compute and not for *)
(* what runs beside them. They share nothing, so a behaviour is one of a   *)
(* single part, and the others rest.                                       *)
(***************************************************************************)
EXTENDS EvidencePipeline, Ranking, SparseIndex, ToolSecurity

VARIABLE part   \* the part this behaviour is one of

partsVars == <<part, pipelineVars, rankingVars, indexVars, securityVars>>

PartsInit ==
  /\ part \in {"pipeline", "ranking", "index", "tools"}
  /\ PipelineInit
  /\ RankingInit
  /\ SparseIndexInit
  /\ SecurityInit

PartsNext ==
  /\ UNCHANGED part
  /\ \/ /\ part = "pipeline" /\ PipelineNext
        /\ UNCHANGED <<rankingVars, indexVars, securityVars>>
     \/ /\ part = "ranking" /\ RankingNext
        /\ UNCHANGED <<pipelineVars, indexVars, securityVars>>
     \/ /\ part = "index" /\ SparseIndexNext
        /\ UNCHANGED <<pipelineVars, rankingVars, securityVars>>
     \/ /\ part = "tools" /\ SecurityNext
        /\ UNCHANGED <<pipelineVars, rankingVars, indexVars>>

PartsSpec == PartsInit /\ [][PartsNext]_partsVars
==============================================================================
