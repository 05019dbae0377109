---------------------------- MODULE MCIngestion ----------------------------
(***************************************************************************)
(* Constants for model-checking the ingestion pipeline. The step sets name *)
(* where exceptions may strike; each run picks the ones its question needs.*)
(***************************************************************************)
EXTENDS IngestionInvariant, TLC

CONSTANTS u1, u2, w1, w2

OneUpload == {u1}
TwoUploads == {u1, u2}
TwoWorkers == {w1, w2}
Nothing == {}
OnlyFirst == {u1}

\* Every upload has bytes of its own.
Distinct == [u \in Uploads |-> u]
Valid == {{}}

Effects == {"commit_job", "save_assets", "commit_chunks", "commit_assets",
            "create_collection", "upsert"}
AllUploadSteps == {"save", "create_document", "create_job", "dispatch"}

\* One fault per repository, parser, provider and server.
BodySteps == {"read", "parse", "save_assets", "delete_chunks", "commit_chunks",
              "delete_assets", "commit_assets", "list_chunks", "embed",
              "collection_exists", "create_collection", "upsert"}
AllSteps == Pc \ {"idle"}
EffectsButJob == Effects \ {"commit_job"}
AllButPublish == AllSteps \ {"return", "retry"}
AllButHandler == AllSteps \ {"select_job", "commit_job", "return", "retry"}

WorkerSymmetry == Permutations({w1, w2})
=============================================================================
