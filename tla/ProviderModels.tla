--------------------------- MODULE ProviderModels ---------------------------
(***************************************************************************)
(* What PricingCatalog, ModelCatalog and ProviderRouting share: the ids of   *)
(* models, the families they are of, and what has nothing under way.         *)
(***************************************************************************)

CONSTANT Models         \* ids of models, as the providers list them

Families == {"llm", "embeddings", "realtime_voice", "moderation", "speech_to_text",
             "text_to_speech", "image_generation", "video_generation"}

Idle == [at |-> "idle"]
=============================================================================
