--------------------------- MODULE MCModelCatalog ---------------------------
(***************************************************************************)
(* Instances of ModelCatalog for TLC: two minis of which the newer one is   *)
(* the representative, a model to speak with, and one of no known family.   *)
(***************************************************************************)
EXTENDS ModelCatalog, TLC

CONSTANTS old, new, tts, beta, chat, code, speech, j1, j2

MCFamilyOf == (old :> "llm") @@ (new :> "llm") @@ (tts :> "text_to_speech") @@ (beta :> "none")
MCTierOf == (old :> "mini") @@ (new :> "nano") @@ (tts :> "plain") @@ (beta :> "plain")
MCGroups == {{old, new}, {tts}}
MCRank == (old :> 1) @@ (new :> 2) @@ (tts :> 1) @@ (beta :> 3)
MCGraph ==
    (chat :> [all |-> {"chat"}, any |-> {}, none |-> {}]) @@
    (code :> [all |-> {"code"}, any |-> {"chat", "audio_in"}, none |-> {"moderation"}]) @@
    (speech :> [all |-> {"audio_out"}, any |-> {}, none |-> {}])
MCListings == {{old, new, beta}, {old, tts}, {beta}}
MCAvailables == {{old, new, tts}, {old}}
MCSelections == {{old}, {new}, {old, tts}}
Alike == Permutations(Jobs)
=============================================================================
