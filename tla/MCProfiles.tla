----------------------------- MODULE MCProfiles -----------------------------
(* Instances of the modules about what is kept of models and the user, for one *)
(* run of TLC: in every behaviour one of them moves, the others rest.  They    *)
(* share no state, and have safety properties only.                            *)
EXTENDS ProfileFiles, ProfileDraft, Auth, CacheUse, TLC

CONSTANTS gemma, gemmaB, assist, lora,    \* ids of models
          large, untold, small             \* models in the cache

VARIABLE part     \* the module that moves

\* Models whose ids differ in the case of a letter share a file: one with a drafter
\* and one whose context is too short, and the drafter and an adapter of the first.
MCFileOf == (gemma :> "g") @@ (gemmaB :> "g") @@ (assist :> "a") @@ (lora :> "a")
MCKindOf == (gemma :> "main") @@ (gemmaB :> "short") @@ (assist :> "drafter") @@ (lora :> "adapter")
MCAssistantOf == [r \in Repo |-> IF r = gemma THEN assist ELSE NoRepo]
MCBaseOf == [r \in Repo |-> IF r = lora THEN gemma ELSE NoRepo]

\* The user makes a drafter of a model that shares its file with another, in any
\* of the files or in one of his own.
MCHandWritten == {[id |-> gemma, task |-> "drafter", link |-> NoRepo, wide |-> TRUE]}

\* Steps that end below the context's length, steps that go down, and steps beyond
\* every length.
MCUserSteps == {<<6>>, <<9, 4>>, <<9, 4, 300>>}

\* Each fits alone, and the second to come must leave the reserve.
MCSizeOf == (large :> 10) @@ (untold :> 10) @@ (small :> 4)
\* The hub tells the sizes of half of the files of one; another disk has room for the
\* small one.
MCReported == [MCSizeOf EXCEPT ![untold] = 5]

Part == {"files", "draft", "auth", "cache"}
\* The other modules rest.
Turn(p) == part = p /\ part' = p

KeptInit ==
    /\ part \in Part
    /\ ProfilesInit /\ DraftInit /\ AuthInit /\ CacheInit
    /\ part # "cache" => Cached = {}
    /\ part # "auth" => \A s \in Source : source[s] = NoToken

KeptNext ==
    \/ /\ Turn("files") /\ ProfilesNext
       /\ UNCHANGED <<draftVars, authVars, cacheVars>>
    \/ /\ Turn("draft") /\ DraftNext
       /\ UNCHANGED <<profileVars, authVars, cacheVars>>
    \/ /\ Turn("auth") /\ AuthNext
       /\ UNCHANGED <<profileVars, draftVars, cacheVars>>
    \/ /\ Turn("cache") /\ CacheNext
       /\ UNCHANGED <<profileVars, draftVars, authVars>>

KeptVars == <<part, profileVars, draftVars, authVars, cacheVars>>
KeptSpec == KeptInit /\ [][KeptNext]_KeptVars

\* A profile is written over by its own settings only, and a token that was set is
\* the one that is used.
ChangesTakeEffect ==
    /\ OnlySettingsReplace
    /\ SetIsUsed
=============================================================================
