---------------------------- MODULE ProfileDraft ----------------------------
(***************************************************************************)
(* What a profile says of its model (profile.rs): the task, backend,       *)
(* input and output that are inferred from the model's configuration and   *)
(* its name, the length of its context, and the steps of a sweep; and what *)
(* becomes of them when the user gives the model another task, edits the   *)
(* file, and it is loaded again.                                           *)
(***************************************************************************)
EXTENDS Integers, Sequences, SequencesExt, FiniteSets, FiniteSetsExt

CONSTANTS Length,       \* max_position_embeddings, and its value before an extension
          Factor,       \* factors of rope_scaling, in tenths; 10 when there is none
          UserSteps,    \* sweep steps that a user has written
          FirstStep,    \* 1024
          MinContext,   \* 512
          DefaultContext, \* 4096
          Widest        \* the largest u32

ASSUME DraftAssumption ==
    /\ Widest \in Nat /\ Length \subseteq 1..Widest /\ Factor \subseteq Nat \ {0}
    /\ FirstStep \in 1..Widest /\ MinContext \in Nat /\ DefaultContext \in 1..Widest
    /\ UserSteps \subseteq Seq(Nat)

VARIABLES config,     \* the model's configuration and name
          draft,      \* its profile
          handled     \* history: a task was set without its backend

draftVars == <<config, draft, handled>>

\* What model_type, architectures or a repository's name may speak of, in the order
\* in which they are asked; "other" speaks of nothing.
Hints == <<"asr", "tts", "image_gen", "multimodal">>
Hint == ToSet(Hints) \cup {"other"}
AllTasks == ToSet(Hints) \cup {"llm", "video_gen"}
RopeType == {"none", "known", "unknown"}

NoConfig == [at |-> "rest"]
NoDraft == [at |-> "rest"]
DraftInit == config = NoConfig /\ draft = NoDraft /\ handled = FALSE

\* infer_model_type: the first that anything speaks of.
InferModelType(c) ==
    LET spoken == {c.type, c.repo} \cup (IF c.vision THEN {"multimodal"} ELSE {})
        heard  == {i \in DOMAIN Hints : Hints[i] \in spoken}
    IN  IF heard = {} THEN "llm" ELSE Hints[Min(heard)]

\* infer_backend: by the task; for the others by the format of the checkpoint.
InferBackend(task, gguf, mlx) ==
    CASE task = "asr"        -> "mlx_whisper"
      [] task = "tts"        -> "mlx_audio"
      [] task = "image_gen"  -> "mflux"
      [] task = "multimodal" -> "mlx_vlm"
      [] OTHER -> IF gguf THEN "llama_cpp" ELSE IF mlx THEN "vllm_mlx" ELSE "transformers"

\* The input and output that a draft is given, ...
DraftIo(task) ==
    CASE task = "asr"        -> <<{"audio"}, "text">>
      [] task = "tts"        -> <<{"text"}, "audio">>
      [] task = "image_gen"  -> <<{"text"}, "image">>
      [] task = "multimodal" -> <<{"chat", "image"}, "text">>
      [] OTHER               -> <<{"chat"}, "text">>

\* ... and io_for_task, which a task that is set brings along.
IoForTask(task) ==
    CASE task \in {"image_gen", "video_gen"} -> <<{"text"}, "image">>
      [] OTHER -> DraftIo(task)

\* infer_context_max_with_notes: 0 stands for no original length. A length beyond
\* the original has been extended already; a type that is not known is noted.
ContextMax(c) ==
    IF \/ c.rope = "none"
       \/ c.original # 0 /\ c.length > c.original
       \/ c.factor <= 10
       \/ c.rope = "unknown"
       \/ c.original # 0 /\ c.length # c.original
      THEN c.length
      ELSE Min({(c.length * c.factor) \div 10, Widest})

\* generate_sweep_steps: FirstStep, doubled as long as it fits, and the maximum.
GenerateSweepSteps(max) ==
    LET doubled[s \in 1..Widest] ==
            CASE s > max  -> <<>>
              [] s = max  -> <<s>>
              [] OTHER    -> <<s>> \o (IF 2 * s > max THEN <<max>> ELSE doubled[2 * s])
    IN  doubled[FirstStep]

Ascending(S) == [i \in 1..Cardinality(S) |-> CHOOSE x \in S : Cardinality({y \in S : y < x}) = i - 1]

\* extend_sweep_steps, at each loading: steps that end below the maximum are
\* completed; those that reach it are left as they are.
ExtendSweepSteps(steps, max) ==
    IF steps # <<>> /\ Last(steps) >= max THEN steps
    ELSE Ascending(ToSet(steps) \cup ToSet(GenerateSweepSteps(max)))

DefaultOf(max) == Max({Min({max, DefaultContext}), MinContext})

\* draft_from_config, for a model of any configuration.
Drafts(c) ==
    /\ draft = NoDraft
    /\ config' = c
    /\ LET task == InferModelType(c)
           max  == ContextMax(c)
           said == IF c.drafter THEN "drafter" ELSE task
       IN  draft' = [task |-> said, backend |-> InferBackend(task, c.gguf, c.mlx), io |-> DraftIo(said),
                     max |-> max, default |-> DefaultOf(max), steps |-> GenerateSweepSteps(max)]
    /\ UNCHANGED handled

\* A plausible fault: only one backend is taken for MLX.
RetasksOnlyVllm(task, adjust) ==
    /\ draft # NoDraft
    /\ draft' = [draft EXCEPT !.task = task, !.io = IoForTask(task), !.backend =
                    IF adjust THEN InferBackend(task, config.gguf, @ = "vllm_mlx") ELSE @]
    /\ handled' = (handled \/ ~adjust)
    /\ UNCHANGED config
\* set_profile_task: whether the checkpoint is one of MLX is taken from the backend.
SetProfileTask(task, adjust) ==
    /\ draft # NoDraft
    /\ draft' = [draft EXCEPT !.task = task, !.io = IoForTask(task), !.backend =
                    IF adjust THEN InferBackend(task, config.gguf, @ # "transformers") ELSE @]
    /\ handled' = (handled \/ ~adjust)
    /\ UNCHANGED config

\* The user writes steps of his own, and the profile is loaded, and loaded again.
EditsSteps(steps) ==
    /\ draft # NoDraft /\ draft.steps = GenerateSweepSteps(draft.max)
    /\ draft' = [draft EXCEPT !.steps = steps]
    /\ UNCHANGED <<config, handled>>
LoadsSteps ==
    /\ draft # NoDraft
    /\ draft' = [draft EXCEPT !.steps = ExtendSweepSteps(@, draft.max)]
    /\ UNCHANGED <<config, handled>>

\* Models of every kind with a plain context, and contexts of every kind.
ConfigOf ==
    [at : {"config"}, type : Hint, repo : Hint, vision : BOOLEAN, drafter : BOOLEAN, gguf : BOOLEAN, mlx : BOOLEAN,
     length : {DefaultContext}, original : {0}, factor : {10}, rope : {"none"}]
      \cup
    [at : {"config"}, type : {"other"}, repo : {"other"}, vision : {FALSE}, drafter : {FALSE}, gguf : {FALSE},
     mlx : {TRUE}, length : Length, original : Length \cup {0}, factor : Factor, rope : RopeType]

DraftNext ==
    \/ \E c \in ConfigOf : Drafts(c)
    \/ \E task \in AllTasks, adjust \in BOOLEAN : SetProfileTask(task, adjust)
    \/ \E steps \in UserSteps : EditsSteps(steps)
    \/ LoadsSteps

DraftSpec == DraftInit /\ [][DraftNext]_draftVars
-----------------------------------------------------------------------------
(* Properties. *)

DraftTypeOK ==
    draft # NoDraft =>
        /\ draft.task \in AllTasks \cup {"drafter"}
        /\ draft.max \in 1..Widest
        /\ ToSet(draft.steps) \subseteq Nat
        /\ handled \in BOOLEAN

\* A profile asks for the input and promises the output of its task, whether the
\* task was inferred or set: the two tables agree.
IoIsOfTask ==
    draft # NoDraft => draft.io = IF draft.task = "video_gen" THEN <<{"text"}, "image">> ELSE DraftIo(draft.task)

\* As long as the backend goes with the task, it is one that serves the task.
BackendServesTask ==
    draft # NoDraft /\ ~handled =>
        CASE draft.task = "asr"        -> draft.backend = "mlx_whisper"
          [] draft.task = "tts"        -> draft.backend = "mlx_audio"
          [] draft.task = "image_gen"  -> draft.backend = "mflux"
          [] draft.task = "multimodal" -> draft.backend = "mlx_vlm"
          [] draft.task = "drafter"    -> TRUE
          [] OTHER -> draft.backend \in {"llama_cpp", "vllm_mlx", "transformers"}

\* A model that is given other tasks and its own again has the backend it had,
\* except that one that is not of MLX may have forgotten so.
BackendComesBack ==
    draft # NoDraft /\ ~handled /\ draft.task = InferModelType(config) =>
        \/ draft.backend = InferBackend(draft.task, config.gguf, config.mlx)
        \/ ~config.mlx /\ draft.backend = "vllm_mlx"

\* A configuration whose length is extended by a factor and one in which the longer
\* length is written out mean the same; and no extension shortens a context.
ContextIsExtendedOnce ==
    draft # NoDraft =>
        /\ draft.max >= config.length
        /\ config.original # 0 /\ draft.max > config.length =>
              ContextMax([config EXCEPT !.length = draft.max]) = draft.max

\* Where a context reaches the minimum, the default lies within it.
DefaultIsInContext == draft # NoDraft /\ draft.max >= MinContext => draft.default \in MinContext..draft.max

\* A sweep of a profile as it is loaded has the steps that the file says, goes up
\* unless the file goes down, and goes up to the end of the context if that is long
\* enough for a first step; loading it again changes nothing.
Rises(steps) == \A i \in 2..Len(steps) : steps[i - 1] < steps[i]
SweepReachesTheEnd ==
    draft # NoDraft =>
        LET loaded == ExtendSweepSteps(draft.steps, draft.max)
        IN  /\ ToSet(draft.steps) \subseteq ToSet(loaded)
            /\ Rises(draft.steps) => Rises(loaded)
            /\ draft.max >= FirstStep => loaded # <<>> /\ Last(loaded) >= draft.max
            /\ ExtendSweepSteps(loaded, draft.max) = loaded

\* A profile that was drafted, retasked, edited and loaded again, in any order, fits
\* together: its task with its backend and its types, its lengths with its sweep.
DraftIsConsistent ==
    /\ DraftTypeOK
    /\ IoIsOfTask
    /\ BackendServesTask
    /\ BackendComesBack
    /\ ContextIsExtendedOnce
    /\ DefaultIsInContext
    /\ SweepReachesTheEnd
=============================================================================
