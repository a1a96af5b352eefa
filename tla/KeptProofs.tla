----------------------------- MODULE KeptProofs -----------------------------
(***************************************************************************)
(* Proofs about what is kept for the user and what it takes: the token of  *)
(* the hub (Auth), for any number of operations under way and any tokens;  *)
(* the files of the profiles (ProfileFiles), for any targets, writers and  *)
(* keys; the disk that the cache of models takes (CacheUse), for any       *)
(* finite set of models; and the memory that a server takes (MemoryWatch), *)
(* for any finite set of processes.                                        *)
(*                                                                         *)
(* What the keychain holds was confirmed, what the status shows is one     *)
(* token, the doctor agrees with the programs, and a token that was set is *)
(* the one used: they rest on one fact that no run states, that what an    *)
(* operation has asked about was a token when it began (AskedIsToken).     *)
(*                                                                         *)
(* The files are whole, none of a choice is lost but to a writer that read *)
(* before it, and a setting replaces nothing else: FilesInv says what each *)
(* writer still carries from the file that it has read.                    *)
(*                                                                         *)
(* Disk and memory add up a function over a finite set, and the sum is     *)
(* recursive: it is reasoned about through a smallest subset for which a   *)
(* claim fails (SmallestSet), taken with one element less.                 *)
(***************************************************************************)
EXTENDS MCProfiles, MemoryWatch, FiniteSetTheorems, TLAPS

-----------------------------------------------------------------------------
(* The token of the hub *)

Kind == Changing \cup {"verify", "status"}

\* The sources are the four, with values; the status shows a token or none.
Typed ==
    /\ source \in [Source -> Value]
    /\ shown \in [token : HubToken \cup {NoToken}, user : User]

\* An operation that may change or show something asks about a token of the hub.
AskedIsToken ==
    /\ op \in [AuthOp -> [kind : Kind \cup {"none"}, token : Value]]
    /\ \A o \in AuthOp : /\ op[o].kind = "none" => op[o] = NoOp
                         /\ op[o].kind \in Changing \cup {"status"} => op[o].token \in HubToken

AuthInv == Typed /\ AskedIsToken /\ KeychainIsVerified /\ ShownIsOneToken
-----------------------------------------------------------------------------

\* The active token is one of the hub as soon as a source is not blank.
LEMMA ActiveIsToken ==
  ASSUME Typed
  PROVE  /\ Active = "none" <=> {s \in Source : Present(s)} = {}
         /\ Active # "none" => Active \in Source /\ Present(Active) /\ ActiveToken = source[Active]
BY DEF Typed, Active, ActiveToken, Present, Source

\* The initial state: no operation, an empty keychain, no status.
LEMMA AuthStarts == AuthInit => AuthInv
<1> SUFFICES ASSUME AuthInit PROVE AuthInv
  OBVIOUS
<1>1. Typed
  BY DEF AuthInit, Typed, Source, Value, User, NoStatus
<1>2. AskedIsToken
  BY DEF AuthInit, AskedIsToken, NoOp, Value, Kind, Changing
<1>3. KeychainIsVerified
  BY DEF AuthInit, KeychainIsVerified
<1>4. ShownIsOneToken
  BY AuthAssumption DEF AuthInit, ShownIsOneToken, NoStatus
<1> QED
  BY <1>1, <1>2, <1>3, <1>4 DEF AuthInv

\* Beginning an operation on a token keeps the invariant.
LEMMA AskingKeeps ==
  ASSUME AuthInv, NEW o \in AuthOp, NEW kind \in Kind, NEW token \in Value,
         kind \in Changing \cup {"status"} => token \in HubToken,
         Asks(o, kind, token)
  PROVE  AuthInv'
<1>1. Typed' /\ KeychainIsVerified' /\ ShownIsOneToken'
  BY DEF AuthInv, Asks, Typed, KeychainIsVerified, ShownIsOneToken
<1>2. AskedIsToken'
  BY DEF AuthInv, Asks, AskedIsToken, Kind, Changing, NoOp
<1> QED
  BY <1>1, <1>2 DEF AuthInv

\* So does an answer of the hub, however late.
LEMMA ReplyKeeps ==
  ASSUME AuthInv, NEW o \in AuthOp, NEW answer \in {"known", "invalid", "offline"},
         Replies(o, answer)
  PROVE  AuthInv'
<1> DEFINE my == op[o]
<1>1. /\ my \in [kind : Kind, token : Value] /\ my.kind # "none"
      /\ my.kind \in Changing \cup {"status"} => my.token \in HubToken
  BY DEF AuthInv, AskedIsToken, Replies, Kind, Changing, NoOp
<1>2. AskedIsToken'
  BY DEF AuthInv, AskedIsToken, Replies, NoOp, Value, Kind, Changing
<1>3. Typed'
  <2>1. source' \in [Source -> Value]
    BY <1>1 DEF AuthInv, Typed, Replies, Keeps, Source
  <2>2. shown' \in [token : HubToken \cup {NoToken}, user : User]
    BY <1>1 DEF AuthInv, Typed, Replies, Told, User
  <2> QED
    BY <2>1, <2>2 DEF Typed
<1>4. KeychainIsVerified'
  BY <1>1 DEF AuthInv, Typed, KeychainIsVerified, Replies, Keeps, Source
<1>5. ShownIsOneToken'
  BY <1>1, AuthAssumption DEF AuthInv, ShownIsOneToken, Replies, Told
<1> QED
  BY <1>2, <1>3, <1>4, <1>5 DEF AuthInv

\* The invariant is inductive.
LEMMA AuthInductive == AuthInv /\ [AuthNext]_authVars => AuthInv'
<1> SUFFICES ASSUME AuthInv, [AuthNext]_authVars PROVE AuthInv'
  OBVIOUS
<1>1. ASSUME NEW o \in AuthOp, BeginsSet(o) PROVE AuthInv'
  BY <1>1, AskingKeeps DEF BeginsSet, Kind, Changing, Value
<1>2. ASSUME NEW o \in AuthOp, BeginsVerify(o) PROVE AuthInv'
  BY <1>2, AskingKeeps DEF BeginsVerify, Kind, Changing, Value
<1>3. ASSUME NEW o \in AuthOp, BeginsImport(o) PROVE AuthInv'
  <2>1. CASE Present("file") /\ Asks(o, "import", source["file"])
    BY <2>1, AskingKeeps DEF Present, Kind, Changing, Value
  <2>2. CASE UNCHANGED <<source, op, shown, verified>>
    BY <2>2 DEF AuthInv, Typed, AskedIsToken, KeychainIsVerified, ShownIsOneToken
  <2> QED
    BY <1>3, <2>1, <2>2 DEF BeginsImport
<1>4. ASSUME NEW o \in AuthOp, BeginsStatus(o) PROVE AuthInv'
  <2>1. CASE Active # "none" /\ Asks(o, "status", ActiveToken)
    <3>1. ActiveToken \in HubToken
      BY <2>1, ActiveIsToken DEF AuthInv, Present
    <3> QED
      BY <2>1, <3>1, AskingKeeps DEF Kind, Value
  <2>2. CASE shown' = NoStatus /\ UNCHANGED <<source, op, verified, ended>>
    BY <2>2, AuthAssumption
    DEF AuthInv, Typed, AskedIsToken, KeychainIsVerified, ShownIsOneToken, NoStatus, User
  <2> QED
    BY <1>4, <2>1, <2>2 DEF BeginsStatus
<1>5. ASSUME NEW o \in AuthOp, StoreFails(o) PROVE AuthInv'
  BY <1>5 DEF StoreFails, AuthInv, Typed, AskedIsToken, KeychainIsVerified, ShownIsOneToken,
     NoOp, Value, Kind, Changing
<1>6. CASE Clears
  BY <1>6 DEF Clears, AuthInv, Typed, AskedIsToken, KeychainIsVerified, ShownIsOneToken, Source, Value
<1>7. ASSUME NEW v \in Value, FileChanges(v) PROVE AuthInv'
  BY <1>7 DEF FileChanges, AuthInv, Typed, AskedIsToken, KeychainIsVerified, ShownIsOneToken, Source
<1>8. CASE UNCHANGED authVars
  BY <1>8 DEF authVars, AuthInv, Typed, AskedIsToken, KeychainIsVerified, ShownIsOneToken
<1> QED
  BY <1>1, <1>2, <1>3, <1>4, <1>5, <1>6, <1>7, <1>8, ReplyKeeps DEF AuthNext

\* AuthInv holds in every reachable state.
THEOREM AuthHolds == AuthSpec => []AuthInv
BY AuthStarts, AuthInductive, PTL DEF AuthSpec
-----------------------------------------------------------------------------

\* Sources and status have their types: no operation of the app, the command line
\* or the hub's own tool puts anything else into them.
THEOREM AuthTypes == AuthSpec => []AuthTypeOK
<1>1. AuthInv => AuthTypeOK
  BY DEF AuthInv, Typed, AuthTypeOK
<1> QED
  BY <1>1, AuthHolds, PTL

\* keychain_set follows a confirmation of the hub, whatever else is under way.
THEOREM KeychainHoldsConfirmed == AuthSpec => []KeychainIsVerified
<1>1. AuthInv => KeychainIsVerified
  BY DEF AuthInv
<1> QED
  BY <1>1, AuthHolds, PTL

\* build_auth_status shows the token it has asked about and its owner.
THEOREM StatusIsOneToken == AuthSpec => []ShownIsOneToken
<1>1. AuthInv => ShownIsOneToken
  BY DEF AuthInv
<1> QED
  BY <1>1, AuthHolds, PTL

\* scan_token, which looks at every source by itself, agrees with resolve_token.
THEOREM DoctorIsRight == AuthSpec => []DoctorAgrees
<1>1. AuthInv => DoctorAgrees
  <2> SUFFICES ASSUME AuthInv PROVE DoctorAgrees
    OBVIOUS
  <2>1. CASE Active = "none"
    <3>1. {s \in Source : Present(s)} = {}
      BY <2>1, ActiveIsToken DEF AuthInv
    <3>2. ActiveToken \notin HubToken
      BY <2>1, AuthAssumption DEF ActiveToken
    <3> QED
      BY <3>1, <3>2 DEF DoctorAgrees, DoctorToken
  <2>2. CASE Active # "none"
    <3>1. Active \in {s \in Source : Present(s)} /\ ActiveToken = source[Active]
      BY <2>2, ActiveIsToken DEF AuthInv
    <3> QED
      BY <3>1 DEF DoctorAgrees, DoctorToken, Present
  <2> QED
    BY <2>1, <2>2
<1> QED
  BY <1>1, AuthHolds, PTL

\* A set or an import that has succeeded decides which token is used, although the
\* environment may hold another.
THEOREM SetDecides == AuthSpec => SetIsUsed
<1>1. ASSUME AuthInv, [AuthNext]_authVars, ended' # ended, ended'.good, ended'.kind \in Changing
      PROVE  ActiveToken' = ended'.token
  <2>1. PICK o \in AuthOp, answer \in {"known", "invalid", "offline"} : Replies(o, answer)
    BY <1>1 DEF AuthNext, authVars, BeginsSet, BeginsVerify, BeginsImport, BeginsStatus, Asks,
       Clears, StoreFails, FileChanges, Changing
  <2>2. /\ op[o].kind \in Changing /\ answer = "known" /\ ended'.token = op[o].token
        /\ op[o].token \in HubToken
    BY <1>1, <2>1 DEF Replies, AuthInv, AskedIsToken
  <2>3. source'["keychain"] = op[o].token
    BY <1>1, <2>1, <2>2 DEF Replies, Keeps, AuthInv, Typed, Source
  <2> QED
    BY <2>2, <2>3 DEF ActiveToken, Active, Present
<1> QED
  BY <1>1, AuthHolds, PTL DEF AuthSpec, SetIsUsed

\* What the run checks of the sources and the status holds for any tokens and any
\* number of operations under way.
THEOREM TokensConfirmed == AuthSpec => []TokensAreConfirmed
BY AuthTypes, KeychainHoldsConfirmed, StatusIsOneToken, DoctorIsRight, PTL DEF TokensAreConfirmed

-----------------------------------------------------------------------------
(* The files of the profiles *)

Settings == [task : SUBSET (Task \cup {"drafter"}), link : SUBSET (Repo \cup {NoRepo})]
Writing == [at : {"rest", "open", "fill"}, op : {"none", "generate", "task", "link"},
            profile : ModelProfile \cup {Missing}]

FileTypes ==
  /\ files \in [FileName -> ModelProfile \cup {Missing, Torn}]
  /\ chosen \in [Repo -> Settings]
  /\ profileKills \in Nat /\ profileKills <= MaxProfileKills
  /\ edits \in Nat /\ edits <= MaxEdits

\* What a tool is about to write is a profile, and only the app changes settings.
ToolTypes ==
  /\ tool \in [Tool -> Writing]
  /\ \A t \in Tool : tool[t].at # "rest" =>
       tool[t].profile \in ModelProfile /\ tool[t].op # "none" /\ (t = "cli" => tool[t].op = "generate")

\* The file a tool is about to write.
Target(t) == FileOf[tool[t].profile.id]

\* What is asked of a profile in a file is asked of one that is on its way into it,
\* unless the user has written one of the model.
IsSound(p, written) ==
  p.id \notin written =>
    /\ p.task = "drafter" => p.link = NoRepo /\ KindOf[p.id] = "drafter"
    /\ p.link # NoRepo => p.link # p.id /\ (KindOf[p.link] = "drafter" \/ p.link \in written)
IsWide(p) == ~p.wide => KindOf[p.id] = "short" \/ (BaseOf[p.id] # NoRepo /\ KindOf[BaseOf[p.id]] = "short")

\* What the programs have written is in the file of its model.
FilesAreSound ==
  \A n \in FileName : IsProfile(files[n]) =>
    /\ IsSound(files[n], edited)
    /\ files[n].id \notin edited => FileOf[files[n].id] = n
    /\ n \notin byHand => IsWide(files[n]) /\ FileOf[files[n].id] = n
WritesAreSound ==
  \A t \in Tool : tool[t].at # "rest" => IsSound(tool[t].profile, edited) /\ IsWide(tool[t].profile)

\* A torn file is the user's, is being written, or its writer was killed.
TornHasCause ==
  \A n \in FileName : files[n] = Torn =>
    n \in byHand \/ profileKills > 0 \/ \E t \in Tool : tool[t].at = "fill" /\ Target(t) = n

\* A tool has the file it is about to fill to itself, but for a setting that was read
\* from a file of another name.
WritersAreApart ==
  ~collided => \A t, u \in Tool :
    t # u /\ tool[t].at = "fill" /\ tool[u].at # "rest" /\ Target(t) = Target(u)
      => tool[u].at = "open" /\ tool[u].op # "generate"

\* Until it is cut, the file of a draft is missing, and of a setting there is some file
\* of the model; until it is filled, it is torn.
TargetIsKnown ==
  ~collided => \A t \in Tool :
    /\ tool[t].at = "open" => IF tool[t].op = "generate" THEN files[Target(t)] = Missing
                              ELSE \E m \in FileName : files[m].id = tool[t].profile.id
    /\ tool[t].at = "fill" => files[Target(t)] = Torn

\* The setting that a tool is not about to change is the one that was stored.
OtherSettingIsKept ==
  ~collided => \A t \in Tool : tool[t].at # "rest" =>
    /\ tool[t].op = "task" => chosen[tool[t].profile.id].link \subseteq {tool[t].profile.link}
    /\ tool[t].op = "link" => chosen[tool[t].profile.id].task \subseteq {tool[t].profile.task}

\* SettingsAreKept, of all profiles, loadable or not.
ChoicesAreKept ==
  ~collided => \A r \in Repo : files[FileOf[r]].id = r =>
    chosen[r].task \subseteq {files[FileOf[r]].task} /\ chosen[r].link \subseteq {files[FileOf[r]].link}

FilesInv ==
  /\ FileTypes /\ ToolTypes /\ FilesAreSound /\ WritesAreSound /\ TornHasCause
  /\ WritersAreApart /\ TargetIsKnown /\ OtherSettingIsKept /\ ChoicesAreKept

\* A file holds a profile, or it is missing or torn.
LEMMA FileKinds ==
  ASSUME NEW file \in ModelProfile \cup {Missing, Torn}
  PROVE  /\ IsProfile(file) <=> file \in ModelProfile
         /\ Missing # Torn /\ (~IsProfile(file) => file \in {Missing, Torn})
<1>1. Missing.id = NoRepo /\ Torn.id = NoRepo /\ Missing.task # Torn.task
  BY DEF Missing, Torn
<1>2. file \in ModelProfile => file.id # NoRepo
  BY ProfileAssumption DEF ModelProfile
<1> QED
  BY <1>1, <1>2 DEF IsProfile

\* What is drafted for a model is a sound profile of it.
LEMMA DraftIsSound ==
  ASSUME NEW r \in Repo, NEW cached \in SUBSET Repo
  PROVE  Draft(r, cached) \in ModelProfile /\ Draft(r, cached).id = r
         /\ \A written : IsSound(Draft(r, cached), written)
         /\ IsWide(Draft(r, cached))
<1> DEFINE p == Draft(r, cached)
<1>1. p.id = r /\ p \in ModelProfile
  BY ProfileAssumption DEF Draft, ModelProfile, Task
<1>2. p.task = "drafter" => p.link = NoRepo /\ KindOf[p.id] = "drafter"
  BY ProfileAssumption DEF Draft
<1>3. p.link # NoRepo => p.link # p.id /\ KindOf[p.link] = "drafter"
  BY ProfileAssumption DEF Draft
<1>4. ~p.wide => KindOf[p.id] = "short" \/ (BaseOf[p.id] # NoRepo /\ KindOf[BaseOf[p.id]] = "short")
  BY ProfileAssumption DEF Draft
<1> QED
  BY <1>1, <1>2, <1>3, <1>4 DEF IsSound, IsWide

\* What is loaded of a model is a sound profile in some file, and in its own unless the
\* user has written one of the model.
LEMMA LoadedIsInFile ==
  ASSUME FilesInv, NEW r \in Repo, NEW p \in Loads(r)
  PROVE  /\ p \in ModelProfile /\ p.id = r /\ IsSound(p, edited) /\ IsWide(p)
         /\ \E m \in FileName : files[m] = p
         /\ r \notin edited => p = files[FileOf[r]]
         /\ ~collided /\ p = files[FileOf[r]] =>
              chosen[r].task \subseteq {p.task} /\ chosen[r].link \subseteq {p.link}
<1>1. PICK n \in FileName : p = files[n] /\ Loadable(files[n]) /\ files[n].id = r
  BY DEF Loads
<1>2. files[n] \in ModelProfile /\ IsProfile(files[n]) /\ p.wide
  BY <1>1, FileKinds DEF Loadable, FilesInv, FileTypes
<1>3. IsSound(p, edited) /\ (r \notin edited => FileOf[r] = n)
  BY <1>1, <1>2 DEF FilesInv, FilesAreSound
<1>4. IsWide(p)
  BY <1>2 DEF IsWide
<1>5. ~collided /\ p = files[FileOf[r]] =>
        chosen[r].task \subseteq {p.task} /\ chosen[r].link \subseteq {p.link}
  BY <1>1 DEF FilesInv, ChoicesAreKept
<1> QED
  BY <1>1, <1>2, <1>3, <1>4, <1>5

\* Nothing is there, nobody writes.
LEMMA FilesStart == ProfilesInit => FilesInv
<1> SUFFICES ASSUME ProfilesInit PROVE FilesInv
  OBVIOUS
<1>1. \A n \in FileName : files[n] = Missing /\ ~IsProfile(files[n]) /\ files[n] # Torn
  BY DEF ProfilesInit, IsProfile, Missing, Torn
<1>2. \A t \in Tool : tool[t].at = "rest"
  BY DEF ProfilesInit, Resting
<1>3. FileTypes
  BY ProfileAssumption DEF ProfilesInit, FileTypes, Settings, Unset
<1>4. tool \in [Tool -> Writing]
  BY DEF ProfilesInit, Writing, Resting
<1>5. ChoicesAreKept
  BY ProfileAssumption DEF ProfilesInit, ChoicesAreKept, Unset
<1> QED
  BY <1>1, <1>2, <1>3, <1>4, <1>5 DEF FilesInv, ToolTypes, FilesAreSound, WritesAreSound, TornHasCause,
     WritersAreApart, TargetIsKnown, OtherSettingIsKept

\* A tool begins to write a sound profile: a draft where no file is, a setting of a model
\* that some file holds; of the choices, those of the model may be forgotten.
LEMMA PreparingKeeps ==
  ASSUME FilesInv, NEW t \in Tool, tool[t].at = "rest",
         NEW edit \in {"generate", "task", "link"}, t = "cli" => edit = "generate",
         NEW p \in ModelProfile, IsSound(p, edited), IsWide(p),
         IF edit = "generate" THEN files[FileOf[p.id]] = Missing
         ELSE \E m \in FileName : files[m].id = p.id,
         chosen' \in [Repo -> Settings], \A r \in Repo : chosen'[r] \in {chosen[r], Unset},
         ~collided /\ edit = "task" => chosen'[p.id].link \subseteq {p.link},
         ~collided /\ edit = "link" => chosen'[p.id].task \subseteq {p.task},
         Prepares(t, edit, p), UNCHANGED <<files, profileKills, handVars, collided>>
  PROVE  FilesInv'
<1> DEFINE w == [at |-> "open", op |-> edit, profile |-> p]
<1> USE DEF FilesInv, handVars
<1>1. tool \in [Tool -> Writing] /\ w \in Writing /\ p.id \in Repo /\ FileOf[p.id] \in FileName
  BY DEF ToolTypes, Writing, ModelProfile, FileName
<1>2. /\ tool' = [tool EXCEPT ![t] = w] /\ tool' \in [Tool -> Writing]
      /\ tool'[t] = w /\ \A u \in Tool : u # t => tool'[u] = tool[u]
  BY <1>1 DEF Prepares
<1>3. FileTypes' /\ FilesAreSound'
  BY DEF FileTypes, FilesAreSound
<1>4. ToolTypes'
  BY <1>2 DEF ToolTypes
<1>5. WritesAreSound'
  BY <1>2 DEF WritesAreSound
<1>6. TornHasCause'
  <2>1. \A u \in Tool : tool[u].at = "fill" => tool'[u] = tool[u]
    BY <1>2
  <2> QED
    BY <2>1 DEF TornHasCause, Target
<1>7. TargetIsKnown'
  BY <1>2 DEF TargetIsKnown, Target
<1>8. WritersAreApart'
  <2> SUFFICES ASSUME ~collided, NEW u \in Tool, u # t, tool[u].at = "fill", Target(u) = FileOf[p.id]
               PROVE  edit # "generate"
    BY <1>2 DEF WritersAreApart, Target
  <2>1. files[FileOf[p.id]] = Torn
    BY DEF TargetIsKnown
  <2> QED
    BY <2>1 DEF Torn, Missing
<1>9. OtherSettingIsKept'
  <2> SUFFICES ASSUME ~collided, NEW u \in Tool, tool'[u].at # "rest"
               PROVE  /\ tool'[u].op = "task" => chosen'[tool'[u].profile.id].link \subseteq {tool'[u].profile.link}
                      /\ tool'[u].op = "link" => chosen'[tool'[u].profile.id].task \subseteq {tool'[u].profile.task}
    BY DEF OtherSettingIsKept
  <2>1. CASE u = t
    BY <2>1, <1>2
  <2>2. CASE u # t
    <3>1. tool'[u] = tool[u] /\ tool[u].profile.id \in Repo
      BY <2>2, <1>2 DEF ToolTypes, ModelProfile
    <3>2. chosen'[tool[u].profile.id] \in {chosen[tool[u].profile.id], Unset}
      BY <3>1
    <3> QED
      BY <3>1, <3>2 DEF OtherSettingIsKept, Unset
  <2> QED
    BY <2>1, <2>2
<1>10. ChoicesAreKept'
  BY DEF ChoicesAreKept, Unset
<1> QED
  BY <1>3, <1>4, <1>5, <1>6, <1>7, <1>8, <1>9, <1>10

\* A profile is generated where no file is.
LEMMA GeneratingKeeps ==
  ASSUME FilesInv, NEW t \in Tool, NEW r \in Repo, Generates(t, r)
  PROVE  FilesInv'
<1>1. PICK cached \in SUBSET Repo : Prepares(t, "generate", Draft(r, cached))
  BY DEF Generates
<1>2. chosen' \in [Repo -> Settings] /\ \A q \in Repo : chosen'[q] \in {chosen[q], Unset}
  BY DEF Generates, FilesInv, FileTypes
<1> QED
  BY <1>1, <1>2, DraftIsSound, PreparingKeeps DEF Generates

\* A setting is about the profile that was loaded.
LEMMA ChangingKeeps ==
  ASSUME FilesInv, tool["app"].at = "rest", NEW r \in Repo, NEW p \in Loads(r),
         NEW edit \in {"task", "link"},
         NEW q \in ModelProfile, q.id = r, IsSound(q, edited), IsWide(q),
         edit = "task" => q.link = p.link, edit = "link" => q.task = p.task,
         Changes(edit, p, q), UNCHANGED <<files, profileKills, handVars, collided>>
  PROVE  FilesInv'
<1>1. "app" \in Tool /\ "app" # "cli"
  BY DEF Tool
<1>2. p.id = r /\ \E m \in FileName : files[m].id = r
  BY LoadedIsInFile
<1>3. chosen' = IF p = files[FileOf[r]] THEN chosen ELSE [chosen EXCEPT ![r] = Unset]
  BY <1>2 DEF Changes
<1>4. chosen \in [Repo -> Settings] /\ Unset \in Settings
  BY DEF FilesInv, FileTypes, Unset, Settings
<1>5. chosen' \in [Repo -> Settings] /\ \A o \in Repo : chosen'[o] \in {chosen[o], Unset}
  BY <1>3, <1>4
<1>6. ~collided => chosen'[r].task \subseteq {p.task} /\ chosen'[r].link \subseteq {p.link}
  BY <1>3, <1>4, LoadedIsInFile DEF Unset
<1> QED
  BY <1>1, <1>2, <1>5, <1>6, PreparingKeeps DEF Changes

\* So the settings of a task and of a drafter keep the invariant.
LEMMA SettingKeeps ==
  ASSUME FilesInv, NEW r \in Repo,
         (\E task \in Task : Retasks(r, task)) \/ (\E d \in Repo \cup {NoRepo} : Links(r, d))
  PROVE  FilesInv'
<1>1. ASSUME NEW task \in Task, Retasks(r, task)
      PROVE  FilesInv'
  <2>1. PICK p \in Loads(r) : Changes("task", p, [p EXCEPT !.task = task])
    BY <1>1 DEF Retasks
  <2>2. p \in ModelProfile /\ p.id = r /\ IsSound(p, edited) /\ IsWide(p)
    BY LoadedIsInFile
  <2> DEFINE q == [p EXCEPT !.task = task]
  <2>3. q \in ModelProfile /\ q.id = r /\ q.link = p.link /\ q.wide = p.wide /\ q.task # "drafter"
    BY <2>2 DEF ModelProfile, Task
  <2>4. IsSound(q, edited) /\ IsWide(q)
    BY <2>2, <2>3 DEF IsSound, IsWide
  <2> HIDE DEF q
  <2> QED
    BY <1>1, <2>1, <2>3, <2>4, ChangingKeeps DEF Retasks, q
<1>2. ASSUME NEW d \in Repo \cup {NoRepo}, Links(r, d)
      PROVE  FilesInv'
  <2>1. PICK p \in Loads(r) : p.task # "drafter" /\ Changes("link", p, [p EXCEPT !.link = d])
    BY <1>2 DEF Links
  <2>2. /\ p \in ModelProfile /\ p.id = r /\ IsSound(p, edited) /\ IsWide(p)
        /\ r \notin edited => p = files[FileOf[r]]
    BY LoadedIsInFile
  <2> DEFINE q == [p EXCEPT !.link = d]
  <2>3. q \in ModelProfile /\ q.id = r /\ q.link = d /\ q.wide = p.wide /\ q.task = p.task
    BY <2>2 DEF ModelProfile
  <2>4. ASSUME d # NoRepo, r \notin edited
        PROVE  d # r /\ (KindOf[d] = "drafter" \/ d \in edited)
    <3>1. PICK o \in Loads(d) : o.task = "drafter"
      BY <1>2, <2>4 DEF Links
    <3>2. d \in Repo
      BY <2>4
    <3>3. o.id = d /\ IsSound(o, edited) /\ (d \notin edited => o = files[FileOf[d]])
      BY <3>2, LoadedIsInFile
    <3>4. d # r
      BY <3>1, <3>3, <2>1, <2>2, <2>4
    <3> QED
      BY <3>1, <3>3, <3>4 DEF IsSound
  <2>5. IsSound(q, edited) /\ IsWide(q)
    BY <2>1, <2>2, <2>3, <2>4 DEF IsSound, IsWide
  <2> HIDE DEF q
  <2> QED
    BY <1>2, <2>1, <2>3, <2>5, ChangingKeeps DEF Links, q
<1> QED
  BY <1>1, <1>2

\* A file is cut: it is the writer's alone, or there has been a collision.
LEMMA OpeningKeeps ==
  ASSUME FilesInv, NEW t \in Tool, OpensFile(t)
  PROVE  FilesInv'
<1> USE DEF FilesInv
<1> DEFINE n == Target(t)
<1>1. /\ tool \in [Tool -> Writing] /\ tool[t].profile \in ModelProfile /\ tool[t].profile.id \in Repo
      /\ n \in FileName
  BY DEF ToolTypes, ModelProfile, FileName, OpensFile, Target
<1>2. /\ files' = [files EXCEPT ![n] = Torn] /\ files \in [FileName -> ModelProfile \cup {Missing, Torn}]
      /\ files'[n] = Torn /\ \A m \in FileName : m # n => files'[m] = files[m]
  BY <1>1 DEF OpensFile, Target, FileTypes
<1>3. /\ tool' = [tool EXCEPT ![t].at = "fill"] /\ tool' \in [Tool -> Writing]
      /\ tool'[t].at = "fill" /\ tool'[t].profile = tool[t].profile /\ tool'[t].op = tool[t].op
      /\ \A u \in Tool : u # t => tool'[u] = tool[u]
  BY <1>1 DEF OpensFile, Writing
<1>4. \A u \in Tool : tool'[u].profile = tool[u].profile /\ Target(u)' = Target(u)
  BY <1>3 DEF Target
<1>5. collided' = (collided \/ \E u \in Tool \ {t} : tool[u].at # "rest" /\ Target(u) = n)
  BY DEF OpensFile, Target
<1>6. /\ tool[t].at = "open" /\ chosen' = chosen /\ profileKills' = profileKills
      /\ edits' = edits /\ edited' = edited /\ byHand' = byHand \ {n}
  BY DEF OpensFile, Target
<1>7. ~IsProfile(Torn)
  BY DEF IsProfile, Torn, Missing
<1>8. FileTypes'
  BY <1>2, <1>6 DEF FileTypes
<1>9. ToolTypes' /\ WritesAreSound'
  BY <1>3, <1>6 DEF ToolTypes, WritesAreSound
<1>10. FilesAreSound'
  BY <1>2, <1>6, <1>7 DEF FilesAreSound
<1>11. TornHasCause'
  BY <1>2, <1>3, <1>4, <1>6 DEF TornHasCause
<1>12. WritersAreApart'
  <2> SUFFICES ASSUME ~collided', NEW u \in Tool, NEW v \in Tool, u # v,
                      tool'[u].at = "fill", tool'[v].at # "rest", Target(u) = Target(v)
               PROVE  tool'[v].at = "open" /\ tool'[v].op # "generate"
    BY <1>4 DEF WritersAreApart
  <2>1. u # t /\ v # t
    BY <1>3, <1>5
  <2> QED
    BY <2>1, <1>3, <1>5 DEF WritersAreApart
<1>13. TargetIsKnown'
  <2> SUFFICES ASSUME ~collided', NEW u \in Tool, tool'[u].at # "rest"
               PROVE  /\ tool'[u].at = "open" => IF tool'[u].op = "generate" THEN files'[Target(u)] = Missing
                           ELSE \E m \in FileName : files'[m].id = tool'[u].profile.id
                      /\ tool'[u].at = "fill" => files'[Target(u)] = Torn
    BY <1>4 DEF TargetIsKnown
  <2>1. CASE u = t
    BY <2>1, <1>2, <1>3
  <2>2. CASE u # t
    <3>1. Target(u) # n /\ Target(u) \in FileName
      BY <2>2, <1>3, <1>5 DEF ToolTypes, ModelProfile, FileName, Target
    <3>2. tool'[u] = tool[u] /\ ~collided /\ tool[u].at # "rest"
      BY <2>2, <1>3, <1>5
    <3>3. CASE tool[u].op = "generate"
      BY <3>1, <3>2, <3>3, <1>2 DEF TargetIsKnown
    <3>4. CASE tool[u].op # "generate"
      <4>1. tool[t].op = "generate"
        BY <2>2, <3>2, <3>4, <1>6 DEF ToolTypes, Tool
      <4>2. files[n] = Missing /\ Missing.id = NoRepo /\ tool[u].profile.id # NoRepo
        BY <3>2, <4>1, <1>6, ProfileAssumption DEF TargetIsKnown, Missing, ToolTypes, ModelProfile
      <4> QED
        BY <3>1, <3>2, <3>4, <4>2, <1>2 DEF TargetIsKnown
    <3> QED
      BY <3>3, <3>4
  <2> QED
    BY <2>1, <2>2
<1>14. OtherSettingIsKept'
  BY <1>3, <1>5, <1>6, ZenonT(40) DEF OtherSettingIsKept
<1>15. ChoicesAreKept'
  <2>1. \A r \in Repo : FileOf[r] \in FileName /\ Torn.id # r
    BY ProfileAssumption DEF FileName, Torn, Missing
  <2> QED
    BY <2>1, <1>2, <1>5, <1>6 DEF ChoicesAreKept
<1> QED
  BY <1>8, <1>9, <1>10, <1>11, <1>12, <1>13, <1>14, <1>15

\* The file gets the profile, and the choice is on record.
LEMMA FillingKeeps ==
  ASSUME FilesInv, NEW t \in Tool, FillsFile(t)
  PROVE  FilesInv'
<1> USE DEF FilesInv
<1> DEFINE n == Target(t)
           p == tool[t].profile
           edit == tool[t].op
<1>1. /\ tool \in [Tool -> Writing] /\ p \in ModelProfile /\ p.id \in Repo
      /\ n \in FileName /\ n = FileOf[p.id] /\ edit \in {"generate", "task", "link"}
  BY DEF ToolTypes, Writing, ModelProfile, FileName, FillsFile, Target
<1>2. /\ files' = [files EXCEPT ![n] = p] /\ files \in [FileName -> ModelProfile \cup {Missing, Torn}]
      /\ files'[n] = p /\ \A m \in FileName : m # n => files'[m] = files[m]
  BY <1>1 DEF FillsFile, Target, FileTypes
<1>3. Resting \in Writing /\ Resting.at = "rest"
  BY DEF Resting, Writing
<1>4. /\ tool' = [tool EXCEPT ![t] = Resting] /\ tool' \in [Tool -> Writing]
      /\ tool'[t].at = "rest" /\ \A u \in Tool : u # t => tool'[u] = tool[u] /\ Target(u)' = Target(u)
  BY <1>1, <1>3 DEF FillsFile, Target
<1>5. /\ tool[t].at = "fill" /\ profileKills' = profileKills /\ collided' = collided /\ chosen' = Chooses(edit, p)
      /\ edits' = edits /\ edited' = edited /\ byHand' = byHand
  BY DEF FillsFile, handVars
<1>6. IsProfile(p) /\ p # Torn /\ p # Missing
  BY <1>1, FileKinds, ProfileAssumption DEF IsProfile, Torn, Missing, ModelProfile
<1>7. /\ chosen' \in [Repo -> Settings] /\ \A r \in Repo : r # p.id => chosen'[r] = chosen[r]
      /\ edit = "generate" => chosen'[p.id] = Unset
      /\ edit = "task" => chosen'[p.id].task = {p.task} /\ chosen'[p.id].link = chosen[p.id].link
      /\ edit = "link" => chosen'[p.id].link = {p.link} /\ chosen'[p.id].task = chosen[p.id].task
  <2>1. chosen \in [Repo -> Settings] /\ Unset \in Settings
    BY DEF FileTypes, Unset, Settings
  <2>2. p.task \in Task \cup {"drafter"} /\ p.link \in Repo \cup {NoRepo}
    BY <1>1 DEF ModelProfile
  <2>3. CASE edit = "generate"
    <3>1. chosen' = [chosen EXCEPT ![p.id] = Unset]
      BY <1>5, <2>3 DEF Chooses
    <3> QED
      BY <1>1, <2>1, <2>3, <3>1
  <2>4. CASE edit = "task"
    <3>1. chosen' = [chosen EXCEPT ![p.id].task = {p.task}]
      BY <1>5, <2>4 DEF Chooses
    <3> QED
      BY <1>1, <2>1, <2>2, <2>4, <3>1 DEF Settings
  <2>5. CASE edit = "link"
    <3>1. chosen' = [chosen EXCEPT ![p.id].link = {p.link}]
      BY <1>5, <2>5 DEF Chooses
    <3> QED
      BY <1>1, <2>1, <2>2, <2>5, <3>1 DEF Settings
  <2> QED
    BY <1>1, <2>3, <2>4, <2>5
<1>8. IsSound(p, edited) /\ IsWide(p)
  BY <1>5 DEF WritesAreSound
<1> HIDE DEF n, p, edit
<1>9. FileTypes'
  BY <1>1, <1>2, <1>5, <1>7 DEF FileTypes
<1>10. ToolTypes' /\ WritesAreSound'
  BY <1>4, <1>5 DEF ToolTypes, WritesAreSound
<1>11. FilesAreSound'
  BY <1>1, <1>2, <1>5, <1>8 DEF FilesAreSound
<1>12. TornHasCause'
  BY <1>2, <1>4, <1>5, <1>6 DEF TornHasCause, n
<1>13. WritersAreApart'
  BY <1>4, <1>5 DEF WritersAreApart
<1>14. TargetIsKnown'
  <2> SUFFICES ASSUME ~collided, NEW u \in Tool, u # t, tool[u].at # "rest"
               PROVE  /\ tool[u].at = "open" => IF tool[u].op = "generate" THEN files'[Target(u)] = Missing
                           ELSE \E m \in FileName : files'[m].id = tool[u].profile.id
                      /\ tool[u].at = "fill" => files'[Target(u)] = Torn
    BY <1>4, <1>5 DEF TargetIsKnown
  <2>1. Target(u) \in FileName /\ tool[u].profile.id # NoRepo
    BY ProfileAssumption DEF ToolTypes, ModelProfile, FileName, Target
  <2>2. Target(u) = n => tool[u].at = "open" /\ tool[u].op # "generate"
    BY <1>5 DEF WritersAreApart, n
  <2>3. files[n].id = NoRepo
    BY <1>5 DEF TargetIsKnown, n, Torn, Missing
  <2> QED
    BY <1>1, <1>2, <2>1, <2>2, <2>3 DEF TargetIsKnown
<1>15. OtherSettingIsKept'
  <2> SUFFICES ASSUME ~collided, NEW u \in Tool, u # t, tool[u].at # "rest", tool[u].op # "generate"
               PROVE  /\ tool[u].op = "task" => chosen'[tool[u].profile.id].link \subseteq {tool[u].profile.link}
                      /\ tool[u].op = "link" => chosen'[tool[u].profile.id].task \subseteq {tool[u].profile.task}
    BY <1>4, <1>5 DEF OtherSettingIsKept
  <2>1. edit = "generate"
    BY <1>5 DEF ToolTypes, Tool, edit
  <2>2. tool[u].profile.id \in Repo
    BY DEF ToolTypes, ModelProfile
  <2>3. chosen'[tool[u].profile.id] \in {chosen[tool[u].profile.id], Unset}
    BY <1>7, <2>1, <2>2
  <2> QED
    BY <2>3 DEF OtherSettingIsKept, Unset
<1>16. ChoicesAreKept'
  <2> SUFFICES ASSUME ~collided, NEW r \in Repo, files'[FileOf[r]].id = r
               PROVE  chosen'[r].task \subseteq {files'[FileOf[r]].task} /\ chosen'[r].link \subseteq {files'[FileOf[r]].link}
    BY <1>5 DEF ChoicesAreKept
  <2>0. FileOf[r] \in FileName
    BY DEF FileName
  <2>1. CASE FileOf[r] = n
    <3>1. /\ edit = "task" => chosen[p.id].link \subseteq {p.link}
          /\ edit = "link" => chosen[p.id].task \subseteq {p.task}
      BY <1>5 DEF OtherSettingIsKept, edit, p
    <3>2. r = p.id /\ files'[FileOf[r]] = p
      BY <2>1, <1>2
    <3> QED
      BY <3>1, <3>2, <1>1, <1>7 DEF Unset
  <2>2. CASE FileOf[r] # n
    BY <2>0, <2>2, <1>1, <1>2, <1>7 DEF ChoicesAreKept
  <2> QED
    BY <2>1, <2>2
<1> QED
  BY <1>9, <1>10, <1>11, <1>12, <1>13, <1>14, <1>15, <1>16

\* A tool that is killed may leave a torn file.
LEMMA KillKeeps ==
  ASSUME FilesInv, NEW t \in Tool, ToolKilled(t)
  PROVE  FilesInv'
<1> USE DEF FilesInv
<1>1. Resting \in Writing /\ Resting.at = "rest" /\ tool \in [Tool -> Writing]
  BY DEF Resting, Writing, ToolTypes
<1>2. /\ tool' \in [Tool -> Writing] /\ tool'[t].at = "rest"
      /\ \A u \in Tool : u # t => tool'[u] = tool[u] /\ Target(u)' = Target(u)
  BY <1>1 DEF ToolKilled, Target
<1>3. profileKills' = profileKills + 1 /\ profileKills' \in Nat /\ profileKills' <= MaxProfileKills /\ profileKills' > 0
  BY ProfileAssumption DEF ToolKilled, FileTypes
<1>4. /\ files' = files /\ chosen' = chosen /\ collided' = collided
      /\ edits' = edits /\ edited' = edited /\ byHand' = byHand
  BY DEF ToolKilled, handVars
<1>5. FileTypes' /\ FilesAreSound' /\ ChoicesAreKept'
  BY <1>3, <1>4 DEF FileTypes, FilesAreSound, ChoicesAreKept
<1>6. ToolTypes' /\ WritesAreSound'
  BY <1>2, <1>4 DEF ToolTypes, WritesAreSound
<1>7. TornHasCause'
  BY <1>3 DEF TornHasCause
<1>8. WritersAreApart' /\ TargetIsKnown'
  BY <1>2, <1>4 DEF WritersAreApart, TargetIsKnown
<1>9. OtherSettingIsKept'
  BY <1>2, <1>4 DEF OtherSettingIsKept
<1> QED
  BY <1>5, <1>6, <1>7, <1>8, <1>9

\* The user removes or writes a file while nothing else is written.
LEMMA HandKeeps ==
  ASSUME FilesInv, NEW n \in FileName, NEW file \in ModelProfile \cup {Missing, Torn},
         HandTakes(n, file), edits' \in Nat, edits' <= MaxEdits,
         \A m \in FileName : m # n => (m \in byHand' <=> m \in byHand),
         file # Missing => n \in byHand',
         edited \subseteq edited', IsProfile(file) => file.id \in edited'
  PROVE  FilesInv'
<1> USE DEF FilesInv
<1>1. \A t \in Tool : tool[t].at = "rest"
  BY DEF HandTakes
<1>2. tool' = tool /\ profileKills' = profileKills /\ collided' = collided
  BY DEF HandTakes
<1>3. /\ files' = [files EXCEPT ![n] = file] /\ files'[n] = file
      /\ files' \in [FileName -> ModelProfile \cup {Missing, Torn}]
      /\ \A m \in FileName : m # n => files'[m] = files[m]
  BY DEF HandTakes, FileTypes
<1>4. /\ chosen' \in [Repo -> Settings]
      /\ \A r \in Repo : chosen'[r] \in {chosen[r], Unset} /\ (FileOf[r] = n => chosen'[r] = Unset)
  BY DEF HandTakes, FileTypes, Settings, Unset
<1>5. ~IsProfile(Missing) /\ Missing # Torn
  BY DEF IsProfile, Missing, Torn
<1>6. FileTypes' /\ ToolTypes' /\ WritesAreSound'
  BY <1>1, <1>2, <1>3, <1>4 DEF FileTypes, ToolTypes, WritesAreSound
<1>7. FilesAreSound'
  <2> SUFFICES ASSUME NEW m \in FileName, IsProfile(files'[m])
               PROVE  /\ IsSound(files'[m], edited')
                      /\ files'[m].id \notin edited' => FileOf[files'[m].id] = m
                      /\ m \notin byHand' => IsWide(files'[m]) /\ FileOf[files'[m].id] = m
    BY DEF FilesAreSound
  <2>1. CASE m = n
    BY <2>1, <1>3, <1>5 DEF IsSound
  <2>2. CASE m # n
    <3>1. files'[m] = files[m]
      BY <2>2, <1>3
    <3>2. /\ IsSound(files[m], edited)
          /\ files[m].id \notin edited => FileOf[files[m].id] = m
          /\ m \notin byHand => IsWide(files[m]) /\ FileOf[files[m].id] = m
      BY <3>1 DEF FilesAreSound
    <3>3. IsSound(files[m], edited')
      BY <3>2 DEF IsSound
    <3> QED
      BY <2>2, <3>1, <3>2, <3>3
  <2> QED
    BY <2>1, <2>2
<1>8. TornHasCause'
  BY <1>1, <1>2, <1>3, <1>5 DEF TornHasCause
<1>9. WritersAreApart' /\ TargetIsKnown' /\ OtherSettingIsKept'
  BY <1>1, <1>2 DEF WritersAreApart, TargetIsKnown, OtherSettingIsKept
<1>10. ChoicesAreKept'
  <2>1. \A r \in Repo : FileOf[r] \in FileName
    BY DEF FileName
  <2> QED
    BY <2>1, <1>2, <1>3, <1>4 DEF ChoicesAreKept, Unset
<1> QED
  BY <1>6, <1>7, <1>8, <1>9, <1>10

\* Both are such steps.
LEMMA UserKeeps ==
  ASSUME FilesInv, NEW n \in FileName,
         UserDeletes(n) \/ \E file \in HandWritten \cup {Torn} : UserWrites(n, file)
  PROVE  FilesInv'
<1>1. edits \in Nat /\ edits <= MaxEdits /\ ~IsProfile(Missing)
  BY DEF FilesInv, FileTypes, IsProfile, Missing
<1>2. CASE UserDeletes(n)
  BY <1>1, <1>2, HandKeeps DEF UserDeletes
<1>3. ASSUME NEW file \in HandWritten \cup {Torn}, UserWrites(n, file) PROVE FilesInv'
  <2>1. file \in ModelProfile \cup {Missing, Torn}
    BY HandAssumption
  <2>2. edits' \in Nat /\ edits' <= MaxEdits
    BY <1>1, <1>3, ProfileAssumption DEF UserWrites
  <2>3. IsProfile(file) => file.id \in edited'
    BY <1>3 DEF UserWrites, IsProfile
  <2> QED
    BY <1>3, <2>1, <2>2, <2>3, HandKeeps DEF UserWrites
<1> QED
  BY <1>2, <1>3

\* Every step.
LEMMA FilesKept == FilesInv /\ [ProfilesNext]_profileVars => FilesInv'
<1> SUFFICES ASSUME FilesInv, [ProfilesNext]_profileVars PROVE FilesInv'
  OBVIOUS
<1>1. CASE \E r \in Repo, t \in Tool : Generates(t, r)
  BY <1>1, GeneratingKeeps
<1>2. CASE \E t \in Tool : OpensFile(t) \/ FillsFile(t) \/ ToolKilled(t)
  BY <1>2, OpeningKeeps, FillingKeeps, KillKeeps
<1>3. CASE \E r \in Repo : \/ \E task \in Task : Retasks(r, task)
                           \/ \E d \in Repo \cup {NoRepo} : Links(r, d)
  BY <1>3, SettingKeeps
<1>4. CASE \E n \in FileName : \/ UserDeletes(n)
                             \/ \E file \in HandWritten \cup {Torn} : UserWrites(n, file)
  BY <1>4, UserKeeps
<1>5. CASE UNCHANGED profileVars
  <2>1. FileTypes' /\ ToolTypes' /\ FilesAreSound' /\ WritesAreSound'
    BY <1>5 DEF profileVars, handVars, FilesInv, FileTypes, ToolTypes, FilesAreSound, WritesAreSound
  <2>2. TornHasCause' /\ WritersAreApart' /\ TargetIsKnown'
    BY <1>5 DEF profileVars, handVars, FilesInv, TornHasCause, WritersAreApart, TargetIsKnown, Target
  <2>3. OtherSettingIsKept' /\ ChoicesAreKept'
    BY <1>5 DEF profileVars, handVars, FilesInv, OtherSettingIsKept, ChoicesAreKept
  <2> QED
    BY <2>1, <2>2, <2>3 DEF FilesInv
<1> QED
  BY <1>1, <1>2, <1>3, <1>4, <1>5 DEF ProfilesNext

\* What a run checks follows.
LEMMA FilesInvGives == FilesInv => FilesAreRight
<1> SUFFICES ASSUME FilesInv PROVE FilesAreRight
  OBVIOUS
<1> USE DEF FilesInv
<1>1. ProfilesTypeOK
  BY ProfileAssumption DEF ProfilesTypeOK, FileTypes, ToolTypes, Writing
<1>2. DraftersStandAlone
  BY DEF DraftersStandAlone, FilesAreSound, IsSound
<1>3. BrokenHasCause
  <2> SUFFICES ASSUME NEW n \in Broken
               PROVE  \/ \E t \in Tool : tool[t].at = "fill" /\ FileOf[tool[t].profile.id] = n
                      \/ profileKills > 0
                      \/ n \in byHand
                      \/ \E r \in Repo : /\ FileOf[r] = n
                                        /\ \/ KindOf[r] = "short"
                                           \/ BaseOf[r] # NoRepo /\ KindOf[BaseOf[r]] = "short"
    BY DEF BrokenHasCause
  <2>1. n \in FileName /\ files[n] # Missing /\ ~Loadable(files[n]) /\ files[n] \in ModelProfile \cup {Missing, Torn}
    BY DEF Broken, FileTypes
  <2>2. CASE files[n] = Torn
    BY <2>1, <2>2 DEF TornHasCause, Target
  <2>3. CASE files[n] \in ModelProfile
    <3>1. IsProfile(files[n]) /\ ~files[n].wide /\ files[n].id \in Repo
      BY <2>1, <2>3, FileKinds DEF Loadable, ModelProfile
    <3> QED
      BY <2>1, <3>1 DEF FilesAreSound, IsWide
  <2> QED
    BY <2>1, <2>2, <2>3
<1>4. SettingsAreKept
  BY LoadedIsInFile DEF SettingsAreKept
<1> QED
  BY <1>1, <1>2, <1>3, <1>4 DEF FilesAreRight

\* FilesInv holds in every state.
LEMMA FilesInvariant == ProfilesSpec => []FilesInv
<1> QED
  BY FilesStart, FilesKept, PTL DEF ProfilesSpec

\* The app and the command line, writing profiles side by side in files that a kill may cut
\* and the user may write, keep the settings he has chosen in the file of the model; what is
\* broken has its cause: for any models, file names, kinds and files of his own (profile.rs).
THEOREM FilesAreKept == ProfilesSpec => []FilesAreRight
<1> QED
  BY FilesInvariant, FilesInvGives, PTL

\* A file with a profile is cut only for a setting of the same model, or of one that was read
\* from a file of another name, unless two tools have collided (write_profile_draft refuses an
\* existing file).
THEOREM SettingsReplaceOnly == ProfilesSpec => OnlySettingsReplace
<1>1. ASSUME FilesInv, [ProfilesNext]_profileVars, NEW n \in FileName, IsProfile(files[n]), files'[n] = Torn
      PROVE  BySetting(n) \/ edits' # edits \/ collided'
  <2> USE DEF BySetting
  <2>1. files[n] # Torn /\ files[n] # Missing
    BY <1>1 DEF IsProfile, Torn, Missing
  <2>2. ASSUME NEW t \in Tool, OpensFile(t)
        PROVE  BySetting(n) \/ collided'
    <3>0. tool[t].at # "rest" /\ tool[t] \in Writing /\ FilesInv
      BY <1>1, <2>2 DEF FilesInv, ToolTypes, OpensFile
    <3>1. /\ tool[t].profile \in ModelProfile /\ tool[t].op \in {"generate", "task", "link"}
          /\ Target(t) \in FileName
      BY <3>0 DEF FilesInv, ToolTypes, Writing, ModelProfile, Target, FileName
    <3>2. Target(t) = n
      BY <2>1, <2>2, <3>1, <1>1 DEF OpensFile, Target, FilesInv, FileTypes
    <3>3. collided => collided'
      BY <2>2 DEF OpensFile
    <3>4. CASE tool[t].op = "generate"
      BY <3>0, <2>1, <2>2, <3>2, <3>3, <3>4 DEF FilesInv, TargetIsKnown, OpensFile
    <3>5. CASE tool[t].op # "generate"
      <4>1. t = "app"
        BY <3>0, <2>2, <3>5 DEF FilesInv, ToolTypes, OpensFile, Tool
      <4>2. ~collided => \E m \in FileName : files[m].id = tool["app"].profile.id
        BY <3>0, <4>1, <2>2, <3>5 DEF FilesInv, TargetIsKnown, OpensFile
      <4>3. FileOf[tool["app"].profile.id] = n
        BY <3>2, <4>1 DEF Target
      <4> QED
        BY <4>1, <4>2, <4>3, <3>1, <3>3, <3>5
    <3> QED
      BY <3>4, <3>5
  <2>3. ASSUME NEW t \in Tool, FillsFile(t)
        PROVE  files'[n] # Torn
    <3>1. tool[t].profile \in ModelProfile /\ files' = [files EXCEPT ![Target(t)] = tool[t].profile]
      BY <2>3, <1>1 DEF FilesInv, ToolTypes, FillsFile, Target
    <3>2. tool[t].profile # Torn
      BY <3>1, ProfileAssumption DEF ModelProfile, Torn, Missing
    <3> QED
      BY <2>1, <3>1, <3>2, <1>1 DEF FilesInv, FileTypes
  <2>4. ASSUME NEW m \in FileName, UserDeletes(m)
        PROVE  files'[n] # Torn
    BY <2>1, <2>4, <1>1 DEF UserDeletes, HandTakes, FilesInv, FileTypes, Torn, Missing
  <2>5. ASSUME NEW m \in FileName, NEW file \in HandWritten \cup {Torn}, UserWrites(m, file)
        PROVE  edits' # edits
    BY <2>5, <1>1 DEF UserWrites, FilesInv, FileTypes
  <2>6. files' # files
    BY <1>1, <2>1
  <2> QED
    BY <1>1, <2>2, <2>3, <2>4, <2>5, <2>6 DEF ProfilesNext, profileVars, Generates, ToolKilled, Retasks, Links
<1>2. FilesInv /\ [ProfilesNext]_profileVars
      => [\A n \in FileName : IsProfile(files[n]) /\ files'[n] = Torn =>
            BySetting(n) \/ edits' # edits \/ collided']_profileVars
  BY <1>1
<1> QED
  BY <1>2, FilesInvariant, PTL DEF ProfilesSpec, OnlySettingsReplace

-----------------------------------------------------------------------------
(* Sums over finite sets *)

\* The sum as MapThenSumSet computes it: set by set, taking out one element.
First(s) == CHOOSE x \in s : TRUE
IsTotal(f, S, g) == g = [s \in SUBSET S |-> IF s = {} THEN 0 ELSE f[First(s)] + g[s \ {First(s)}]]
Total(f, S) == (CHOOSE g : IsTotal(f, S, g))[S]

LEMMA SumIsTotal ==
  ASSUME NEW f, NEW S
  PROVE  MapThenSumSet(LAMBDA r : f[r], S) = Total(f, S)
BY DEF MapThenSumSet, MapThenFoldSet, Total, IsTotal, First

\* Of finite sets there is a smallest.
LEMMA SmallestSet ==
  ASSUME NEW S, IsFiniteSet(S), NEW T \in SUBSET (SUBSET S), T # {}
  PROVE  \E x \in T : \A y \in T : y \subseteq x => y = x
<1>1. T \subseteq FiniteSubsetsOf(S)
  BY FS_Subset DEF FiniteSubsetsOf
<1>2. PICK x \in T : \A y \in T : ~ (<<y, x>> \in StrictSubsetOrdering(S))
  BY <1>1, FS_StrictSubsetOrderingWellFounded, WFMin
<1>3. ASSUME NEW y \in T, y \subseteq x, y # x PROVE FALSE
  <2>1. <<y, x>> \in (SUBSET S) \X (SUBSET S)
    OBVIOUS
  <2>2. <<y, x>> \in StrictSubsetOrdering(S)
    BY <2>1, <1>3 DEF StrictSubsetOrdering
  <2> QED
    BY <2>2, <1>2
<1> QED
  BY <1>3

\* There is a function for every finite set.
LEMMA OneTotal ==
  ASSUME NEW f, NEW S, IsFiniteSet(S), NEW g, NEW h, NEW U \in SUBSET S, NEW V \in SUBSET S,
         IsTotal(f, U, g), IsTotal(f, V, h), NEW s \in SUBSET (U \cap V)
  PROVE  g[s] = h[s]
<1> DEFINE Bad == {x \in SUBSET (U \cap V) : g[x] # h[x]}
<1> SUFFICES ASSUME Bad # {} PROVE FALSE
  OBVIOUS
<1>1. PICK x \in Bad : \A y \in Bad : y \subseteq x => y = x
  <2>1. Bad \in SUBSET (SUBSET S)
    OBVIOUS
  <2> HIDE DEF Bad
  <2> QED
    BY <2>1, SmallestSet
<1>2. x # {}
  BY <1>1 DEF IsTotal
<1>3. First(x) \in x
  BY <1>2 DEF First
<1>4. x \ {First(x)} \notin Bad /\ x \ {First(x)} \in SUBSET (U \cap V)
  BY <1>1, <1>3
<1>5. g[x \ {First(x)}] = h[x \ {First(x)}]
  BY <1>4
<1>6. g[x] = f[First(x)] + g[x \ {First(x)}] /\ h[x] = f[First(x)] + h[x \ {First(x)}]
  BY <1>1, <1>2 DEF IsTotal
<1> QED
  BY <1>1, <1>5, <1>6

LEMMA TotalExists ==
  ASSUME NEW f, NEW S, IsFiniteSet(S)
  PROVE  \E g : IsTotal(f, S, g)
<1> DEFINE Bad == {x \in SUBSET S : ~ \E g : IsTotal(f, x, g)}
<1> SUFFICES ASSUME Bad # {} PROVE FALSE
  OBVIOUS
<1>1. PICK x \in Bad : \A y \in Bad : y \subseteq x => y = x
  <2>1. Bad \in SUBSET (SUBSET S)
    OBVIOUS
  <2> HIDE DEF Bad
  <2> QED
    BY <2>1, SmallestSet
<1> DEFINE share(y) == CHOOSE g : IsTotal(f, y, g)
           h == [s \in SUBSET x |-> IF s = {} THEN 0 ELSE f[First(s)] + share(s \ {First(s)})[s \ {First(s)}]]
<1>2. \A y \in SUBSET x : y # x => IsTotal(f, y, share(y))
  BY <1>1
<1>3. \A s \in SUBSET x : s # {} => First(s) \in s
  BY DEF First
<1>4. \A y \in SUBSET x : y # x => share(y)[y] = h[y]
  <2> SUFFICES ASSUME NEW y \in SUBSET x, y # x PROVE share(y)[y] = h[y]
    OBVIOUS
  <2>1. IsTotal(f, y, share(y))
    BY <1>2
  <2>2. CASE y = {}
    BY <2>1, <2>2 DEF IsTotal
  <2>3. CASE y # {}
    <3> DEFINE z == y \ {First(y)}
    <3>1. z \in SUBSET y /\ z \in SUBSET x /\ z # x /\ IsTotal(f, z, share(z))
      BY <2>3, <1>2, <1>3
    <3>2. share(y)[z] = share(z)[z]
      <4>0. x \in SUBSET S
        OBVIOUS
      <4> HIDE DEF z, share, Bad, h
      <4>1. y \in SUBSET S /\ z \in SUBSET S /\ z \in SUBSET (y \cap z)
        BY <3>1, <4>0
      <4> QED
        BY <4>1, <2>1, <3>1, OneTotal
    <3>3. share(y)[y] = f[First(y)] + share(y)[z]
      <4> HIDE DEF share
      <4> QED
        BY <2>1, <2>3 DEF IsTotal
    <3> QED
      BY <3>2, <3>3, <2>3
  <2> QED
    BY <2>2, <2>3
<1>5. IsTotal(f, x, h)
  <2>1. \A s \in SUBSET x : s # {} => s \ {First(s)} \in SUBSET x /\ s \ {First(s)} # x
    BY <1>3
  <2>2. \A s \in SUBSET x : s # {} => share(s \ {First(s)})[s \ {First(s)}] = h[s \ {First(s)}]
    BY <2>1, <1>4
  <2> HIDE DEF share
  <2>3. h = [s \in SUBSET x |-> IF s = {} THEN 0 ELSE f[First(s)] + h[s \ {First(s)}]]
    BY <2>2
  <2> QED
    BY <2>3 DEF IsTotal
<1> QED
  BY <1>1, <1>5

\* g is the sum over the subsets of S.
Sums(f, S, g) ==
  /\ g[{}] = 0
  /\ \A s \in SUBSET S : s # {} => First(s) \in s /\ g[s] = f[First(s)] + g[s \ {First(s)}]

LEMMA TotalStep ==
  ASSUME NEW f, NEW S, IsFiniteSet(S)
  PROVE  \E g : Total(f, S) = g[S] /\ Sums(f, S, g)
<1> DEFINE g == CHOOSE h : IsTotal(f, S, h)
<1>1. IsTotal(f, S, g)
  BY TotalExists
<1>2. Total(f, S) = g[S]
  BY DEF Total
<1> HIDE DEF g
<1>3. \A s \in SUBSET S : s # {} => First(s) \in s
  BY DEF First
<1>4. Sums(f, S, g)
  BY <1>1, <1>3 DEF IsTotal, Sums
<1> QED
  BY <1>2, <1>4

\* What the sum of whole numbers is when one of them changes.
LEMMA TotalChanges ==
  ASSUME NEW S, IsFiniteSet(S), NEW f \in [S -> Nat], NEW r \in S, NEW v \in Nat
  PROVE  /\ Total(f, S) \in Nat /\ Total([f EXCEPT ![r] = v], S) \in Nat
         /\ Total([f EXCEPT ![r] = v], S) = Total(f, S) + v - f[r]
<1> DEFINE e == [f EXCEPT ![r] = v]
<1>0. e \in [S -> Nat] /\ e[r] = v /\ \A s \in S : s # r => e[s] = f[s]
  OBVIOUS
<1> HIDE DEF e
<1>1. PICK g : Total(f, S) = g[S] /\ Sums(f, S, g)
  BY TotalStep
<1>2. PICK h : Total(e, S) = h[S] /\ Sums(e, S, h)
  BY TotalStep
<1> DEFINE Fits(s) == g[s] \in Nat /\ h[s] \in Nat /\ h[s] = IF r \in s THEN g[s] + v - f[r] ELSE g[s]
           Bad == {s \in SUBSET S : ~Fits(s)}
<1>3. Bad = {}
  <2> SUFFICES ASSUME Bad # {} PROVE FALSE
    OBVIOUS
  <2>1. PICK x \in Bad : \A y \in Bad : y \subseteq x => y = x
    <3>1. Bad \in SUBSET (SUBSET S)
      OBVIOUS
    <3> HIDE DEF Bad
    <3> QED
      BY <3>1, SmallestSet
  <2>2. x # {}
    <3>1. ~Fits(x)
      OBVIOUS
    <3>2. Fits({})
      BY <1>1, <1>2 DEF Sums
    <3> HIDE DEF Fits
    <3> QED
      BY <3>1, <3>2
  <2> DEFINE c == First(x)
             y == x \ {c}
  <2>3. c \in x /\ c \in S /\ g[x] = f[c] + g[y] /\ h[x] = e[c] + h[y]
    BY <1>1, <1>2, <2>2 DEF Sums
  <2>4. y \in SUBSET S /\ Fits(y)
    BY <2>1, <2>3
  <2>5. f[c] \in Nat /\ e[c] \in Nat /\ f[r] \in Nat /\ e[c] = IF c = r THEN v ELSE f[c]
    BY <2>3, <1>0
  <2>6. r \in x <=> r \in y \/ c = r
    BY <2>3
  <2>7. c = r => r \notin y
    OBVIOUS
  <2> HIDE DEF c, y, e
  <2>8. Fits(x)
    BY <2>3, <2>4, <2>5, <2>6, <2>7
  <2> QED
    BY <2>1, <2>8
<1>4. Fits(S)
  BY <1>3
<1> QED
  BY <1>1, <1>2, <1>4 DEF e

-----------------------------------------------------------------------------
(* The cache of models *)

Where == {"none", "loading", "fetching", "reading", "asked", "found", "checking", "running"}
Place == [repo : Model \cup {NoModel}, at : Where]

CacheTypes ==
  /\ stored \in [Model -> Nat] /\ (\A r \in Model : stored[r] \in {0, SizeOf[r] \div 2, SizeOf[r]})
  /\ inUse \in [Reader -> Model \cup {NoModel}]
  /\ server \in [Reader -> Place] /\ strays \subseteq Model
  /\ deleting \in Place /\ download \in Place
  /\ scans \in [Load -> [at : {"none", "scanning", "scanned"}, found : SUBSET Model]]
  /\ listed \subseteq Model
  /\ acts \in Nat
  /\ hurried \in BOOLEAN /\ raced \subseteq Reader /\ crowded \in BOOLEAN /\ unfollowed \subseteq Model

\* Who is somewhere is there with a model, a server with the one in use.
PlacesAreKept ==
  /\ \A u \in Reader : server[u] # Idle =>
       server[u].at \in {"loading", "fetching", "reading"} /\ server[u].repo \in Model /\ server[u].repo = inUse[u]
  /\ deleting # Idle => deleting.at \in {"asked", "found"} /\ deleting.repo \in Model
  /\ download # Idle => download.at \in {"checking", "running"} /\ download.repo \in Model

\* Nobody deletes the model of a server that did not start into its deletion, and what it
\* reads is whole.
ServersAreSupplied ==
  \A u \in Reader \ raced : inUse[u] # NoModel =>
    /\ deleting # Idle => deleting.repo # inUse[u]
    /\ server[u].at = "reading" => Whole(server[u].repo)

\* What is still to come of a download leaves the reserve.
RestFits ==
  LET r == download.repo
  IN  /\ download.at = "running" /\ ~crowded
      /\ Elsewhere < Required(r) /\ (Reported[r] * 12) \div 10 >= SizeOf[r]
      => Free >= Reserve + SizeOf[r] - stored[r]

\* A user who waits has one thing under way, and the list is behind by that at most.
OneIsPending ==
  ~hurried =>
    /\ deleting = Idle \/ download = Idle
    /\ deleting # Idle \/ download # Idle => \A l \in Load : scans[l].at = "none"
    /\ \A k, l \in Load : k # l => scans[k].at = "none" \/ scans[l].at = "none"
ListFollows ==
  ~hurried /\ (\A l \in Load : scans[l].at = "none")
    => /\ \A r \in Model \ unfollowed : Whole(r) => r \in listed \/ (download.at = "running" /\ r = download.repo)
       /\ listed \subseteq Cached
ScanIsRight ==
  ~hurried => \A l \in Load : scans[l].at = "scanned"
    => (\A r \in Model \ unfollowed : Whole(r) => r \in scans[l].found) /\ scans[l].found \subseteq Cached

CacheInv ==
  /\ CacheTypes /\ PlacesAreKept /\ Free >= 0 /\ ServersAreSupplied /\ RestFits
  /\ OneIsPending /\ ListFollows /\ ScanIsRight

\* Models take an even number of units, at least two.
LEMMA Halves ==
  ASSUME CacheTypes, NEW r \in Model
  PROVE  /\ SizeOf[r] \in Nat /\ SizeOf[r] > 0
         /\ SizeOf[r] \div 2 \in Nat /\ SizeOf[r] \div 2 > 0 /\ SizeOf[r] = 2 * (SizeOf[r] \div 2)
         /\ stored[r] \in Nat /\ stored[r] <= SizeOf[r]
         /\ ~Whole(r) => stored[r] + SizeOf[r] \div 2 \in {SizeOf[r] \div 2, SizeOf[r]}
<1>1. SizeOf[r] \in Nat /\ SizeOf[r] > 0 /\ SizeOf[r] % 2 = 0
  BY CacheAssumption
<1>2. stored[r] \in {0, SizeOf[r] \div 2, SizeOf[r]}
  BY DEF CacheTypes
<1> QED
  BY <1>1, <1>2 DEF Whole

LEMMA FreeIsDifference ==
  /\ Free = Disk - Total(stored, Model)
  /\ Free' = Disk - Total(stored', Model)
<1>1. Free = Disk - Total(stored, Model)
  BY DEF Free, MapThenSumSet, MapThenFoldSet, Total, IsTotal, First
<1>2. Free' = Disk - Total(stored', Model)
  BY DEF Free, MapThenSumSet, MapThenFoldSet, Total, IsTotal, First
<1> QED
  BY <1>1, <1>2

\* The free disk, when what is stored of a model changes.
LEMMA FreeChanges ==
  ASSUME CacheTypes, NEW r \in Model, NEW v \in Nat, stored' = [stored EXCEPT ![r] = v]
  PROVE  Free \in Int /\ Free' \in Int /\ Free' = Free + stored[r] - v
<1>1. stored \in [Model -> Nat]
  BY DEF CacheTypes
<1>2. /\ Total(stored, Model) \in Nat /\ Total(stored', Model) \in Nat
      /\ Total(stored', Model) = Total(stored, Model) + v - stored[r]
  <2> DEFINE f == stored
  <2>1. f \in [Model -> Nat] /\ IsFiniteSet(Model)
    BY <1>1, CacheAssumption
  <2>2. /\ Total(f, Model) \in Nat /\ Total([f EXCEPT ![r] = v], Model) \in Nat
        /\ Total([f EXCEPT ![r] = v], Model) = Total(f, Model) + v - f[r]
    <3> HIDE DEF f
    <3> QED
      BY <2>1, TotalChanges
  <2> QED
    BY <2>2
<1>3. Disk \in Nat /\ stored[r] \in Nat
  BY <1>1, CacheAssumption
<1> QED
  BY <1>2, <1>3, FreeIsDifference

\* The free disk is a number, and the same while nothing is written or deleted.
LEMMA FreeStays ==
  ASSUME CacheTypes
  PROVE  Free \in Int /\ (stored' = stored => Free' = Free)
<1>1. CASE Model = {}
  <2>1. PICK g : Total(stored, Model) = g[Model] /\ Sums(stored, Model, g)
    BY TotalStep, CacheAssumption
  <2>2. Total(stored, Model) = 0
    BY <1>1, <2>1 DEF Sums
  <2> QED
    BY <2>2, FreeIsDifference, CacheAssumption
<1>2. CASE Model # {}
  <2>1. PICK r \in Model : TRUE
    BY <1>2
  <2>2. stored \in [Model -> Nat] /\ IsFiniteSet(Model) /\ Disk \in Nat
    BY CacheAssumption DEF CacheTypes
  <2>3. Total(stored, Model) \in Nat
    BY <2>1, <2>2, TotalChanges
  <2> QED
    BY <2>2, <2>3, FreeIsDifference
<1> QED
  BY <1>1, <1>2

\* Idle is a place, and so is a model somewhere.
LEMMA PlacesAreThere ==
  /\ Idle \in Place /\ Idle.at = "none" /\ Idle.repo = NoModel
  /\ \A r \in Model, w \in Where :
       At(r, w) \in Place /\ At(r, w).repo = r /\ At(r, w).at = w /\ (w # "none" => At(r, w) # Idle)
BY DEF Place, Where, Idle, At

\* A load begins in one place, when what was under way has ended.
LEMMA LoadsKeep ==
  ASSUME CacheTypes, OneIsPending, deleting # Idle \/ download # Idle, LoadsAgain, hurried' = hurried,
         ~hurried => deleting' = Idle /\ download' = Idle
  PROVE  /\ scans' \in [Load -> [at : {"none", "scanning", "scanned"}, found : SUBSET Model]]
         /\ OneIsPending' /\ ListFollows' /\ ScanIsRight'
<1>1. scans \in [Load -> [at : {"none", "scanning", "scanned"}, found : SUBSET Model]]
  BY DEF CacheTypes
<1>2. CASE BeginsLoad
  <2>1. PICK l \in Load : /\ scans[l].at = "none"
                          /\ scans' = [scans EXCEPT ![l] = [at |-> "scanning", found |-> {}]]
    BY <1>2 DEF BeginsLoad
  <2>2. scans' \in [Load -> [at : {"none", "scanning", "scanned"}, found : SUBSET Model]]
    BY <1>1, <2>1
  <2>3. scans'[l].at = "scanning" /\ \A k \in Load : k # l => scans'[k] = scans[k]
    BY <1>1, <2>1
  <2> QED
    BY <2>2, <2>3 DEF OneIsPending, ListFollows, ScanIsRight
<1>3. CASE hurried /\ UNCHANGED scans
  BY <1>1, <1>3 DEF OneIsPending, ListFollows, ScanIsRight
<1> QED
  BY <1>2, <1>3 DEF LoadsAgain

\* The initial state.
LEMMA CacheStarts == CacheInit => CacheInv
<1> SUFFICES ASSUME CacheInit PROVE CacheInv
  OBVIOUS
<1>1. PICK rs \in SUBSET Model : stored = [r \in Model |-> IF r \in rs THEN SizeOf[r] ELSE 0]
  BY DEF CacheInit
<1>2. \A r \in Model : SizeOf[r] \in Nat /\ SizeOf[r] > 0
  BY CacheAssumption
<1>3. stored \in [Model -> Nat] /\ \A r \in Model : stored[r] \in {0, SizeOf[r] \div 2, SizeOf[r]}
  BY <1>1, <1>2
<1>4. \A r \in Model : Whole(r) => stored[r] > 0
  BY <1>1, <1>2 DEF Whole
<1>5. CacheTypes
  BY <1>3, PlacesAreThere DEF CacheInit, CacheTypes, Cached, Load, Reader
<1>6. PlacesAreKept /\ ServersAreSupplied /\ RestFits
  BY PlacesAreThere DEF CacheInit, PlacesAreKept, ServersAreSupplied, RestFits
<1>7. OneIsPending /\ ListFollows /\ ScanIsRight
  BY <1>4 DEF CacheInit, OneIsPending, ListFollows, ScanIsRight, Cached
<1> QED
  BY <1>5, <1>6, <1>7 DEF CacheInit, CacheInv

\* The steps of a server that write nothing.
LEMMA ServerStepKeeps ==
  ASSUME CacheInv, NEW u \in Reader,
         (\E r \in Model : Starts(u, r)) \/ StartsAgain \/ Resolves(u) \/ Stops(u) \/ ServerEnds(u)
  PROVE  CacheInv'
<1> USE DEF CacheInv
<1>0. UNCHANGED <<stored, deleting, download, scans, listed, hurried, crowded, unfollowed>> /\ acts' \in Nat
  BY DEF Starts, StartsAgain, Resolves, Stops, ServerEnds, CacheTypes, Acts, histories
<1>1. inUse \in [Reader -> Model \cup {NoModel}] /\ server \in [Reader -> Place] /\ "bench" \in Reader
  BY DEF CacheTypes, Reader
<1>2. Free' = Free /\ Free >= 0 /\ \A r \in Model : Whole(r)' = Whole(r)
  BY <1>0, FreeStays DEF Whole
<1>3. RestFits' /\ (Free >= 0)'
  BY <1>0, <1>2 DEF RestFits, Required, HfModelSize
<1>4. OneIsPending' /\ ListFollows' /\ ScanIsRight'
  BY <1>0 DEF OneIsPending, ListFollows, ScanIsRight, Cached, Whole
<1>5. CASE \E r \in Model : Starts(u, r)
  <2>1. PICK r \in Model : Starts(u, r)
    BY <1>5
  <2>2. /\ inUse' = [inUse EXCEPT ![u] = r] /\ server' = [server EXCEPT ![u] = At(r, "loading")]
        /\ raced' = (IF deleting.repo = r THEN raced \cup {u} ELSE raced \ {u}) /\ strays' = strays
    BY <2>1 DEF Starts
  <2>3. At(r, "loading") \in Place /\ At(r, "loading").repo = r /\ At(r, "loading").at = "loading"
    BY PlacesAreThere DEF Where
  <2> DEFINE new == At(r, "loading")
  <2> HIDE DEF new
  <2>4. /\ server' \in [Reader -> Place] /\ server'[u] = At(r, "loading") /\ inUse'[u] = r
        /\ \A v \in Reader : v # u => server'[v] = server[v] /\ inUse'[v] = inUse[v]
        /\ inUse' \in [Reader -> Model \cup {NoModel}]
    BY <1>1, <2>2, <2>3
  <2>5. CacheTypes'
    BY <1>0, <2>2, <2>4 DEF CacheTypes
  <2>6. PlacesAreKept'
    BY <1>0, <2>3, <2>4 DEF PlacesAreKept
  <2>7. ServersAreSupplied'
    BY <1>0, <2>2, <2>3, <2>4 DEF ServersAreSupplied, Whole
  <2> QED
    BY <1>3, <1>4, <2>5, <2>6, <2>7
<1>6. CASE Resolves(u)
  <2> DEFINE w == IF Whole(server[u].repo) THEN "reading" ELSE "fetching"
  <2>1. w \in {"reading", "fetching"} /\ server' = [server EXCEPT ![u].at = w] /\ server[u].at = "loading"
    BY <1>6 DEF Resolves
  <2>2. server' \in [Reader -> Place] /\ UNCHANGED <<inUse, strays, raced>>
    BY <1>6, <1>1, <2>1 DEF Resolves, Place, Where, histories
  <2>3. server'[u].repo = server[u].repo /\ server'[u].at = w /\ \A v \in Reader : v # u => server'[v] = server[v]
    BY <1>1, <2>1 DEF Place
  <2>4. server[u] # Idle
    BY <2>1, PlacesAreThere
  <2>5. CacheTypes' /\ PlacesAreKept'
    BY <1>0, <2>1, <2>2, <2>3, <2>4 DEF CacheTypes, PlacesAreKept
  <2>6. ServersAreSupplied'
    BY <1>0, <2>2, <2>3 DEF ServersAreSupplied, Whole
  <2> QED
    BY <1>3, <1>4, <2>5, <2>6
<1>7. CASE StartsAgain
  <2> DEFINE b == "bench"
             r == inUse["bench"]
  <2>1. /\ r \in Model /\ server' = [server EXCEPT ![b] = At(r, "loading")] /\ UNCHANGED <<inUse, strays, raced>>
    BY <1>7, <1>1 DEF StartsAgain, histories
  <2>2. At(r, "loading") \in Place /\ At(r, "loading").repo = r /\ At(r, "loading").at = "loading"
    BY <2>1, PlacesAreThere DEF Where
  <2>3. server' \in [Reader -> Place] /\ server'[b] = At(r, "loading") /\ \A v \in Reader : v # b => server'[v] = server[v]
    BY <1>1, <2>1, <2>2
  <2>4. CacheTypes' /\ PlacesAreKept'
    BY <1>0, <2>1, <2>2, <2>3 DEF CacheTypes, PlacesAreKept
  <2>5. ServersAreSupplied'
    BY <1>0, <2>1, <2>2, <2>3 DEF ServersAreSupplied, Whole
  <2> QED
    BY <1>3, <1>4, <2>4, <2>5
<1>8. CASE Stops(u) \/ ServerEnds(u)
  <2>1. /\ server' = [server EXCEPT ![u] = Idle] /\ inUse' \in {inUse, [inUse EXCEPT ![u] = NoModel]}
        /\ strays' \subseteq strays \cup Model /\ raced' = raced
    BY <1>8 DEF Stops, ServerEnds, histories
  <2>2. /\ server' \in [Reader -> Place] /\ server'[u] = Idle /\ \A v \in Reader : v # u => server'[v] = server[v]
        /\ inUse' \in [Reader -> Model \cup {NoModel}]
        /\ inUse'[u] \in {inUse[u], NoModel} /\ \A v \in Reader : v # u => inUse'[v] = inUse[v]
    BY <1>1, <2>1, PlacesAreThere
  <2>3. CacheTypes' /\ PlacesAreKept'
    BY <1>0, <2>1, <2>2 DEF CacheTypes, PlacesAreKept
  <2>4. ServersAreSupplied'
    BY <1>0, <2>1, <2>2, PlacesAreThere DEF ServersAreSupplied, Whole
  <2> QED
    BY <1>3, <1>4, <2>3, <2>4
<1> QED
  BY <1>5, <1>6, <1>7, <1>8

\* Half of a model comes: by the download that is followed, or beside it.
LEMMA GrowingKeeps ==
  ASSUME CacheInv, NEW r \in Model, Grows(r),
         \/ r = download.repo /\ download.at = "running" /\ UNCHANGED <<crowded, unfollowed>>
         \/ crowded' = TRUE /\ unfollowed' = unfollowed \cup {r},
         UNCHANGED <<inUse, server, strays, deleting, download, scans, listed, acts, hurried, raced>>
  PROVE  CacheInv'
<1> USE DEF CacheInv
<1> DEFINE half == SizeOf[r] \div 2
           v == stored[r] + half
<1>1. half \in Nat /\ half > 0 /\ v \in Nat /\ v \in {half, SizeOf[r]} /\ stored[r] \in Nat
  BY Halves DEF Grows
<1>2. stored' = [stored EXCEPT ![r] = v] /\ Free >= half /\ ~Whole(r)
  BY DEF Grows
<1> HIDE DEF half, v
<1>3. Free \in Int /\ Free' \in Int /\ Free' = Free + stored[r] - v
  BY <1>1, <1>2, FreeChanges
<1>4. v = stored[r] + half
  BY DEF v
<1>5. Free' >= 0
  BY <1>1, <1>2, <1>3, <1>4
<1>6. /\ stored' \in [Model -> Nat] /\ (\A q \in Model : stored'[q] \in {0, SizeOf[q] \div 2, SizeOf[q]})
      /\ stored'[r] = v /\ \A q \in Model : q # r => stored'[q] = stored[q]
  BY <1>1, <1>2 DEF CacheTypes, half
<1>7. CacheTypes'
  BY <1>6 DEF CacheTypes
<1>8. PlacesAreKept' /\ OneIsPending'
  BY DEF PlacesAreKept, OneIsPending
<1>9. \A q \in Model : q # r => Whole(q)' = Whole(q)
  BY <1>6 DEF Whole
<1>10. ServersAreSupplied'
  <2>1. \A u \in Reader : server[u].at = "reading" => server[u].repo \in Model
    BY PlacesAreThere DEF PlacesAreKept
  <2> QED
    BY <1>2, <1>9, <2>1 DEF ServersAreSupplied
<1>11. RestFits'
  <2> DEFINE d == download.repo
  <2> SUFFICES ASSUME ~crowded', download.at = "running",
                      Elsewhere < Required(d), (Reported[d] * 12) \div 10 >= SizeOf[d]
               PROVE  Free' >= Reserve + SizeOf[d] - stored'[d]
    BY DEF RestFits, Required, HfModelSize
  <2>1. d = r /\ ~crowded
    OBVIOUS
  <2>2. Free >= Reserve + SizeOf[r] - stored[r]
    BY <2>1 DEF RestFits
  <2>3. SizeOf[r] \in Nat /\ Reserve \in Nat
    BY CacheAssumption
  <2> QED
    BY <1>1, <1>3, <1>4, <1>6, <2>1, <2>2, <2>3
<1>12. Cached \subseteq Cached'
  <2>1. v > 0
    BY <1>1, <1>4
  <2> QED
    BY <1>6, <2>1 DEF Cached, CacheTypes
<1>13. ListFollows'
  BY <1>9, <1>12 DEF ListFollows
<1>14. ScanIsRight'
  <2>1. ~hurried /\ download.at = "running" => \A l \in Load : scans[l].at = "none"
    BY PlacesAreThere DEF OneIsPending
  <2> QED
    BY <1>9, <1>12, <2>1 DEF ScanIsRight
<1> QED
  BY <1>5, <1>7, <1>8, <1>10, <1>11, <1>13, <1>14

\* A server fetches its model, or has it.
LEMMA FetchingKeeps ==
  ASSUME CacheInv, NEW u \in Reader, ServerFetches(u)
  PROVE  CacheInv'
<1> USE DEF CacheInv
<1>1. server[u].at = "fetching" /\ server \in [Reader -> Place] /\ server[u] # Idle
  BY PlacesAreThere DEF ServerFetches, CacheTypes
<1>2. server[u].repo \in Model
  BY <1>1 DEF PlacesAreKept
<1>3. CASE GrowsAside(server[u].repo) /\ UNCHANGED server
  BY <1>2, <1>3, GrowingKeeps DEF ServerFetches, GrowsAside
<1>4. CASE Whole(server[u].repo) /\ server' = [server EXCEPT ![u].at = "reading"] /\ UNCHANGED <<stored, histories>>
  <2>1. UNCHANGED <<inUse, strays, deleting, download, scans, listed, acts, stored, hurried, raced, crowded, unfollowed>>
    BY <1>4 DEF ServerFetches, histories
  <2>2. Free' = Free
    BY <2>1, FreeStays
  <2>3. /\ server' \in [Reader -> Place] /\ server'[u].repo = server[u].repo /\ server'[u].at = "reading"
        /\ \A v \in Reader : v # u => server'[v] = server[v]
    BY <1>1, <1>4 DEF Place, Where
  <2>4. CacheTypes' /\ PlacesAreKept'
    BY <1>1, <2>1, <2>3 DEF CacheTypes, PlacesAreKept
  <2>5. ServersAreSupplied'
    BY <1>4, <2>1, <2>3 DEF ServersAreSupplied, Whole
  <2>6. RestFits' /\ OneIsPending' /\ ListFollows' /\ ScanIsRight'
    BY <2>1, <2>2 DEF RestFits, OneIsPending, ListFollows, ScanIsRight, Cached, Whole, Required, HfModelSize
  <2> QED
    BY <2>2, <2>4, <2>5, <2>6
<1> QED
  BY <1>3, <1>4 DEF ServerFetches

\* So does what the bridge has forgotten.
LEMMA StrayKeeps ==
  ASSUME CacheInv, NEW r \in Model, StrayFetches(r)
  PROVE  CacheInv'
<1> USE DEF CacheInv
<1>1. CASE GrowsAside(r) /\ UNCHANGED strays
  BY <1>1, GrowingKeeps DEF StrayFetches, GrowsAside
<1>2. CASE strays' = strays \ {r} /\ UNCHANGED <<stored, histories>>
  <2>1. UNCHANGED <<inUse, server, deleting, download, scans, listed, acts, stored, hurried, raced, crowded, unfollowed>>
    BY <1>2 DEF StrayFetches, histories
  <2>2. Free' = Free
    BY <2>1, FreeStays
  <2>3. CacheTypes' /\ PlacesAreKept' /\ ServersAreSupplied'
    BY <1>2, <2>1 DEF CacheTypes, PlacesAreKept, ServersAreSupplied, Whole
  <2>4. RestFits' /\ OneIsPending' /\ ListFollows' /\ ScanIsRight'
    BY <2>1, <2>2 DEF RestFits, OneIsPending, ListFollows, ScanIsRight, Cached, Whole, Required, HfModelSize
  <2> QED
    BY <2>2, <2>3, <2>4
<1> QED
  BY <1>1, <1>2 DEF StrayFetches

\* A deletion is asked for: nobody who is registered reads its model.
LEMMA AskingDeletionKeeps ==
  ASSUME CacheInv, NEW r \in Model, AsksDelete(r)
  PROVE  CacheInv'
<1> USE DEF CacheInv
<1>0. UNCHANGED <<stored, inUse, server, strays, download, scans, listed, raced, crowded, unfollowed>>
  BY DEF AsksDelete, ActsThere
<1>1. /\ deleting = Idle /\ hurried' = (hurried \/ Pending) /\ hurried' \in BOOLEAN /\ acts' \in Nat
      /\ deleting' = IF InActiveUse(r) THEN Idle ELSE At(r, "asked")
  BY DEF AsksDelete, ActsThere, Acts, CacheTypes
<1>2. At(r, "asked") \in Place /\ At(r, "asked").repo = r /\ At(r, "asked").at = "asked"
  BY PlacesAreThere DEF Where
<1>3. Free' = Free /\ RestFits'
  BY <1>0, FreeStays DEF RestFits, Required, HfModelSize
<1>4. ListFollows' /\ ScanIsRight'
  BY <1>0, <1>1 DEF ListFollows, ScanIsRight, Cached, Whole
<1>5. CacheTypes' /\ PlacesAreKept'
  BY <1>0, <1>1, <1>2, PlacesAreThere DEF CacheTypes, PlacesAreKept
<1>6. ServersAreSupplied'
  BY <1>0, <1>1, <1>2 DEF ServersAreSupplied, InActiveUse, Whole
<1>7. OneIsPending'
  BY <1>0, <1>1 DEF OneIsPending, Pending
<1> QED
  BY <1>3, <1>4, <1>5, <1>6, <1>7

\* A deletion ends, or has found its files.
LEMMA DeletionKeeps ==
  ASSUME CacheInv, ScansForDelete \/ DeleteFails
  PROVE  CacheInv'
<1> USE DEF CacheInv
<1>0. UNCHANGED <<stored, inUse, server, strays, download, listed, acts, hurried, raced, crowded, unfollowed>>
  BY DEF ScansForDelete, DeleteFails, histories
<1>1. deleting.at \in {"asked", "found"} /\ deleting # Idle
  BY PlacesAreThere DEF ScansForDelete, DeleteFails
<1>2. deleting.repo \in Model
  BY <1>1 DEF PlacesAreKept
<1>3. /\ At(deleting.repo, "found") \in Place /\ At(deleting.repo, "found").repo = deleting.repo
      /\ At(deleting.repo, "found").at = "found"
  BY <1>2, PlacesAreThere DEF Where
<1>4. Free' = Free /\ RestFits'
  BY <1>0, FreeStays DEF RestFits, Required, HfModelSize
<1>5. \/ deleting' = At(deleting.repo, "found") /\ UNCHANGED scans
      \/ deleting' = Idle /\ (LoadsAgain \/ UNCHANGED scans)
  BY DEF ScansForDelete, DeleteFails
<1>6. PlacesAreKept' /\ ServersAreSupplied'
  BY <1>0, <1>1, <1>2, <1>3, <1>5 DEF PlacesAreKept, ServersAreSupplied, Whole
<1>7. CASE deleting' = Idle /\ LoadsAgain
  <2>1. ~hurried => download' = Idle
    BY <1>0, <1>1 DEF OneIsPending
  <2>2. /\ scans' \in [Load -> [at : {"none", "scanning", "scanned"}, found : SUBSET Model]]
        /\ OneIsPending' /\ ListFollows' /\ ScanIsRight'
    BY <1>0, <1>1, <1>7, <2>1, LoadsKeep
  <2>3. CacheTypes'
    BY <1>0, <1>7, <2>2, PlacesAreThere DEF CacheTypes
  <2> QED
    BY <1>4, <1>6, <2>2, <2>3
<1>8. CASE UNCHANGED scans
  <2>1. CacheTypes'
    BY <1>0, <1>3, <1>5, <1>8, PlacesAreThere DEF CacheTypes
  <2>2. OneIsPending' /\ ListFollows' /\ ScanIsRight'
    BY <1>0, <1>1, <1>8 DEF OneIsPending, ListFollows, ScanIsRight, Cached, Whole
  <2> QED
    BY <1>4, <1>6, <2>1, <2>2
<1> QED
  BY <1>5, <1>7, <1>8

\* The files go.
LEMMA FilesGo ==
  ASSUME CacheInv, Deletes
  PROVE  CacheInv'
<1> USE DEF CacheInv
<1> DEFINE r == deleting.repo
<1>1. deleting.at = "found" /\ deleting # Idle /\ r \in Model
  BY PlacesAreThere DEF Deletes, PlacesAreKept
<1>2. /\ stored' = [stored EXCEPT ![r] = 0] /\ deleting' = Idle /\ LoadsAgain
      /\ UNCHANGED <<inUse, server, strays, download, listed, acts, hurried, raced, crowded, unfollowed>>
  BY DEF Deletes, histories
<1>3. stored \in [Model -> Nat] /\ stored[r] \in Nat
  BY <1>1 DEF CacheTypes
<1>4. Free \in Int /\ Free' \in Int /\ Free' = Free + stored[r] - 0
  BY <1>1, <1>2, FreeChanges
<1>5. Free' >= 0
  BY <1>3, <1>4
<1>6. /\ stored' \in [Model -> Nat] /\ (\A q \in Model : stored'[q] \in {0, SizeOf[q] \div 2, SizeOf[q]})
      /\ stored'[r] = 0 /\ \A q \in Model : q # r => stored'[q] = stored[q]
  BY <1>1, <1>2 DEF CacheTypes
<1>7. ~hurried => download' = Idle
  BY <1>1, <1>2 DEF OneIsPending
<1>8. /\ scans' \in [Load -> [at : {"none", "scanning", "scanned"}, found : SUBSET Model]]
      /\ OneIsPending' /\ ListFollows' /\ ScanIsRight'
  BY <1>1, <1>2, <1>7, LoadsKeep
<1>9. CacheTypes'
  BY <1>2, <1>6, <1>8, PlacesAreThere DEF CacheTypes
<1>10. PlacesAreKept'
  BY <1>2 DEF PlacesAreKept
<1>11. ServersAreSupplied'
  <2>1. \A u \in Reader \ raced : inUse[u] # NoModel => inUse[u] # r
    BY <1>1 DEF ServersAreSupplied
  <2>2. \A u \in Reader : server[u].at = "reading" => server[u].repo \in Model /\ server[u].repo = inUse[u]
    BY PlacesAreThere DEF PlacesAreKept
  <2> HIDE DEF r
  <2>3. \A q \in Model : q # r => Whole(q)' = Whole(q)
    BY <1>6 DEF Whole
  <2> QED
    BY <1>2, <2>1, <2>2, <2>3 DEF ServersAreSupplied
<1>12. RestFits'
  <2> DEFINE d == download.repo
  <2> SUFFICES ASSUME ~crowded, download.at = "running",
                      Elsewhere < Required(d), (Reported[d] * 12) \div 10 >= SizeOf[d]
               PROVE  Free' >= Reserve + SizeOf[d] - stored'[d]
    BY <1>2 DEF RestFits, Required, HfModelSize
  <2>1. d \in Model
    BY PlacesAreThere DEF PlacesAreKept
  <2>2. Free >= Reserve + SizeOf[d] - stored[d]
    BY DEF RestFits
  <2>3. SizeOf[d] \in Nat /\ stored[d] \in Nat /\ Reserve \in Nat
    BY <2>1, Halves, CacheAssumption
  <2>4. stored'[d] = IF d = r THEN 0 ELSE stored[d]
    BY <1>6, <2>1
  <2> HIDE DEF d, r
  <2>5. CASE d = r
    BY <1>3, <1>4, <2>2, <2>3, <2>4, <2>5
  <2>6. CASE d # r
    BY <1>3, <1>4, <2>2, <2>3, <2>4, <2>6
  <2> QED
    BY <2>5, <2>6
<1> QED
  BY <1>5, <1>8, <1>9, <1>10, <1>11, <1>12

\* A download is asked for, let in, refused or cancelled.
LEMMA AdmissionKeeps ==
  ASSUME CacheInv, (\E r \in Model : AsksDownload(r)) \/ ChecksDisk \/ CancelsDownload
  PROVE  CacheInv'
<1> USE DEF CacheInv
<1>0. UNCHANGED <<stored, inUse, server, deleting, scans, listed, raced>> /\ (hurried => hurried') /\ hurried' \in BOOLEAN
  BY DEF AsksDownload, ChecksDisk, CancelsDownload, CacheTypes, ActsThere, histories
<1>1. Free' = Free /\ Free \in Int
  BY <1>0, FreeStays
<1>2. acts' \in Nat
  BY DEF AsksDownload, ChecksDisk, CancelsDownload, CacheTypes, ActsThere, Acts, histories
<1>3. /\ crowded' \in BOOLEAN
      /\ unfollowed \subseteq unfollowed' /\ unfollowed' \subseteq Model /\ strays' \subseteq Model
  <2>1. CASE CancelsDownload
    BY <2>1 DEF CancelsDownload, CacheTypes
  <2>2. CASE ~CancelsDownload
    BY <2>2 DEF AsksDownload, ChecksDisk, CacheTypes, ActsThere
  <2> QED
    BY <2>1, <2>2
<1>4. ScanIsRight' /\ ServersAreSupplied'
  BY <1>0, <1>3 DEF ScanIsRight, Cached, Whole, ServersAreSupplied
<1>5. CASE \E r \in Model : AsksDownload(r)
  <2>1. PICK r \in Model : AsksDownload(r)
    BY <1>5
  <2>2. /\ download = Idle /\ hurried' = (hurried \/ Pending) /\ download' = At(r, "checking") /\ unfollowed' = unfollowed
    BY <2>1 DEF AsksDownload, ActsThere
  <2>3. At(r, "checking") \in Place /\ download'.at = "checking" /\ download'.repo = r
    BY <2>2, PlacesAreThere DEF Where
  <2>4. CacheTypes' /\ PlacesAreKept'
    BY <1>0, <1>1, <1>2, <1>3, <2>2, <2>3 DEF CacheTypes, PlacesAreKept
  <2>5. RestFits'
    BY <2>3 DEF RestFits
  <2>6. OneIsPending'
    BY <1>0, <2>2 DEF OneIsPending, Pending
  <2>7. ListFollows'
    BY <1>0, <2>2, PlacesAreThere DEF ListFollows, Cached, Whole
  <2> QED
    BY <1>1, <1>4, <2>4, <2>5, <2>6, <2>7
<1>6. CASE ChecksDisk
  <2> DEFINE r == download.repo
  <2>1. download.at = "checking" /\ download # Idle /\ r \in Model
    BY <1>6, PlacesAreThere DEF ChecksDisk, PlacesAreKept
  <2>2. /\ download' = IF Available < Required(r) THEN Idle ELSE At(r, "running")
        /\ UNCHANGED <<hurried, unfollowed>>
    BY <1>6 DEF ChecksDisk
  <2>3. At(r, "running") \in Place /\ At(r, "running").at = "running" /\ At(r, "running").repo = r
    BY <2>1, PlacesAreThere DEF Where
  <2>4. CacheTypes' /\ PlacesAreKept'
    BY <1>0, <1>1, <1>2, <1>3, <2>1, <2>2, <2>3, PlacesAreThere DEF CacheTypes, PlacesAreKept
  <2>5. OneIsPending' /\ ListFollows'
    BY <1>0, <2>1, <2>2 DEF OneIsPending, ListFollows, Cached, Whole
  <2>6. RestFits'
    <3> SUFFICES ASSUME download'.at = "running", Elsewhere < Required(r), (Reported[r] * 12) \div 10 >= SizeOf[r]
                 PROVE  Free >= Reserve + SizeOf[r] - stored[r]
      BY <1>0, <1>1, <1>2, <1>3, <2>2, <2>3, PlacesAreThere DEF RestFits, Required, HfModelSize
    <3>1. ~(Available < Required(r))
      BY <2>2, PlacesAreThere
    <3>2. /\ SizeOf[r] \in Nat /\ stored[r] \in Nat /\ Reserve \in Nat /\ Elsewhere \in Nat
          /\ Reported[r] \in Nat
      BY <2>1, Halves, CacheAssumption
    <3>3. Required(r) = (Reported[r] * 12) \div 10 + Reserve
      BY DEF Required, HfModelSize
    <3>4. (Reported[r] * 12) \div 10 \in Int
      BY <3>2
    <3>5. Free >= Required(r)
      BY <1>1, <3>1, <3>2, <3>3, <3>4 DEF Available
    <3> QED
      BY <1>1, <3>2, <3>3, <3>4, <3>5
  <2> QED
    BY <1>1, <1>4, <2>4, <2>5, <2>6
<1>7. CASE CancelsDownload
  <2>1. /\ download # Idle /\ download' = Idle /\ hurried' = hurried
        /\ unfollowed' = unfollowed \cup {r \in Model : download = At(r, "running")}
    BY <1>7 DEF CancelsDownload
  <2>2. CacheTypes' /\ PlacesAreKept' /\ RestFits' /\ OneIsPending'
    BY <1>0, <1>1, <1>2, <1>3, <2>1, PlacesAreThere DEF CacheTypes, PlacesAreKept, RestFits, OneIsPending
  <2>3. \A r \in Model : download.at = "running" /\ r = download.repo => r \in unfollowed'
    BY <2>1 DEF At, CacheTypes, Place
  <2>4. ListFollows'
    BY <1>0, <1>1, <1>2, <1>3, <2>1, <2>3 DEF ListFollows, Cached, Whole
  <2> QED
    BY <1>1, <1>4, <2>2, <2>4
<1> QED
  BY <1>5, <1>6, <1>7

\* A download writes, and ends.
LEMMA DownloadKeeps ==
  ASSUME CacheInv, Downloads \/ DownloadEnds
  PROVE  CacheInv'
<1> USE DEF CacheInv
<1>0. download # Idle /\ download.at = "running" /\ download.repo \in Model
  BY PlacesAreThere DEF Downloads, DownloadEnds, PlacesAreKept
<1>1. CASE Downloads
  BY <1>0, <1>1, GrowingKeeps DEF Downloads, histories
<1>2. CASE DownloadEnds
  <2>1. /\ UNCHANGED <<stored, inUse, server, strays, deleting, listed, acts, hurried, raced, crowded, unfollowed>>
        /\ download' = Idle
    BY <1>2 DEF DownloadEnds, histories
  <2>2. Free' = Free
    BY <2>1, FreeStays
  <2>3. PlacesAreKept' /\ ServersAreSupplied' /\ RestFits'
    BY <2>1, PlacesAreThere DEF PlacesAreKept, ServersAreSupplied, Whole, RestFits
  <2>4. CASE LoadsAgain
    <3>1. ~hurried => deleting' = Idle
      BY <1>0, <2>1 DEF OneIsPending
    <3>2. /\ scans' \in [Load -> [at : {"none", "scanning", "scanned"}, found : SUBSET Model]]
          /\ OneIsPending' /\ ListFollows' /\ ScanIsRight'
      BY <1>0, <2>1, <2>4, <3>1, LoadsKeep
    <3>3. CacheTypes'
      BY <2>1, <3>2, PlacesAreThere DEF CacheTypes
    <3> QED
      BY <2>2, <2>3, <3>2, <3>3
  <2>5. CASE ~Whole(download.repo) /\ UNCHANGED scans
    <3>1. CacheTypes' /\ OneIsPending' /\ ScanIsRight'
      BY <2>1, <2>5, PlacesAreThere DEF CacheTypes, OneIsPending, ScanIsRight, Cached, Whole
    <3>2. ListFollows'
      BY <2>1, <2>5 DEF ListFollows, Cached, Whole
    <3> QED
      BY <2>2, <2>3, <3>1, <3>2
  <2> QED
    BY <1>2, <2>4, <2>5 DEF DownloadEnds
<1> QED
  BY <1>1, <1>2

\* The screen scans, shows, and comes back.
LEMMA ScreenKeeps ==
  ASSUME CacheInv, (\E l \in Load : ScansCache(l) \/ ShowsList(l)) \/ Reopens
  PROVE  CacheInv'
<1> USE DEF CacheInv
<1>0. /\ UNCHANGED <<stored, inUse, server, strays, deleting, download, raced, crowded, unfollowed>>
      /\ (hurried => hurried') /\ hurried' \in BOOLEAN /\ acts' \in Nat
  <2>1. CASE Reopens
    BY <2>1 DEF Reopens, CacheTypes, ActsThere, Acts
  <2>2. CASE ~Reopens
    BY <2>2 DEF ScansCache, ShowsList, CacheTypes, histories
  <2> QED
    BY <2>1, <2>2
<1>1. Free' = Free
  BY <1>0, FreeStays
<1>2. PlacesAreKept' /\ ServersAreSupplied' /\ RestFits'
  BY <1>0, <1>1 DEF PlacesAreKept, ServersAreSupplied, Whole, RestFits, Required, HfModelSize
<1>3. scans \in [Load -> [at : {"none", "scanning", "scanned"}, found : SUBSET Model]] /\ listed \subseteq Model
  BY DEF CacheTypes
<1>4. Cached' = Cached /\ Cached \subseteq Model /\ \A r \in Model : Whole(r)' = Whole(r) /\ (Whole(r) => r \in Cached)
  <2>1. \A r \in Model : Whole(r) => stored[r] > 0
    BY Halves DEF Whole
  <2> QED
    BY <1>0, <2>1 DEF Cached, Whole
<1>5. ASSUME NEW l \in Load, ScansCache(l)
      PROVE  CacheInv'
  <2>1. /\ scans[l].at = "scanning" /\ scans' = [scans EXCEPT ![l] = [at |-> "scanned", found |-> Cached]]
        /\ listed' = listed /\ hurried' = hurried
    BY <1>5 DEF ScansCache, histories
  <2>2. CacheTypes'
    BY <1>0, <1>3, <1>4, <2>1 DEF CacheTypes
  <2>3. OneIsPending' /\ ListFollows' /\ ScanIsRight'
    BY <1>0, <1>3, <1>4, <2>1 DEF OneIsPending, ListFollows, ScanIsRight
  <2> QED
    BY <1>1, <1>2, <2>2, <2>3
<1>6. ASSUME NEW l \in Load, ShowsList(l)
      PROVE  CacheInv'
  <2>1. /\ scans[l].at = "scanned" /\ scans' = [scans EXCEPT ![l] = [at |-> "none", found |-> {}]]
        /\ listed' = scans[l].found /\ hurried' = hurried
    BY <1>6 DEF ShowsList, histories
  <2>2. CacheTypes'
    BY <1>0, <1>3, <2>1 DEF CacheTypes
  <2>3. OneIsPending' /\ ScanIsRight'
    BY <1>0, <1>3, <1>4, <2>1 DEF OneIsPending, ScanIsRight
  <2>4. ListFollows'
    BY <1>0, <1>3, <1>4, <2>1 DEF ListFollows, ScanIsRight
  <2> QED
    BY <1>1, <1>2, <2>2, <2>3, <2>4
<1>7. CASE Reopens
  <2>1. /\ scans' = [l \in Load |-> [at |-> IF l = 1 THEN "scanning" ELSE "none", found |-> {}]]
        /\ listed' = {} /\ hurried' = (hurried \/ Pending)
    BY <1>7 DEF Reopens, ActsThere
  <2>2. CacheTypes'
    BY <1>0, <2>1 DEF CacheTypes
  <2>3. scans'[1].at = "scanning" /\ 1 \in Load /\ \A l \in Load : l # 1 => scans'[l].at = "none"
    BY <2>1 DEF Load
  <2>4. OneIsPending'
    BY <1>0, <2>1, <2>3 DEF OneIsPending, Pending
  <2>5. ListFollows' /\ ScanIsRight'
    BY <2>3 DEF ListFollows, ScanIsRight
  <2> QED
    BY <1>1, <1>2, <2>2, <2>4, <2>5
<1> QED
  BY <1>5, <1>6, <1>7

\* Every step.
LEMMA CacheKept == CacheInv /\ [CacheNext]_cacheVars => CacheInv'
<1> SUFFICES ASSUME CacheInv, [CacheNext]_cacheVars PROVE CacheInv'
  OBVIOUS
<1>1. CASE \E u \in Reader : \/ \E r \in Model : Starts(u, r)
                             \/ Resolves(u) \/ ServerFetches(u) \/ Stops(u) \/ ServerEnds(u)
  BY <1>1, ServerStepKeeps, FetchingKeeps
<1>2. CASE StartsAgain
  <2>1. "bench" \in Reader
    BY DEF Reader
  <2> QED
    BY <1>2, <2>1, ServerStepKeeps
<1>3. CASE \E r \in Model : StrayFetches(r) \/ AsksDelete(r) \/ AsksDownload(r)
  BY <1>3, StrayKeeps, AskingDeletionKeeps, AdmissionKeeps
<1>4. CASE ScansForDelete \/ Deletes \/ DeleteFails
  BY <1>4, DeletionKeeps, FilesGo
<1>5. CASE ChecksDisk \/ Downloads \/ DownloadEnds \/ CancelsDownload
  BY <1>5, AdmissionKeeps, DownloadKeeps
<1>6. CASE (\E l \in Load : ScansCache(l) \/ ShowsList(l)) \/ Reopens
  BY <1>6, ScreenKeeps
<1>7. CASE UNCHANGED cacheVars
  <2>1. Free' = Free
    BY <1>7, FreeStays DEF cacheVars, CacheInv
  <2>2. CacheTypes' /\ PlacesAreKept' /\ ServersAreSupplied'
    BY <1>7 DEF cacheVars, histories, CacheInv, CacheTypes, PlacesAreKept, ServersAreSupplied, Whole
  <2>3. RestFits' /\ OneIsPending' /\ ListFollows' /\ ScanIsRight'
    BY <1>7, <2>1 DEF cacheVars, histories, CacheInv, RestFits, OneIsPending, ListFollows, ScanIsRight, Cached, Whole,
       Required, HfModelSize
  <2> QED
    BY <2>1, <2>2, <2>3 DEF CacheInv
<1> QED
  BY <1>1, <1>2, <1>3, <1>4, <1>5, <1>6, <1>7 DEF CacheNext

\* What a run checks follows.
LEMMA CacheInvGives == CacheInv => CacheIsRight
<1> SUFFICES ASSUME CacheInv PROVE CacheIsRight
  OBVIOUS
<1> USE DEF CacheInv
<1>1. CacheTypeOK
  BY DEF CacheTypeOK, CacheTypes, PlacesAreKept
<1>2. UsedIsCached
  BY DEF UsedIsCached, ServersAreSupplied
<1>3. DiskKeepsReserve
  <2> DEFINE r == download.repo
  <2> SUFFICES ASSUME download.at = "running", ~crowded,
                      Elsewhere < Required(r), (Reported[r] * 12) \div 10 >= SizeOf[r]
               PROVE  Free >= Reserve
    BY DEF DiskKeepsReserve
  <2>1. r \in Model
    BY PlacesAreThere DEF PlacesAreKept
  <2>2. Free >= Reserve + SizeOf[r] - stored[r]
    BY DEF RestFits
  <2>3. SizeOf[r] \in Nat /\ stored[r] \in Nat /\ stored[r] <= SizeOf[r] /\ Reserve \in Nat /\ Free \in Int
    BY <2>1, Halves, FreeStays, CacheAssumption
  <2> QED
    BY <2>2, <2>3
<1>4. ListIsCurrent
  BY PlacesAreThere DEF ListIsCurrent, ListFollows, Pending
<1> QED
  BY <1>1, <1>2, <1>3, <1>4 DEF CacheIsRight

\* Servers, a deletion, a download and the loads of the screen, each looking first and acting
\* later, with servers and downloads that are forgotten and still fetch: the models in use stay,
\* but for a start into a deletion, the reserve stays, as far as the sizes were told and the room
\* was on the disk of the cache, and a user who waits sees a list that is true: for any models,
\* sizes and disks (hf_cache.rs, api.rs, model_manage_screen.dart).
THEOREM CacheStaysRight == CacheSpec => []CacheIsRight
<1> QED
  BY CacheStarts, CacheKept, CacheInvGives, PTL DEF CacheSpec

-----------------------------------------------------------------------------
(* The watchdog *)

BusEvent == [kind : {"sample", "other"}, use : Nat]
Carries(bus, e) == \E i \in DOMAIN bus : bus[i] = e

WatchTypes ==
  /\ use \in [Process -> Nat]
  /\ session \in {"none", "open", "killing", "over"}
  /\ hard \in Nat /\ tree \subseteq Process
  /\ poller \in {"none", "polling", "ended"}
  /\ watchdog \in {"none", "watching", "tripped", "done", "aborted"}
  /\ watchBus \in Seq(BusEvent) /\ Len(watchBus) <= BusCapacity
  /\ runBus \in Seq(BusEvent) /\ Len(runBus) <= BusCapacity
  /\ recorder \in [peak : Nat, last : Nat \cup {None}]
  /\ recorder.last <= recorder.peak /\ (recorder.last = None => recorder.peak = 0)
  /\ collector \in {"reading", "taken"}
  /\ tripped \in Nat \cup {None}

\* The watchdog and the collector are there as long as the session is.
WatchersFollow ==
  /\ watchdog = "watching" => session = "open"
  /\ watchdog # "watching" => watchBus = <<>>
  /\ session = "none" => watchdog = "none" /\ tripped = None
  /\ collector = "taken" => session = "over"
  /\ poller = "ended" => session = "over"

\* What the watchdog is still to read the collector is still to read or has counted,
\* unless it has lost something.
SampleIsShared ==
  ~lagged => \A e \in BusEvent : Carries(watchBus, e) /\ e.kind = "sample"
    => recorder.peak >= e.use \/ Carries(runBus, e)

\* The same of the sample that made the watchdog act, which was over the limit.
TripIsShared ==
  tripped # None => tripped >= hard /\ (~lagged => recorder.peak >= tripped \/ Carries(runBus, Sample(tripped)))

WatchInv == WatchTypes /\ WatchersFollow /\ SampleIsShared /\ TripIsShared

\* Whole numbers add up to a whole number.
LEMMA TotalIsNat ==
  ASSUME NEW S, IsFiniteSet(S), NEW f, \A r \in S : f[r] \in Nat
  PROVE  Total(f, S) \in Nat
<1>1. PICK g : Total(f, S) = g[S] /\ Sums(f, S, g)
  BY TotalStep
<1> DEFINE Bad == {s \in SUBSET S : g[s] \notin Nat}
<1>2. Bad = {}
  <2> SUFFICES ASSUME Bad # {} PROVE FALSE
    OBVIOUS
  <2>1. PICK x \in Bad : \A y \in Bad : y \subseteq x => y = x
    <3>1. Bad \in SUBSET (SUBSET S)
      OBVIOUS
    <3> HIDE DEF Bad
    <3> QED
      BY <3>1, SmallestSet
  <2>2. x # {}
    <3>1. g[{}] = 0
      BY <1>1 DEF Sums
    <3>2. g[{}] \in Nat
      BY <3>1
    <3>3. g[x] \notin Nat
      OBVIOUS
    <3> HIDE DEF Bad
    <3> QED
      BY <3>2, <3>3
  <2>3. First(x) \in x /\ g[x] = f[First(x)] + g[x \ {First(x)}]
    BY <1>1, <2>2 DEF Sums
  <2>4. g[x \ {First(x)}] \in Nat
    <3>1. x \ {First(x)} \in SUBSET S /\ x \ {First(x)} \subseteq x /\ x \ {First(x)} # x
      BY <2>3
    <3> QED
      BY <3>1, <2>1
  <2>5. f[First(x)] \in Nat
    BY <2>3
  <2>6. g[x] \in Nat
    BY <2>3, <2>4, <2>5
  <2> QED
    BY <2>6
<1> QED
  BY <1>1, <1>2

LEMMA UsedIsNat ==
  ASSUME use \in [Process -> Nat], NEW ps \in SUBSET Process
  PROVE  UsedBy(ps) \in Nat
<1>1. IsFiniteSet(ps)
  BY FS_Subset, MemoryWatchAssumption
<1>2. \A r \in ps : use[r] \in Nat
  OBVIOUS
<1>3. UsedBy(ps) = Total(use, ps)
  BY SumIsTotal DEF UsedBy
<1> QED
  BY <1>1, <1>2, <1>3, TotalIsNat

\* What a bus carries after an event was received.
LEMMA ReceivedIs ==
  ASSUME NEW bus \in Seq(BusEvent), Len(bus) <= BusCapacity, NEW e \in BusEvent
  PROVE  /\ Received(bus, e) \in Seq(BusEvent) /\ Len(Received(bus, e)) <= BusCapacity
         /\ Carries(Received(bus, e), e)
         /\ \A x : Carries(Received(bus, e), x) => x = e \/ Carries(bus, x)
         /\ Len(bus) # BusCapacity => \A x : Carries(bus, x) => Carries(Received(bus, e), x)
<1> DEFINE kept == IF Len(bus) = BusCapacity THEN Tail(bus) ELSE bus
<1>1. BusCapacity \in Nat /\ BusCapacity > 0 /\ Len(bus) \in Nat
  BY MemoryWatchAssumption
<1>2. kept \in Seq(BusEvent) /\ Len(kept) < BusCapacity /\ (Len(bus) # BusCapacity => kept = bus)
  BY <1>1
<1>3. \A x : Carries(kept, x) => Carries(bus, x)
  <2>1. CASE Len(bus) = BusCapacity
    <3>1. \A i \in DOMAIN Tail(bus) : i + 1 \in DOMAIN bus /\ Tail(bus)[i] = bus[i + 1]
      BY <1>1, <2>1
    <3> QED
      BY <3>1, <2>1 DEF Carries
  <2> QED
    BY <2>1
<1> HIDE DEF kept
<1>4. Received(bus, e) = Append(kept, e)
  BY DEF Received, kept
<1>5. /\ Append(kept, e) \in Seq(BusEvent) /\ Len(Append(kept, e)) = Len(kept) + 1
      /\ \A i \in DOMAIN kept : i \in DOMAIN Append(kept, e) /\ Append(kept, e)[i] = kept[i]
      /\ Append(kept, e)[Len(kept) + 1] = e /\ Len(kept) + 1 \in DOMAIN Append(kept, e)
      /\ \A i \in DOMAIN Append(kept, e) : i \in DOMAIN kept \/ i = Len(kept) + 1
  BY <1>2
<1>6. Len(Append(kept, e)) <= BusCapacity
  BY <1>1, <1>2, <1>5
<1>7. \A x : Carries(Append(kept, e), x) => x = e \/ Carries(kept, x)
  BY <1>5 DEF Carries
<1>8. (\A x : Carries(kept, x) => Carries(Append(kept, e), x)) /\ Carries(Append(kept, e), e)
  BY <1>5 DEF Carries
<1> QED
  BY <1>2, <1>3, <1>4, <1>5, <1>6, <1>7, <1>8

\* What a bus carries after an event was read.
LEMMA ReadIs ==
  ASSUME NEW bus \in Seq(BusEvent), bus # <<>>, Len(bus) <= BusCapacity
  PROVE  /\ Head(bus) \in BusEvent /\ Tail(bus) \in Seq(BusEvent) /\ Len(Tail(bus)) <= BusCapacity
         /\ Carries(bus, Head(bus))
         /\ \A x : Carries(Tail(bus), x) => Carries(bus, x)
         /\ \A x : Carries(bus, x) => x = Head(bus) \/ Carries(Tail(bus), x)
<1>1. BusCapacity \in Nat /\ Len(bus) \in Nat /\ Len(bus) > 0
  BY MemoryWatchAssumption
<1>2. Head(bus) = bus[1] /\ 1 \in DOMAIN bus /\ Head(bus) \in BusEvent
  BY <1>1
<1>3. Tail(bus) \in Seq(BusEvent) /\ Len(Tail(bus)) <= BusCapacity
  BY <1>1
<1>4. \A i \in DOMAIN Tail(bus) : i + 1 \in DOMAIN bus /\ Tail(bus)[i] = bus[i + 1]
  BY <1>1
<1>5. \A i \in DOMAIN bus : i = 1 \/ (i - 1 \in DOMAIN Tail(bus) /\ Tail(bus)[i - 1] = bus[i])
  BY <1>1
<1> QED
  BY <1>2, <1>3, <1>4, <1>5, ZenonT(40) DEF Carries

LEMMA EmptyCarries == ASSUME NEW e PROVE ~Carries(<<>>, e)
BY DEF Carries

LEMMA EmptyBus == <<>> \in Seq(BusEvent) /\ Len(<<>>) <= BusCapacity
BY MemoryWatchAssumption

LEMMA DefaultIsNat ==
  ASSUME NEW used \in 0 .. Memory
  PROVE  DefaultLimit(used) \in Nat
<1>1. Memory \in Nat /\ used \in Nat /\ Memory - used \in Nat
  BY MemoryWatchAssumption
<1> DEFINE rest == Memory - used
<1>2. (rest * 85) \div 100 \in Nat
  <2> HIDE DEF rest
  <2>1. rest \in Nat
    BY <1>1 DEF rest
  <2> QED
    BY <2>1
<1> QED
  BY <1>1, <1>2 DEF DefaultLimit

\* What is published reaches both who read.
LEMMA PublishedIsShared ==
  ASSUME WatchInv, NEW e \in BusEvent, NEW rest \in Seq(BusEvent), Len(rest) <= BusCapacity,
         \A x : Carries(rest, x) => Carries(watchBus, x),
         collector = "reading", Publishes(e, rest), recorder' = recorder
  PROVE  /\ watchBus' \in Seq(BusEvent) /\ Len(watchBus') <= BusCapacity
         /\ runBus' \in Seq(BusEvent) /\ Len(runBus') <= BusCapacity
         /\ watchdog' # "watching" => watchBus' = <<>>
         /\ SampleIsShared'
         /\ ~lagged' => ~lagged /\ \A x : Carries(runBus, x) => Carries(runBus', x)
<1>1. /\ runBus \in Seq(BusEvent) /\ Len(runBus) <= BusCapacity
  BY DEF WatchInv, WatchTypes
<1>2. /\ watchBus' = IF watchdog' = "watching" THEN Received(rest, e) ELSE <<>>
      /\ runBus' = Received(runBus, e)
      /\ lagged' = (lagged \/ Len(runBus) = BusCapacity)
  BY DEF Publishes
<1>3. /\ Received(runBus, e) \in Seq(BusEvent) /\ Len(Received(runBus, e)) <= BusCapacity
      /\ Carries(Received(runBus, e), e)
      /\ Len(runBus) # BusCapacity => \A x : Carries(runBus, x) => Carries(Received(runBus, e), x)
  BY <1>1, ReceivedIs
<1>4. /\ Received(rest, e) \in Seq(BusEvent) /\ Len(Received(rest, e)) <= BusCapacity
      /\ \A x : Carries(Received(rest, e), x) => x = e \/ Carries(rest, x)
  BY ReceivedIs
<1>5. ~lagged' => ~lagged /\ \A x : Carries(runBus, x) => Carries(runBus', x)
  BY <1>2, <1>3
<1>6. \A x : Carries(watchBus', x) => x = e \/ Carries(watchBus, x)
  BY <1>2, <1>4, EmptyCarries
<1>7. SampleIsShared'
  <2> SUFFICES ASSUME ~lagged', NEW x \in BusEvent, Carries(watchBus', x), x.kind = "sample"
               PROVE  recorder.peak >= x.use \/ Carries(runBus', x)
    BY DEF SampleIsShared
  <2>1. CASE x = e
    BY <2>1, <1>2, <1>3
  <2>2. CASE Carries(watchBus, x)
    <3>1. recorder.peak >= x.use \/ Carries(runBus, x)
      BY <2>2, <1>5 DEF WatchInv, SampleIsShared
    <3> QED
      BY <3>1, <1>5
  <2> QED
    BY <2>1, <2>2, <1>6
<1>8. watchBus' \in Seq(BusEvent) /\ Len(watchBus') <= BusCapacity
  BY <1>2, <1>4, EmptyBus
<1> QED
  BY <1>2, <1>3, <1>5, <1>7, <1>8

\* Nobody looks at what the watchdog no longer reads.
LEMMA NothingToShare ==
  ASSUME watchBus' = <<>>
  PROVE  SampleIsShared'
BY EmptyCarries DEF SampleIsShared

\* Other steps leave the buses and what was recorded alone.
LEMMA BusesStay ==
  ASSUME WatchInv, watchBus' = watchBus, runBus' = runBus, lagged' = lagged, recorder' = recorder
  PROVE  SampleIsShared'
BY DEF WatchInv, SampleIsShared

LEMMA WatchStarts == WatchInit => WatchInv
<1> SUFFICES ASSUME WatchInit PROVE WatchInv
  OBVIOUS
<1> USE DEF WatchInit
<1>1. WatchTypes
  <2>1. watchBus \in Seq(BusEvent) /\ Len(watchBus) <= BusCapacity /\ runBus \in Seq(BusEvent) /\ Len(runBus) <= BusCapacity
    BY EmptyBus
  <2>2. recorder \in [peak : Nat, last : Nat \cup {None}]
    OBVIOUS
  <2>3. recorder.last <= recorder.peak /\ (recorder.last = None => recorder.peak = 0)
    BY DEF None
  <2> QED
    BY <2>1, <2>2, <2>3 DEF WatchTypes
<1>2. WatchersFollow
  BY DEF WatchersFollow
<1>3. SampleIsShared
  BY EmptyCarries DEF SampleIsShared
<1>4. TripIsShared
  BY DEF TripIsShared
<1> QED
  BY <1>1, <1>2, <1>3, <1>4 DEF WatchInv

LEMMA OpensSessionKeeps == ASSUME WatchInv, OpensSession PROVE WatchInv'
<1> USE DEF OpensSession
<1>1. session = "none" /\ watchdog = "none" /\ tripped = None /\ watchBus = <<>>
  BY DEF WatchInv, WatchersFollow
<1>2. hard' \in Nat
  BY DefaultIsNat, MemoryWatchAssumption
<1>3. use' \in [Process -> Nat]
  BY MemoryWatchAssumption DEF WatchInv, WatchTypes
<1>4. WatchTypes'
  BY <1>2, <1>3, MemoryWatchAssumption DEF WatchInv, WatchTypes
<1>5. WatchersFollow'
  BY <1>1 DEF WatchInv, WatchersFollow
<1>6. TripIsShared'
  BY <1>1 DEF TripIsShared
<1> QED
  BY <1>4, <1>5, <1>6, BusesStay DEF WatchInv

LEMMA UsesKeeps == ASSUME WatchInv, NEW p \in Process, Uses(p) PROVE WatchInv'
<1> USE DEF Uses
<1>1. use' \in [Process -> Nat]
  BY MemoryWatchAssumption DEF WatchInv, WatchTypes
<1>2. WatchTypes'
  BY <1>1 DEF WatchInv, WatchTypes
<1>3. WatchersFollow' /\ TripIsShared'
  BY DEF WatchInv, WatchersFollow, TripIsShared
<1> QED
  BY <1>2, <1>3, BusesStay DEF WatchInv

LEMMA SamplesKeeps == ASSUME WatchInv, NEW fresh \in BOOLEAN, Samples(fresh) PROVE WatchInv'
<1> USE DEF Samples
<1>1. collector = "reading"
  BY DEF WatchInv, WatchTypes, WatchersFollow
<1>2. tree' \in SUBSET Process
  BY DEF WatchInv, WatchTypes, Counted, Alive
<1>3. Sample(UsedBy(tree')) \in BusEvent
  <2>1. UsedBy(tree') \in Nat
    BY <1>2, UsedIsNat DEF WatchInv, WatchTypes
  <2> QED
    BY <2>1 DEF Sample, BusEvent
<1> DEFINE e == Sample(UsedBy(tree'))
<1>4. watchBus \in Seq(BusEvent) /\ Len(watchBus) <= BusCapacity
  BY DEF WatchInv, WatchTypes
<1>5. /\ watchBus' \in Seq(BusEvent) /\ Len(watchBus') <= BusCapacity
      /\ runBus' \in Seq(BusEvent) /\ Len(runBus') <= BusCapacity
      /\ watchdog' # "watching" => watchBus' = <<>>
      /\ SampleIsShared'
      /\ ~lagged' => ~lagged /\ \A x : Carries(runBus, x) => Carries(runBus', x)
  <2>1. Publishes(e, watchBus) /\ e \in BusEvent /\ recorder' = recorder
    BY <1>3
  <2> HIDE DEF e, Samples
  <2> QED
    BY <2>1, <1>1, <1>4, PublishedIsShared
<1>6. WatchTypes'
  BY <1>2, <1>5 DEF WatchInv, WatchTypes
<1>7. WatchersFollow'
  BY <1>5 DEF WatchInv, WatchersFollow
<1>8. TripIsShared'
  BY <1>5 DEF WatchInv, TripIsShared
<1> QED
  BY <1>5, <1>6, <1>7, <1>8 DEF WatchInv

LEMMA OtherEventKeeps == ASSUME WatchInv, OtherEvent PROVE WatchInv'
<1> USE DEF OtherEvent
<1>1. collector = "reading"
  BY DEF WatchInv, WatchTypes, WatchersFollow
<1>2. Noise \in BusEvent
  BY DEF Noise, BusEvent
<1>3. watchBus \in Seq(BusEvent) /\ Len(watchBus) <= BusCapacity
  BY DEF WatchInv, WatchTypes
<1>4. /\ watchBus' \in Seq(BusEvent) /\ Len(watchBus') <= BusCapacity
      /\ runBus' \in Seq(BusEvent) /\ Len(runBus') <= BusCapacity
      /\ watchdog' # "watching" => watchBus' = <<>>
      /\ SampleIsShared'
      /\ ~lagged' => ~lagged /\ \A x : Carries(runBus, x) => Carries(runBus', x)
  BY <1>1, <1>2, <1>3, PublishedIsShared
<1>5. WatchTypes'
  BY <1>4 DEF WatchInv, WatchTypes
<1>6. WatchersFollow'
  BY <1>4 DEF WatchInv, WatchersFollow
<1>7. TripIsShared'
  BY <1>4 DEF WatchInv, TripIsShared
<1> QED
  BY <1>4, <1>5, <1>6, <1>7 DEF WatchInv

LEMMA WatchdogReadsKeeps == ASSUME WatchInv, WatchdogReads PROVE WatchInv'
<1> USE DEF WatchdogReads
<1> DEFINE e == Head(watchBus)
           kills == e.kind = "sample" /\ e.use >= hard
<1>1. session = "open" /\ collector = "reading" /\ watchdog = "watching"
  BY DEF WatchInv, WatchTypes, WatchersFollow
<1>2. /\ e \in BusEvent /\ Tail(watchBus) \in Seq(BusEvent) /\ Len(Tail(watchBus)) <= BusCapacity
      /\ Carries(watchBus, e)
      /\ \A x : Carries(Tail(watchBus), x) => Carries(watchBus, x)
  BY ReadIs DEF WatchInv, WatchTypes
<1>3. /\ UNCHANGED <<use, session, hard, tree, poller, recorder, collector, events>>
      /\ watchdog' = IF kills THEN "tripped" ELSE "watching"
      /\ tripped' = IF kills THEN e.use ELSE tripped
      /\ \/ Publishes(Noise, Tail(watchBus))
         \/ ~kills /\ watchBus' = Tail(watchBus) /\ UNCHANGED <<runBus, lagged>>
  OBVIOUS
<1> HIDE DEF e, WatchdogReads
<1>4. /\ watchBus' \in Seq(BusEvent) /\ Len(watchBus') <= BusCapacity
      /\ runBus' \in Seq(BusEvent) /\ Len(runBus') <= BusCapacity
      /\ watchdog' # "watching" => watchBus' = <<>>
      /\ SampleIsShared'
      /\ ~lagged' => ~lagged /\ \A x : Carries(runBus, x) => Carries(runBus', x)
  <2>1. CASE Publishes(Noise, Tail(watchBus))
    <3>1. Noise \in BusEvent /\ recorder' = recorder
      BY <1>3 DEF Noise, BusEvent
    <3> QED
      BY <1>1, <1>2, <2>1, <3>1, PublishedIsShared
  <2>2. CASE ~kills /\ watchBus' = Tail(watchBus) /\ UNCHANGED <<runBus, lagged>>
    <3>1. SampleIsShared'
      BY <1>2, <1>3, <2>2 DEF WatchInv, SampleIsShared
    <3>2. runBus \in Seq(BusEvent) /\ Len(runBus) <= BusCapacity
      BY DEF WatchInv, WatchTypes
    <3>3. watchdog' = "watching"
      BY <1>3, <2>2
    <3> QED
      BY <1>2, <2>2, <3>1, <3>2, <3>3
  <2> QED
    BY <1>3, <2>1, <2>2
<1>5. WatchTypes'
  <2>1. e.use \in Nat
    BY <1>2 DEF BusEvent
  <2> QED
    BY <1>3, <1>4, <2>1 DEF WatchInv, WatchTypes
<1>6. WatchersFollow'
  BY <1>1, <1>3, <1>4 DEF WatchInv, WatchersFollow
<1>7. TripIsShared'
  <2>1. CASE kills
    <3>1. e.use \in Nat /\ e = Sample(e.use)
      BY <1>2, <2>1 DEF BusEvent, Sample
    <3>2. ~lagged => recorder.peak >= e.use \/ Carries(runBus, e)
      BY <1>2, <2>1 DEF WatchInv, SampleIsShared
    <3>3. ~lagged' => recorder.peak >= e.use \/ Carries(runBus', Sample(e.use))
      BY <1>4, <3>1, <3>2
    <3>4. tripped' = e.use /\ hard' = hard /\ recorder' = recorder /\ e.use >= hard
      BY <1>3, <2>1
    <3> QED
      BY <3>3, <3>4 DEF TripIsShared
  <2>2. CASE ~kills
    <3>1. tripped' = tripped /\ hard' = hard /\ recorder' = recorder
      BY <1>3, <2>2
    <3> QED
      BY <1>4, <3>1 DEF WatchInv, TripIsShared
  <2> QED
    BY <2>1, <2>2
<1> QED
  BY <1>4, <1>5, <1>6, <1>7 DEF WatchInv

LEMMA WatchdogKillsKeeps == ASSUME WatchInv, WatchdogKills PROVE WatchInv'
<1> USE DEF WatchdogKills
<1>1. WatchTypes'
  BY DEF WatchInv, WatchTypes
<1>2. WatchersFollow' /\ TripIsShared'
  BY DEF WatchInv, WatchTypes, WatchersFollow, TripIsShared
<1> QED
  BY <1>1, <1>2, BusesStay DEF WatchInv

LEMMA EndsSessionKeeps == ASSUME WatchInv, EndsSession PROVE WatchInv'
<1> USE DEF EndsSession
<1>1. WatchTypes'
  <2>1. use' \in [Process -> Nat] /\ watchBus' \in Seq(BusEvent) /\ Len(watchBus') <= BusCapacity
    BY EmptyBus
  <2> QED
    BY <2>1 DEF WatchInv, WatchTypes
<1>2. WatchersFollow' /\ TripIsShared'
  BY DEF WatchInv, WatchTypes, WatchersFollow, TripIsShared
<1> QED
  BY <1>1, <1>2, NothingToShare DEF WatchInv

LEMMA PollsKeeps == ASSUME WatchInv, Polls PROVE WatchInv'
<1> USE DEF Polls
<1>1. WatchTypes'
  BY DEF WatchInv, WatchTypes
<1>2. WatchersFollow' /\ TripIsShared'
  BY DEF WatchInv, WatchersFollow, TripIsShared
<1> QED
  BY <1>1, <1>2, BusesStay DEF WatchInv

LEMMA TakesRecorderKeeps == ASSUME WatchInv, TakesRecorder PROVE WatchInv'
<1> USE DEF TakesRecorder
<1>1. WatchTypes'
  BY DEF WatchInv, WatchTypes
<1>2. WatchersFollow' /\ TripIsShared'
  BY DEF WatchInv, WatchersFollow, TripIsShared
<1> QED
  BY <1>1, <1>2, BusesStay DEF WatchInv

\* The peak is the largest sample that was read; the last row is none above it.
LEMMA PeakIsLargest ==
  ASSUME WatchTypes, NEW n \in Nat, NEW due \in BOOLEAN
  PROVE  /\ Records(n, due) \in [peak : Nat, last : Nat]
         /\ Records(n, due).peak >= n /\ Records(n, due).peak >= recorder.peak
         /\ Records(n, due).last <= Records(n, due).peak
<1>1. recorder.peak \in Nat /\ recorder.last \in Nat \cup {None} /\ recorder.last <= recorder.peak
  BY DEF WatchTypes
<1> DEFINE p == recorder.peak
           m == Max({p, n})
<1>2. m \in Nat /\ m >= n /\ m >= p
  <2>1. \E x \in {p, n} : \A y \in {p, n} : x >= y
    BY <1>1
  <2>2. m \in {p, n} /\ \A y \in {p, n} : m >= y
    BY <2>1 DEF Max
  <2> QED
    BY <1>1, <2>2
<1> DEFINE l == IF due \/ recorder.last = None THEN n ELSE recorder.last
<1>3. l \in Nat /\ l <= m
  BY <1>1, <1>2 DEF None
<1>4. Records(n, due) = [peak |-> m, last |-> l]
  BY DEF Records
<1> HIDE DEF m, l, p
<1>5. Records(n, due).peak = m /\ Records(n, due).last = l
  BY <1>4
<1>6. m >= recorder.peak
  BY <1>2 DEF p
<1> QED
  BY <1>2, <1>3, <1>4, <1>5, <1>6

LEMMA CollectorReadsKeeps == ASSUME WatchInv, NEW due \in BOOLEAN, CollectorReads(due) PROVE WatchInv'
<1> USE DEF CollectorReads
<1> DEFINE e == Head(runBus)
<1>1. /\ e \in BusEvent /\ Tail(runBus) \in Seq(BusEvent) /\ Len(Tail(runBus)) <= BusCapacity
      /\ \A x : Carries(runBus, x) => x = e \/ Carries(Tail(runBus), x)
  BY ReadIs DEF WatchInv, WatchTypes
<1>2. /\ runBus' = Tail(runBus)
      /\ recorder' = IF e.kind = "sample" THEN Records(e.use, due) ELSE recorder
      /\ UNCHANGED <<use, session, hard, tree, poller, watchdog, warned, watchBus, lagged, collector,
                     tripped, events>>
  OBVIOUS
<1>3. recorder.peak \in Nat /\ WatchTypes /\ e.use \in Nat
  BY <1>1 DEF WatchInv, WatchTypes, BusEvent
<1> HIDE DEF e, CollectorReads
<1>4. /\ recorder' \in [peak : Nat, last : Nat \cup {None}]
      /\ recorder'.last <= recorder'.peak /\ (recorder'.last = None => recorder'.peak = 0)
      /\ recorder'.peak >= recorder.peak
      /\ e.kind = "sample" => recorder'.peak >= e.use
  <2>1. CASE e.kind = "sample"
    <3>1. /\ recorder' \in [peak : Nat, last : Nat]
          /\ recorder'.peak >= e.use /\ recorder'.peak >= recorder.peak
          /\ recorder'.last <= recorder'.peak
      BY <1>2, <1>3, <2>1, PeakIsLargest
    <3> QED
      BY <3>1 DEF None
  <2>2. CASE e.kind # "sample"
    <3>1. recorder' = recorder
      BY <1>2, <2>2
    <3> QED
      BY <1>3, <2>2, <3>1 DEF WatchTypes
  <2> QED
    BY <2>1, <2>2
<1>5. \A x \in BusEvent : x.kind = "sample" /\ (recorder.peak >= x.use \/ Carries(runBus, x))
                            => recorder'.peak >= x.use \/ Carries(runBus', x)
  <2> SUFFICES ASSUME NEW x \in BusEvent, x.kind = "sample", recorder.peak >= x.use \/ Carries(runBus, x)
               PROVE  recorder'.peak >= x.use \/ Carries(runBus', x)
    OBVIOUS
  <2>1. CASE recorder.peak >= x.use
    <3>1. recorder'.peak \in Nat /\ x.use \in Nat
      BY <1>4 DEF BusEvent
    <3> QED
      BY <1>3, <1>4, <2>1, <3>1
  <2>2. CASE Carries(runBus, x)
    BY <1>1, <1>2, <1>4, <2>2
  <2> QED
    BY <2>1, <2>2
<1>6. WatchTypes'
  BY <1>1, <1>2, <1>3, <1>4 DEF WatchInv, WatchTypes
<1>7. WatchersFollow'
  BY <1>2 DEF WatchInv, WatchersFollow
<1>8. SampleIsShared'
  BY <1>2, <1>5 DEF WatchInv, SampleIsShared
<1>9. TripIsShared'
  <2>1. CASE tripped = None
    BY <1>2, <2>1 DEF TripIsShared
  <2>2. CASE tripped # None
    <3>1. Sample(tripped) \in BusEvent /\ Sample(tripped).kind = "sample" /\ Sample(tripped).use = tripped
      BY <2>2, <1>3 DEF WatchTypes, Sample, BusEvent
    <3>2. ~lagged => recorder.peak >= tripped \/ Carries(runBus, Sample(tripped))
      BY <2>2 DEF WatchInv, TripIsShared
    <3>3. ~lagged => recorder'.peak >= tripped \/ Carries(runBus', Sample(tripped))
      BY <1>5, <3>1, <3>2
    <3>4. tripped >= hard
      BY <2>2 DEF WatchInv, TripIsShared
    <3> QED
      BY <1>2, <3>3, <3>4 DEF TripIsShared
  <2> QED
    BY <2>1, <2>2
<1> QED
  BY <1>6, <1>7, <1>8, <1>9 DEF WatchInv

LEMMA WatchStepsKeep == ASSUME WatchInv, [WatchNext]_watchVars PROVE WatchInv'
<1>1. CASE UNCHANGED watchVars
  <2> USE <1>1 DEF watchVars
  <2>1. WatchTypes'
    BY DEF WatchInv, WatchTypes
  <2>2. WatchersFollow' /\ TripIsShared'
    BY DEF WatchInv, WatchersFollow, TripIsShared
  <2> QED
    BY <2>1, <2>2, BusesStay DEF WatchInv
<1>2. CASE WatchNext
  BY <1>2, OpensSessionKeeps, OtherEventKeeps, WatchdogReadsKeeps, WatchdogKillsKeeps, EndsSessionKeeps,
     PollsKeeps, TakesRecorderKeeps, UsesKeeps, SamplesKeeps, CollectorReadsKeeps DEF WatchNext
<1> QED
  BY <1>1, <1>2

\* What a session has recorded explains the kill, however far the watchdog and the
\* collector have fallen behind each other.
THEOREM KillsAreExplained == WatchSpec => []KillIsExplained
<1>1. WatchInit => WatchInv
  BY WatchStarts
<1>2. WatchInv /\ [WatchNext]_watchVars => WatchInv'
  BY WatchStepsKeep
<1>3. WatchInv => KillIsExplained
  <2> SUFFICES ASSUME WatchInv PROVE KillIsExplained
    OBVIOUS
  <2>1. WatchTypeOK
    BY DEF WatchInv, WatchTypes, WatchersFollow, WatchTypeOK
  <2>2. PeakExplainsKill
    <3> SUFFICES ASSUME tripped # None, ~lagged, \A i \in DOMAIN runBus : runBus[i].kind # "sample"
                 PROVE  recorder.peak >= hard
      BY DEF PeakExplainsKill
    <3>1. ~Carries(runBus, Sample(tripped))
      BY DEF Carries, Sample
    <3>2. tripped >= hard /\ recorder.peak >= tripped
      BY <3>1 DEF WatchInv, TripIsShared
    <3>3. tripped \in Nat /\ hard \in Nat /\ recorder.peak \in Nat
      BY DEF WatchInv, WatchTypes
    <3> QED
      BY <3>2, <3>3
  <2> QED
    BY <2>1, <2>2 DEF KillIsExplained
<1> QED
  BY <1>1, <1>2, <1>3, PTL DEF WatchSpec

-----------------------------------------------------------------------------
(* The modules beside each other *)

\* A module that rests stutters.
LEMMA RestsAside ==
  ASSUME [KeptNext]_KeptVars
  PROVE  /\ [ProfilesNext]_profileVars /\ [DraftNext]_draftVars
         /\ [AuthNext]_authVars /\ [CacheNext]_cacheVars
<1>1. CASE KeptNext
  BY <1>1 DEF KeptNext
<1>2. CASE UNCHANGED KeptVars
  BY <1>2 DEF KeptVars
<1> QED
  BY <1>1, <1>2

\* Files, drafts, token and cache share no state: whatever one of them does while the
\* others rest, it does as if it were alone, so that all that is proved of one of them
\* is true of the behaviours that are checked together.
THEOREM EachIsItself == KeptSpec => ProfilesSpec /\ DraftSpec /\ AuthSpec /\ CacheSpec
<1>1. KeptInit => ProfilesInit /\ DraftInit /\ AuthInit /\ CacheInit
  BY DEF KeptInit
<1> QED
  BY <1>1, RestsAside, PTL DEF KeptSpec, ProfilesSpec, DraftSpec, AuthSpec, CacheSpec

\* What the user changes takes effect: a profile that is in its file is replaced only to
\* write a setting of it (generate, set_profile_task, link_drafter), and a token that was
\* set is the one in use (set_token_from_stdin, import_from_hf_cli).
THEOREM ChangesCount == KeptSpec => ChangesTakeEffect
BY EachIsItself, SettingsReplaceOnly, SetDecides DEF ChangesTakeEffect
=============================================================================
