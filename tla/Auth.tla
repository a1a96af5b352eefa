-------------------------------- MODULE Auth --------------------------------
(***************************************************************************)
(* The token for the model hub (auth.rs): four sources in a fixed order,   *)
(* operations of the app and of the command line that ask the hub who a    *)
(* token belongs to, and the status that is shown.  Between the question   *)
(* and the answer every source may change.                                 *)
(***************************************************************************)
EXTENDS Naturals, FiniteSets

CONSTANTS AuthOp,     \* operations that may be under way at once
          HubToken,   \* tokens a user may have
          Blank,      \* what is empty once it is trimmed
          NoToken,    \* no entry, no file, no variable
          MaxOps      \* bound: operations begun

ASSUME AuthAssumption ==
    /\ MaxOps \in Nat
    /\ HubToken \cap {Blank, NoToken, "none", "invalid", "offline"} = {}

VARIABLES source,     \* what each of the sources holds
          op,         \* the operations under way: kind, and the token asked about
          shown,      \* the last status: the token masked and whose it is
          verified,   \* history: tokens the hub has confirmed
          ended,      \* history: the last operation, its token and how it ended
          opsLeft

authVars == <<source, op, shown, verified, ended, opsLeft>>

Source == {"keychain", "HF_TOKEN", "HUGGING_FACE_HUB_TOKEN", "file"}
Value == HubToken \cup {Blank, NoToken}
Changing == {"set", "import"}
User == HubToken \cup {"none", "invalid", "offline"}     \* a token stands for its owner
NoOp == [kind |-> "none", token |-> NoToken]
NoStatus == [token |-> NoToken, user |-> "none"]

Present(s) == source[s] \in HubToken

\* A plausible fault: the variables of the environment come first.
ActiveFromEnv ==
    IF Present("HF_TOKEN") THEN "HF_TOKEN"
    ELSE IF Present("HUGGING_FACE_HUB_TOKEN") THEN "HUGGING_FACE_HUB_TOKEN"
    ELSE IF Present("keychain") THEN "keychain"
    ELSE IF Present("file") THEN "file" ELSE "none"

\* resolve_token: the first source whose value is not blank.
Active ==
    IF Present("keychain") THEN "keychain"
    ELSE IF Present("HF_TOKEN") THEN "HF_TOKEN"
    ELSE IF Present("HUGGING_FACE_HUB_TOKEN") THEN "HUGGING_FACE_HUB_TOKEN"
    ELSE IF Present("file") THEN "file" ELSE "none"
ActiveToken == IF Active = "none" THEN NoToken ELSE source[Active]

\* scan_token: the doctor looks at each source by itself, and at the one in use.
DoctorToken == [present |-> {s \in Source : Present(s)}, masked |-> ActiveToken]

AuthInit ==
    /\ source \in {[keychain |-> NoToken, HF_TOKEN |-> e, HUGGING_FACE_HUB_TOKEN |-> h, file |-> f] :
                       e, h, f \in Value}
    /\ op = [o \in AuthOp |-> NoOp]
    /\ shown = NoStatus
    /\ verified = {}
    /\ ended = [kind |-> "none", token |-> NoToken, good |-> FALSE]
    /\ opsLeft = MaxOps

Asks(o, kind, token) ==
    /\ op[o] = NoOp /\ opsLeft > 0
    /\ op' = [op EXCEPT ![o] = [kind |-> kind, token |-> token]]
    /\ opsLeft' = opsLeft - 1
    /\ UNCHANGED <<source, shown, verified, ended>>

\* auth_set and set_token_from_stdin: a blank token is refused before anything is
\* asked.  auth_verify_token only asks.
BeginsSet(o) == \E token \in HubToken : Asks(o, "set", token)
BeginsVerify(o) == \E token \in HubToken \cup {Blank} : Asks(o, "verify", token)

\* import_from_hf_cli: the file is read now, the answer comes later.
BeginsImport(o) ==
    \/ Present("file") /\ Asks(o, "import", source["file"])
    \/ /\ ~Present("file") /\ op[o] = NoOp /\ opsLeft > 0
       /\ ended' = [kind |-> "import", token |-> NoToken, good |-> FALSE]
       /\ opsLeft' = opsLeft - 1
       /\ UNCHANGED <<source, op, shown, verified>>

\* build_auth_status: the active token is resolved once; without one nothing is
\* asked.
BeginsStatus(o) ==
    \/ Active # "none" /\ Asks(o, "status", ActiveToken)
    \/ /\ Active = "none" /\ op[o] = NoOp /\ opsLeft > 0
       /\ shown' = NoStatus
       /\ opsLeft' = opsLeft - 1
       /\ UNCHANGED <<source, op, verified, ended>>

\* auth_clear does not wait; an entry that is not there is no error.
Clears ==
    /\ opsLeft > 0
    /\ source' = [source EXCEPT !["keychain"] = NoToken]
    /\ opsLeft' = opsLeft - 1
    /\ ended' = [kind |-> "clear", token |-> NoToken, good |-> TRUE]
    /\ UNCHANGED <<op, shown, verified>>

\* keychain_set follows a confirmation only.
Keeps(my, answer) == my.kind \in Changing /\ answer = "known"

\* A plausible fault: the token to show is resolved again when the answer is there.
ToldAnew(my) == ActiveToken

\* The token a status shows is the one that was asked about.
Told(my) == my.token

\* verify_whoami answers: with the owner, with a refusal, or not at all; a token
\* that is confirmed goes to the keychain, whatever has happened meanwhile.
Replies(o, answer) ==
    LET my == op[o] good == answer = "known"
    IN  /\ my # NoOp
        /\ good => my.token # Blank
        /\ verified' = IF good THEN verified \cup {my.token} ELSE verified
        /\ source' = IF Keeps(my, answer) THEN [source EXCEPT !["keychain"] = my.token] ELSE source
        /\ shown' = IF my.kind = "status"
                      THEN [token |-> Told(my), user |-> IF good THEN my.token ELSE answer]
                      ELSE shown
        /\ ended' = [kind |-> my.kind, token |-> my.token, good |-> good]
        /\ op' = [op EXCEPT ![o] = NoOp]
        /\ UNCHANGED opsLeft

\* The keychain refuses a token that was confirmed: the operation fails.
StoreFails(o) ==
    /\ op[o].kind \in Changing
    /\ verified' = verified \cup {op[o].token}
    /\ ended' = [kind |-> op[o].kind, token |-> op[o].token, good |-> FALSE]
    /\ op' = [op EXCEPT ![o] = NoOp]
    /\ UNCHANGED <<source, shown, opsLeft>>

\* The hub's own command line writes its file or removes it.
FileChanges(v) ==
    /\ opsLeft > 0
    /\ source' = [source EXCEPT !["file"] = v]
    /\ opsLeft' = opsLeft - 1
    /\ UNCHANGED <<op, shown, verified, ended>>

AuthNext ==
    \/ \E o \in AuthOp : \/ BeginsSet(o) \/ BeginsVerify(o) \/ BeginsImport(o) \/ BeginsStatus(o)
                         \/ \E answer \in {"known", "invalid", "offline"} : Replies(o, answer)
                         \/ StoreFails(o)
    \/ Clears
    \/ \E v \in Value : FileChanges(v)

AuthSpec == AuthInit /\ [][AuthNext]_authVars
-----------------------------------------------------------------------------
(* Properties. *)

AuthTypeOK ==
    /\ DOMAIN source = Source /\ \A s \in Source : source[s] \in Value
    /\ shown.user \in User /\ shown.token \in HubToken \cup {NoToken}

\* The keychain holds no token that the hub has not confirmed, and no blank one,
\* in whatever order operations, removals and answers come.
KeychainIsVerified == source["keychain"] \in verified \cup {NoToken}

\* The user that the status shows is the owner of the token that it shows, though
\* the sources may have changed while it was being asked for.
ShownIsOneToken ==
    /\ shown.user \in HubToken => shown.user = shown.token
    /\ shown.token = NoToken <=> shown.user = "none"

\* The doctor's line on the active token, which is good if any source is there,
\* agrees with the token the programs will use, and that one is among them.
DoctorAgrees ==
    LET told == DoctorToken
    IN  /\ told.present # {} <=> told.masked \in HubToken
        /\ told.masked \in HubToken => \E s \in told.present : source[s] = told.masked

\* A token that was just set or imported is the one used from then on, whatever
\* the environment holds.
SetIsUsed ==
    [][ended' # ended /\ ended'.good /\ ended'.kind \in Changing => ActiveToken' = ended'.token]_authVars

\* With answers of the hub that come late and sources that change meanwhile: what is
\* kept was confirmed, what is shown is of one token, and the doctor agrees.
TokensAreConfirmed ==
    /\ AuthTypeOK
    /\ KeychainIsVerified
    /\ ShownIsOneToken
    /\ DoctorAgrees
=============================================================================
