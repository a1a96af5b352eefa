--------------------------- MODULE Conversations ---------------------------
(***************************************************************************)
(* The chat screen and its conversations (chat_screen.dart; chat_* of the  *)
(* bridge; the chat rows of db.rs; chat.rs).  A question is stored, sent   *)
(* with the history of the conversation and answered by a stream of events *)
(* that are handled one by one; the user may start, open and delete        *)
(* conversations at any moment in between.                                 *)
(***************************************************************************)
EXTENDS Naturals, Sequences, FiniteSets, FiniteSetsExt

CONSTANTS Conversation,   \* bound: ids of conversations, 1..n
          MaxQuestions,   \* bound: questions asked
          KeepMessages    \* the messages that a summary leaves as they are

ASSUME ChatAssumption == MaxQuestions \in Nat /\ KeepMessages \in Nat /\ Conversation \subseteq Nat \ {0}

VARIABLES rows,       \* [Conversation -> the messages stored, or Gone]
          shown,      \* the conversation on the screen, or 0
          bubbles,    \* how many bubbles the screen shows
          history,    \* what the next question is sent with
          asking,     \* the question under way
          streaming,  \* the screen waits for the end of an answer
          questions,  \* questions asked so far
          moved,      \* history: the user left the conversation during a question
          failed      \* history: an answer has failed since the screen was opened

chatVars == <<rows, shown, bubbles, history, asking, streaming, questions, moved, failed>>

Gone == << <<"gone", 0>> >>
User(q) == <<"user", q>>
Assistant(q) == <<"assistant", q>>
NoSummary == [old |-> <<>>, recent |-> <<>>]
NotAsking == [at |-> "rest", q |-> 0, summary |-> NoSummary]

\* The messages of h, those that it only has in a summary included.
Messages(h) ==
    UNION {IF h[i][1] = "summary" THEN h[i][2] ELSE {h[i]} : i \in DOMAIN h}

Existing == {c \in Conversation : rows[c] # Gone}
NextConversation == IF Existing = {} THEN 1 ELSE Max(Existing) + 1
\* create_chat_session, append_chat_message, delete_chat_session: the rows after each.
Created == [rows EXCEPT ![NextConversation] = <<>>]
Appended(c, message) == [rows EXCEPT ![c] = Append(@, message)]
Deleted(c) == [rows EXCEPT ![c] = Gone]
\* load_chat_messages: in the order in which they were appended.
Loaded(c) == rows[c]
\* What the user does while a question is under way.
Moving == moved' = (moved \/ asking.at # "rest")

ChatInit ==
    /\ rows = [c \in Conversation |-> Gone]
    /\ shown = 0
    /\ bubbles = 0
    /\ history = <<>>
    /\ asking = NotAsking
    /\ streaming = FALSE
    /\ questions = 0
    /\ moved = FALSE /\ failed = FALSE

\* _newSession: create_chat_session gives out the next rowid.
NewSession ==
    /\ NextConversation \in Conversation
    /\ rows' = Created
    /\ shown' = NextConversation
    /\ bubbles' = 0 /\ history' = <<>>
    /\ Moving
    /\ UNCHANGED <<asking, streaming, questions, failed>>

\* A plausible fault: the history of the conversation before is kept.
SelectSessionKeepsHistory(c) ==
    /\ c \in Existing
    /\ shown' = c
    /\ bubbles' = Len(Loaded(c))
    /\ Moving
    /\ UNCHANGED <<rows, history, asking, streaming, questions, failed>>

\* _selectSession: load_chat_messages replaces the bubbles and the history.
SelectSession(c) ==
    /\ c \in Existing
    /\ shown' = c
    /\ bubbles' = Len(Loaded(c)) /\ history' = Loaded(c)
    /\ Moving
    /\ UNCHANGED <<rows, asking, streaming, questions, failed>>

\* _deleteSession: the messages go with the row (ON DELETE CASCADE).
DeleteSession(c) ==
    /\ c \in Existing
    /\ rows' = Deleted(c)
    /\ IF shown = c THEN shown' = 0 /\ bubbles' = 0 /\ history' = <<>> /\ Moving
                    ELSE UNCHANGED <<shown, bubbles, history, moved>>
    /\ UNCHANGED <<asking, streaming, questions, failed>>

\* _send: refused while another question is under way.
Send ==
    /\ asking.at = "rest" /\ ~streaming /\ questions < MaxQuestions
    /\ questions' = questions + 1
    /\ asking' = [NotAsking EXCEPT !.at = "serve", !.q = questions + 1]
    /\ UNCHANGED <<rows, shown, bubbles, history, streaming, moved, failed>>

\* _ensureServe has failed: the question is shown, and stored nowhere.
ServeFails ==
    /\ asking.at = "serve"
    /\ bubbles' = bubbles + 2
    /\ asking' = NotAsking
    /\ UNCHANGED <<rows, shown, history, streaming, questions, moved, failed>>

\* The server is ready: a conversation is created if none is shown, and a long
\* history is summarised first (should_compress, split_for_compression).
ServeReady ==
    /\ asking.at = "serve"
    /\ \/ shown # 0 /\ UNCHANGED <<rows, shown>>
       \/ /\ shown = 0 /\ NextConversation \in Conversation
          /\ rows' = Created
          /\ shown' = NextConversation
    /\ \/ asking' = [asking EXCEPT !.at = "ask"]
       \/ /\ Len(history) > KeepMessages
          /\ LET cut == Len(history) - KeepMessages
             IN asking' = [asking EXCEPT !.at = "summary", !.summary =
                             [old |-> SubSeq(history, 1, cut),
                              recent |-> SubSeq(history, cut + 1, Len(history))]]
    /\ UNCHANGED <<bubbles, history, streaming, questions, moved, failed>>

\* chat_summarize has answered: the parts that were taken before the call become
\* the history of the conversation that is shown now.
Summarised ==
    /\ asking.at = "summary"
    /\ history' = << <<"summary", Messages(asking.summary.old)>> >> \o asking.summary.recent
    /\ bubbles' = bubbles + 1
    /\ asking' = [asking EXCEPT !.at = "ask", !.summary = NoSummary]
    /\ UNCHANGED <<rows, shown, streaming, questions, moved, failed>>

SummaryFails ==
    /\ asking.at = "summary"
    /\ asking' = NotAsking
    /\ UNCHANGED <<rows, shown, bubbles, history, streaming, questions, moved, failed>>

\* The bubbles appear and the question is stored; without a conversation the
\* call throws here, and the screen waits for an answer nobody was asked for.
Ask ==
    /\ asking.at = "ask"
    /\ bubbles' = bubbles + 2
    /\ streaming' = TRUE
    /\ IF shown = 0
         THEN rows' = rows /\ asking' = NotAsking
         ELSE /\ rows' = Appended(shown, User(asking.q))
              /\ asking' = [asking EXCEPT !.at = "answer"]
    /\ UNCHANGED <<shown, history, questions, moved, failed>>

\* A plausible fault: the end of the answer leaves the flag.
AnswerDoneWaits ==
    /\ asking.at = "answer"
    /\ asking' = NotAsking
    /\ IF bubbles = 0 THEN UNCHANGED <<rows, history>>
       ELSE /\ history' = history \o <<User(asking.q), Assistant(asking.q)>>
            /\ rows' = IF shown = 0 THEN rows
                       ELSE Appended(shown, Assistant(asking.q))
    /\ UNCHANGED <<shown, bubbles, streaming, questions, moved, failed>>

\* The end of the answer: the last bubble is replaced, which throws when there
\* is none; the answer goes to the conversation that is shown now.
AnswerDone ==
    /\ asking.at = "answer"
    /\ asking' = NotAsking
    /\ IF bubbles = 0 THEN UNCHANGED <<rows, history, streaming>>
       ELSE /\ streaming' = FALSE
            /\ history' = history \o <<User(asking.q), Assistant(asking.q)>>
            /\ rows' = IF shown = 0 THEN rows
                       ELSE Appended(shown, Assistant(asking.q))
    /\ UNCHANGED <<shown, bubbles, questions, moved, failed>>

\* chat_send has failed: its error reaches nobody.  The call of the bridge is not
\* awaited and the stream ends without an event, so that onError never runs and
\* the screen goes on waiting.
AnswerFails ==
    /\ asking.at = "answer"
    /\ asking' = NotAsking
    /\ failed' = TRUE
    /\ UNCHANGED <<rows, shown, bubbles, history, streaming, questions, moved>>

\* The user leaves the screen; the next one starts empty.
Leaves ==
    /\ shown' = 0 /\ bubbles' = 0 /\ history' = <<>>
    /\ asking' = NotAsking /\ streaming' = FALSE /\ failed' = FALSE
    /\ UNCHANGED <<rows, questions, moved>>

\* What follows a question without the user.
ChatStep == ServeFails \/ ServeReady \/ Summarised \/ SummaryFails \/ Ask \/ AnswerDone \/ AnswerFails
ChatNext ==
    \/ ChatStep \/ NewSession \/ Send \/ Leaves
    \/ \E c \in Conversation : SelectSession(c) \/ DeleteSession(c)

ChatSpec == ChatInit /\ [][ChatNext]_chatVars /\ WF_chatVars(ChatStep)
-----------------------------------------------------------------------------
(* Properties. *)

Message == ({"user", "assistant"} \X (1..MaxQuestions))
ChatTypeOK ==
    /\ \A c \in Existing : \A i \in DOMAIN rows[c] : rows[c][i] \in Message
    /\ shown \in Existing \cup {0}
    /\ bubbles \in Nat
    /\ asking.at \in {"rest", "serve", "summary", "ask", "answer"}
    /\ streaming \in BOOLEAN /\ moved \in BOOLEAN /\ failed \in BOOLEAN
    /\ questions \in 0..MaxQuestions

\* Every message of h, summarised or not, is stored in the conversation c.
OfConversation(h, c) == Messages(h) \subseteq Messages(rows[c])

\* What is sent with a question comes from the conversation on the screen, as
\* long as the user never left one during a question: an answer or a summary that
\* comes late is filed under whatever is shown by then.
HistoryIsOwn ==
    ~moved => (IF shown = 0 THEN history = <<>> ELSE OfConversation(history, shown))

\* An answer is stored after its question, in the same conversation, once.
AnswerFollowsQuestion ==
    ~moved => \A c \in Existing : \A i \in DOMAIN rows[c] :
        rows[c][i][1] = "assistant" => i > 1 /\ rows[c][i - 1] = User(rows[c][i][2])

\* An answer is never sent without its question, which stands before it or is in
\* the summary that stands before it.
AnswersKeepQuestions ==
    ~moved => \A i \in DOMAIN history : history[i][1] = "assistant" =>
                  User(history[i][2]) \in Messages(SubSeq(history, 1, i - 1))

\* The screen does not wait for ever, unless the user left the conversation or
\* the answer has failed: nothing tells the screen of that.
WaitingEnds == []<>(streaming => moved \/ failed)

\* Whatever is asked, answered, summarised, deleted or fails meanwhile, a question
\* is sent with its own conversation, and its answer is stored there, behind it.
ConversationsAreOwn ==
    /\ ChatTypeOK
    /\ HistoryIsOwn
    /\ AnswerFollowsQuestion
    /\ AnswersKeepQuestions
=============================================================================
