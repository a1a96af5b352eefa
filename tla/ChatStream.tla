----------------------------- MODULE ChatStream -----------------------------
(***************************************************************************)
(* One streamed answer (client.rs, stream_chat_completion_messages;        *)
(* chat_send of the bridge; the handler of chat_screen.dart).  The client  *)
(* reads the lines of the model server and broadcasts each token; a task   *)
(* that chat_send has spawned forwards them to the sink of the screen; the *)
(* end of an answer that is complete is added to that sink by chat_send    *)
(* itself; the error of one that is not reaches nobody.  The counts of     *)
(* tokens that the client reports are left out: nothing here reads them.   *)
(***************************************************************************)
EXTENDS Naturals, Sequences, SequencesExt

CONSTANTS Answer,      \* the tokens the model would produce, as a number
          Capacity     \* tokens the broadcast channel holds for a receiver

ASSUME StreamAssumption == Answer \in Nat /\ Capacity \in Nat \ {0}

VARIABLES produced,    \* tokens the model server has sent so far
          wire,        \* lines under way from the server to the client
          client,      \* the client: where it is, the tokens it has read, how it ended
          channel,     \* tokens the forwarding task has not received yet
          listening,   \* the forwarding task is there
          sink,        \* events under way to the screen
          text,        \* the tokens in the buffer of the screen
          answer,      \* the answer of the screen: none, or stored with its text
          foreign      \* history: another request has used the same channel

streamVars == <<produced, wire, client, channel, listening, sink, text, answer, foreign>>

Token(i) == <<"token", i>>
IsToken(e) == e[1] = "token"
Other == 0   \* a token of another request
NoAnswer == [at |-> "none", text |-> <<>>]

StreamInit ==
    /\ produced = 0
    /\ wire = <<>>
    /\ client = [at |-> "idle", read |-> <<>>]
    /\ channel = <<>>
    /\ listening = FALSE
    /\ sink = <<>>
    /\ text = <<>>
    /\ answer = NoAnswer
    /\ foreign = FALSE

\* chat_send subscribes the forwarding task before the request is posted.
Starts ==
    /\ client.at = "idle"
    /\ client' = [client EXCEPT !.at = "posting"]
    /\ listening' = TRUE
    /\ UNCHANGED <<produced, wire, channel, sink, text, answer, foreign>>

\* The server accepts the request, or refuses it (503, not ready, not there).
Accepted ==
    /\ client.at = "posting"
    /\ client' = [client EXCEPT !.at = "reading"]
    /\ UNCHANGED <<produced, wire, channel, listening, sink, text, answer, foreign>>
Refused ==
    /\ client.at = "posting"
    /\ client' = [client EXCEPT !.at = "failed"]
    /\ UNCHANGED <<produced, wire, channel, listening, sink, text, answer, foreign>>

\* The model server: a token, [DONE], the end of the stream at any time (it was
\* killed, or has crashed), or a line that is no chunk.
Produces ==
    /\ client.at = "reading" /\ \A i \in DOMAIN wire : IsToken(wire[i])
    /\ \/ produced < Answer /\ produced' = produced + 1 /\ wire' = Append(wire, Token(produced + 1))
       \/ /\ \/ produced = Answer /\ wire' = Append(wire, <<"[DONE]">>)
             \/ wire' = Append(wire, <<"closed">>)
             \/ wire' = Append(wire, <<"broken">>)
          /\ produced' = produced
    /\ UNCHANGED <<client, channel, listening, sink, text, answer, foreign>>

\* tokio's broadcast: a receiver that is behind by more than Capacity gets an
\* error instead of the oldest tokens.
Broadcast(t) == channel' = IF listening THEN Append(channel, t) ELSE channel

ReadsToken ==
    /\ client.at = "reading" /\ wire # <<>> /\ IsToken(Head(wire))
    /\ client' = [client EXCEPT !.read = Append(@, Head(wire)[2])]
    /\ Broadcast(Head(wire)[2])
    /\ wire' = Tail(wire)
    /\ UNCHANGED <<produced, listening, sink, text, answer, foreign>>

\* [DONE] and the end of the stream both complete the answer, if it has a token.
ReadsEnd ==
    /\ client.at = "reading" /\ wire # <<>> /\ ~IsToken(Head(wire))
    /\ client' = [client EXCEPT !.at =
                    IF Head(wire) = <<"broken">> \/ client.read = <<>> THEN "failed" ELSE "complete"]
    /\ wire' = Tail(wire)
    /\ UNCHANGED <<produced, channel, listening, sink, text, answer, foreign>>

\* The 300 s of the request are over.
TimesOut ==
    /\ client.at \in {"posting", "reading"}
    /\ client' = [client EXCEPT !.at = "failed"]
    /\ UNCHANGED <<produced, wire, channel, listening, sink, text, answer, foreign>>

\* A request of another screen on the same server.
OtherToken ==
    /\ ~foreign /\ listening
    /\ Broadcast(Other)
    /\ foreign' = TRUE
    /\ UNCHANGED <<produced, wire, client, listening, sink, text, answer>>

\* A plausible fault: a forwarding task that has lagged goes on with what is left.
ForwardsOn ==
    /\ listening /\ channel # <<>>
    /\ IF Len(channel) > Capacity
         THEN channel' = SubSeq(channel, Len(channel) - Capacity + 1, Len(channel)) /\ UNCHANGED <<listening, sink>>
         ELSE sink' = Append(sink, Token(Head(channel))) /\ channel' = Tail(channel) /\ UNCHANGED listening
    /\ UNCHANGED <<produced, wire, client, text, answer, foreign>>

\* `while let Ok(ev) = rx.recv().await`: a task that has lagged ends.
Forwards ==
    /\ listening /\ channel # <<>>
    /\ IF Len(channel) > Capacity
         THEN listening' = FALSE /\ channel' = <<>> /\ UNCHANGED sink
         ELSE sink' = Append(sink, Token(Head(channel))) /\ channel' = Tail(channel) /\ UNCHANGED listening
    /\ UNCHANGED <<produced, wire, client, text, answer, foreign>>

\* chat_send returns: the end of a complete answer goes to the sink.  An error is
\* only returned, to a call that the screen does not wait for.
Returns ==
    /\ client.at = "complete"
    /\ client' = [client EXCEPT !.at = "over"]
    /\ sink' = Append(sink, <<"done">>)
    /\ UNCHANGED <<produced, wire, channel, listening, text, answer, foreign>>

\* The screen handles one event after another, also those that come late.
Handles ==
    /\ sink # <<>>
    /\ sink' = Tail(sink)
    /\ IF IsToken(Head(sink))
         THEN text' = Append(text, Head(sink)[2]) /\ UNCHANGED answer
         ELSE answer' = [at |-> "stored", text |-> text] /\ UNCHANGED text
    /\ UNCHANGED <<produced, wire, client, channel, listening, foreign>>

StreamStep ==
    \/ Accepted \/ Refused \/ ReadsToken \/ ReadsEnd \/ Forwards \/ Returns \/ Handles
StreamNext == StreamStep \/ Starts \/ Produces \/ OtherToken \/ TimesOut

StreamSpec == StreamInit /\ [][StreamNext]_streamVars /\ WF_streamVars(StreamStep) /\ WF_streamVars(TimesOut)
-----------------------------------------------------------------------------
(* Properties. *)

StreamTypeOK ==
    /\ produced \in 0..Answer
    /\ client.at \in {"idle", "posting", "reading", "complete", "failed", "over"}
    /\ ToSet(client.read) \subseteq 1..Answer
    /\ ToSet(channel) \subseteq 0..Answer
    /\ listening \in BOOLEAN /\ foreign \in BOOLEAN
    /\ answer.at \in {"none", "stored"}

\* However the three tasks interleave and whatever is lost, an answer that is
\* stored is the beginning of what the client has read: no token is missing in its
\* middle and none is in another place, unless another request shared the channel.
StoredIsPrefix ==
    ~foreign => /\ Len(answer.text) <= Len(client.read)
                /\ \A i \in DOMAIN answer.text : answer.text[i] = i

\* A completed answer of which nothing was dropped on the way is there in the end:
\* the buffer of the screen catches up with what the client has read.
TextCatchesUp ==
    (client.at = "over" /\ listening /\ Len(channel) <= Capacity /\ ~foreign)
        ~> (text = client.read \/ foreign)

\* Only an answer with a token is stored: the end may have overtaken all of them,
\* but a request that yields none, is refused or breaks off stores nothing.
OnlyCompleteIsStored == answer.at = "stored" => client.read # <<>> /\ client.at = "over"

\* Every question ends: its answer is stored, or it has failed, of which the
\* screen hears nothing.
AnswerEnds == []<>(client.at # "idle" => answer.at = "stored" \/ client.at = "failed")

\* What is stored of an answer is a beginning of what the client has read, and of an
\* answer that came to its end.
AnswerIsTrue ==
    /\ StreamTypeOK
    /\ StoredIsPrefix
    /\ OnlyCompleteIsStored
=============================================================================
