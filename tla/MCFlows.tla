------------------------------- MODULE MCFlows -------------------------------
(* Instances of the modules that have liveness properties and share no state, *)
(* for one run of TLC: in every behaviour one of them moves, the others rest  *)
(* in their initial states.                                                   *)
EXTENDS StoreSchema, Conversations, ChatStream, BenchPlan, Setup, ChildOutput,
        Cli, CliServe, LimitSearch, Download, MemoryWatch, TLC

VARIABLE part     \* the module that moves

MCContexts == 0 .. 8
MCExtraOf == [b \in Backend |-> IF b = "mlx-vlm" THEN "vlm" ELSE "cpu"]

Part == {"schema", "chat", "stream", "plan", "setup", "output", "cli", "serve", "limit", "download", "watch"}
\* The other modules rest.
Alone(p) == part = p /\ part' = p

FlowsInit ==
    /\ part \in Part
    /\ SetupInit /\ (part # "setup" => app = [bundled |-> TRUE, version |-> 1, told |-> TRUE] /\ disk.uv)
    /\ CliInit /\ (part # "cli" => command.name = "run")
    /\ CliServeInit /\ (part # "serve" => cli.cmd = "serve")
    /\ Init /\ (part # "limit" => opts = [min |-> 0, max |-> 0, granularity |-> 0, fits |-> 0])
    /\ SchemaInit /\ ChatInit /\ StreamInit /\ PlanInit /\ ChildInit /\ DownloadInit /\ WatchInit

FlowsNext ==
    \/ /\ Alone("schema") /\ SchemaNext
       /\ UNCHANGED <<chatVars, streamVars, planVars, setupVars, childVars, cliVars, cliServeVars, vars, downloadVars, watchVars>>
    \/ /\ Alone("chat") /\ ChatNext
       /\ UNCHANGED <<schemaVars, streamVars, planVars, setupVars, childVars, cliVars, cliServeVars, vars, downloadVars, watchVars>>
    \/ /\ Alone("stream") /\ StreamNext
       /\ UNCHANGED <<schemaVars, chatVars, planVars, setupVars, childVars, cliVars, cliServeVars, vars, downloadVars, watchVars>>
    \/ /\ Alone("plan") /\ PlanNext
       /\ UNCHANGED <<schemaVars, chatVars, streamVars, setupVars, childVars, cliVars, cliServeVars, vars, downloadVars, watchVars>>
    \/ /\ Alone("setup") /\ SetupNext
       /\ UNCHANGED <<schemaVars, chatVars, streamVars, planVars, childVars, cliVars, cliServeVars, vars, downloadVars, watchVars>>
    \/ /\ Alone("output") /\ ChildNext
       /\ UNCHANGED <<schemaVars, chatVars, streamVars, planVars, setupVars, cliVars, cliServeVars, vars, downloadVars, watchVars>>
    \/ /\ Alone("cli") /\ CliNext
       /\ UNCHANGED <<schemaVars, chatVars, streamVars, planVars, setupVars, childVars, cliServeVars, vars, downloadVars, watchVars>>
    \/ /\ Alone("serve") /\ CliServeNext
       /\ UNCHANGED <<schemaVars, chatVars, streamVars, planVars, setupVars, childVars, cliVars, vars, downloadVars, watchVars>>
    \/ /\ Alone("limit") /\ Next
       /\ UNCHANGED <<schemaVars, chatVars, streamVars, planVars, setupVars, childVars, cliVars, cliServeVars, downloadVars, watchVars>>
    \/ /\ Alone("download") /\ DownloadNext
       /\ UNCHANGED <<schemaVars, chatVars, streamVars, planVars, setupVars, childVars, cliVars, cliServeVars, vars, watchVars>>
    \/ /\ Alone("watch") /\ WatchNext
       /\ UNCHANGED <<schemaVars, chatVars, streamVars, planVars, setupVars, childVars, cliVars, cliServeVars, vars, downloadVars>>

\* The fairness of each module's own specification, for the one that moves.
FlowsFairness ==
    /\ \A p \in Opener : WF_schemaVars(part = "schema" /\ SchemaStep(p))
    /\ WF_chatVars(part = "chat" /\ ChatStep)
    /\ WF_streamVars(part = "stream" /\ StreamStep) /\ WF_streamVars(part = "stream" /\ TimesOut)
    /\ WF_planVars(part = "plan" /\ PlanStep)
    /\ \A s \in Screen : WF_setupVars(part = "setup" /\ SetupStep(s))
    /\ WF_childVars(part = "output" /\ ChildStep)
    /\ WF_cliVars(part = "cli" /\ CliStep)
    /\ WF_cliServeVars(part = "serve" /\ SeesState)
    /\ WF_cliServeVars(part = "serve" /\ (HearsEvent \/ HearsLoss))
    /\ WF_cliServeVars(part = "serve" /\ (SendsStart \/ SeesIdle \/ SeesReady \/ SeesPort \/ Answers))
    /\ WF_cliServeVars(part = "serve" /\ cli.at # "over" /\ ActorStep)
    /\ WF_vars(part = "limit" /\ (Chooses \/ Ends))
    /\ WF_watchVars(part = "watch" /\ WatchdogReads)
    /\ WF_watchVars(part = "watch" /\ WatchdogKills)
    /\ WF_watchVars(part = "watch" /\ Samples(TRUE))
    /\ WF_watchVars(part = "watch" /\ Polls)
    /\ \A c \in Call :
         /\ WF_downloadVars(part = "download" /\ (CheckFails(c) \/ Spawns(c)))
         /\ WF_downloadVars(part = "download" /\ Registers(c))
         /\ WF_downloadVars(part = "download" /\ TaskRuns(c))

FlowsVars == <<part, schemaVars, chatVars, streamVars, planVars, setupVars, childVars, cliVars,
               cliServeVars, vars, downloadVars, watchVars>>
FlowsSpec == FlowsInit /\ [][FlowsNext]_FlowsVars /\ FlowsFairness

\* Nothing waits for ever, in any of the modules: a store opens again after a kill, a
\* question is answered or fails, its text catches up, every setup, output, chat and
\* poller that has begun comes to its end, and so does every plan, search and command
\* whose runs do.
EverythingEnds ==
    /\ ReopenSucceeds
    /\ WaitingEnds
    /\ TextCatchesUp
    /\ AnswerEnds
    /\ PlanFinishes
    /\ SetupEnds
    /\ OutputEnds
    /\ CommandEnds
    /\ ServeFollowsServer
    /\ ChatEnds
    /\ EveryProbeNarrows
    /\ SearchEnds
    /\ PollerEnds
=============================================================================
