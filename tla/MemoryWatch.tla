---------------------------- MODULE MemoryWatch ----------------------------
(***************************************************************************)
(* Who watches the memory of a server (monitor.rs, watchdog.rs) and what   *)
(* is kept of it (SampleRecorder): the monitor counts the processes it     *)
(* knows and publishes samples on the bus of the handle, among tokens and  *)
(* log lines; the watchdog and the collector of the run each read the bus  *)
(* at their own pace and lose the oldest events when they fall behind.     *)
(***************************************************************************)
EXTENDS Integers, Sequences, FiniteSets, FiniteSetsExt

CONSTANTS Process,     \* processes of the server's tree
          Root,        \* the one that was spawned
          Footprint,   \* what one of them may use
          Memory,      \* the memory of the machine
          UserLimit,   \* limits a user may ask for
          BusCapacity, \* events a reader may be behind
          MaxEvents    \* bound: events on the bus other than samples

ASSUME MemoryWatchAssumption ==
    /\ IsFiniteSet(Process) /\ Root \in Process /\ Footprint \subseteq Nat \ {0} /\ Memory \in Nat
    /\ UserLimit \subseteq Nat /\ BusCapacity \in Nat \ {0} /\ MaxEvents \in Nat

VARIABLES use,        \* what each process uses, 0 for one that does not exist
          session,    \* of the actor: none, open, killing, over
          hard,       \* WatchdogLimits.hard_bytes
          tree,       \* the processes that the monitor knows
          poller,     \* the task that asks the server for its own figures
          watchdog,   \* none, watching, tripped, done, aborted
          warned,     \* soft_warned
          watchBus,   \* events the watchdog has not read
          runBus,     \* events the collector has not read
          lagged,     \* history: the collector has lost events
          recorder,   \* the peak and the last sample among the rows
          collector,  \* whether the collector reads, or its recorder was taken
          tripped,    \* history: the sample the watchdog acted on
          events      \* other events so far

watchVars == <<use, session, hard, tree, poller, watchdog, warned, watchBus, runBus, lagged,
               recorder, collector, tripped, events>>

None == -1
Alive == {p \in Process : use[p] > 0}
UsedBy(ps) == MapThenSumSet(LAMBDA p : use[p], ps)
Sample(n) == [kind |-> "sample", use |-> n]
Noise == [kind |-> "other", use |-> 0]

\* watchdog_default_hard_bytes: what is used already and 85 hundredths of the rest.
DefaultLimit(used) == used + ((Memory - used) * 85) \div 100

\* compute_limits: the soft limit is nine tenths of the hard one.
Soft == (hard * 9) \div 10

WatchInit ==
    /\ use = [p \in Process |-> 0]
    /\ session = "none" /\ hard = 0 /\ tree = {} /\ poller = "none"
    /\ watchdog = "none" /\ warned = FALSE
    /\ watchBus = <<>> /\ runBus = <<>> /\ lagged = FALSE
    /\ recorder = [peak |-> 0, last |-> None] /\ collector = "reading"
    /\ tripped = None /\ events = 0

\* A receiver of the bus that is full loses its oldest event.
Received(bus, e) == Append(IF Len(bus) = BusCapacity THEN Tail(bus) ELSE bus, e)

\* What is published reaches the watchdog and the collector if they are there.
Publishes(e, restOfWatch) ==
    /\ watchBus' = IF watchdog' = "watching" THEN Received(restOfWatch, e) ELSE <<>>
    /\ runBus' = IF collector = "reading" THEN Received(runBus, e) ELSE runBus
    /\ lagged' = (lagged \/ (collector = "reading" /\ Len(runBus) = BusCapacity))

\* handle_start: the limits are computed, the monitor knows the spawned process, the
\* watchdog reads from here on.
OpensSession ==
    /\ session = "none"
    /\ \/ \E limit \in UserLimit : hard' = limit
       \/ \E used \in 0 .. Memory : hard' = DefaultLimit(used)
    /\ session' = "open"
    /\ \E n \in Footprint : use' = [use EXCEPT ![Root] = n]
    /\ tree' = {Root} /\ poller' = "polling" /\ watchdog' = "watching"
    /\ UNCHANGED <<warned, watchBus, runBus, lagged, recorder, collector, tripped, events>>

\* The server allocates and frees; it may start other processes, which may end.
Uses(p) ==
    /\ session = "open"
    /\ \E n \in IF p = Root THEN Footprint ELSE Footprint \cup {0} :
         n # use[p] /\ use' = [use EXCEPT ![p] = n]
    /\ UNCHANGED <<session, hard, tree, poller, watchdog, warned, watchBus, runBus, lagged,
                   recorder, collector, tripped, events>>

\* A plausible fault: the tree is collected once and never again.
CountedOnce(fresh) == tree

\* spawn_process_monitor: the tree is collected again when it is a second old.
Counted(fresh) == IF fresh THEN Alive ELSE tree

\* A tick of the monitor: the footprints of the processes it knows are added up.
Samples(fresh) ==
    /\ session \in {"open", "killing"}
    /\ tree' = Counted(fresh)
    /\ UNCHANGED watchdog
    /\ Publishes(Sample(UsedBy(tree')), watchBus)
    /\ UNCHANGED <<use, session, hard, poller, warned, recorder, collector, tripped, events>>

\* Tokens, log lines and changes of state go over the same bus.
OtherEvent ==
    /\ session = "open" /\ events < MaxEvents
    /\ events' = events + 1
    /\ UNCHANGED watchdog
    /\ Publishes(Noise, watchBus)
    /\ UNCHANGED <<use, session, hard, tree, poller, warned, recorder, collector, tripped>>

\* spawn_watchdog: an event is read.  At the hard limit the kill is published and the
\* watchdog reads no more; at the soft one it warns once, until a sample is below.
WatchdogReads ==
    /\ watchdog = "watching" /\ watchBus # <<>>
    /\ LET e == Head(watchBus)
           sampled == e.kind = "sample"
           kills == sampled /\ e.use >= hard
           soft == sampled /\ e.use >= Soft
       IN  /\ watchdog' = IF kills THEN "tripped" ELSE "watching"
           /\ tripped' = IF kills THEN e.use ELSE tripped
           /\ warned' = IF sampled /\ ~kills THEN soft ELSE warned
           /\ IF kills \/ (soft /\ ~warned)
                THEN Publishes(Noise, Tail(watchBus))
                ELSE watchBus' = Tail(watchBus) /\ UNCHANGED <<runBus, lagged>>
    /\ UNCHANGED <<use, session, hard, tree, poller, recorder, collector, events>>

\* The Abort is in the actor's channel and handled: the group gets SIGKILL.
WatchdogKills ==
    /\ watchdog = "tripped" /\ session = "open"
    /\ watchdog' = "done" /\ session' = "killing"
    /\ UNCHANGED <<use, hard, tree, poller, warned, watchBus, runBus, lagged, recorder, collector,
                   tripped, events>>

\* enter_cleanup, after a kill, an exit or a stop: monitor and watchdog are aborted,
\* the group is reaped.
EndsSession ==
    /\ session \in {"open", "killing"}
    /\ session' = "over"
    /\ use' = [p \in Process |-> 0] /\ tree' = {}
    /\ watchdog' = IF watchdog = "done" THEN "done" ELSE "aborted"
    /\ watchBus' = <<>>
    /\ UNCHANGED <<hard, poller, warned, runBus, lagged, recorder, collector, tripped, events>>

\* spawn_metrics_poller: it ends when it finds that the monitor is gone.
Polls ==
    /\ poller = "polling"
    /\ poller' = IF session = "over" THEN "ended" ELSE "polling"
    /\ UNCHANGED <<use, session, hard, tree, watchdog, warned, watchBus, runBus, lagged, recorder,
                   collector, tripped, events>>

\* A plausible fault: a sample that makes no row is not looked at.
RecordsRowsOnly(n, due) == IF due THEN [peak |-> Max({recorder.peak, n}), last |-> n] ELSE recorder

\* SampleRecorder::on_sample: every sample counts for the peak; a row is made of the
\* first one and of one that comes half a second after the last row.
Records(n, due) ==
    [peak |-> Max({recorder.peak, n}), last |-> IF due \/ recorder.last = None THEN n ELSE recorder.last]

\* spawn_sample_collector.
CollectorReads(due) ==
    /\ collector = "reading" /\ runBus # <<>>
    /\ runBus' = Tail(runBus)
    /\ recorder' = IF Head(runBus).kind = "sample" THEN Records(Head(runBus).use, due) ELSE recorder
    /\ UNCHANGED <<use, session, hard, tree, poller, watchdog, warned, watchBus, lagged, collector,
                   tripped, events>>

\* take_recorder, in finalize_cycle: the collector is aborted once the handle is idle,
\* whatever it has not read.
TakesRecorder ==
    /\ session = "over" /\ collector = "reading"
    /\ collector' = "taken"
    /\ UNCHANGED <<use, session, hard, tree, poller, watchdog, warned, watchBus, runBus, lagged,
                   recorder, tripped, events>>

WatchNext ==
    \/ OpensSession \/ OtherEvent \/ WatchdogReads \/ WatchdogKills \/ EndsSession \/ Polls \/ TakesRecorder
    \/ \E p \in Process : Uses(p)
    \/ \E yes \in BOOLEAN : Samples(yes) \/ CollectorReads(yes)

WatchSpec == WatchInit /\ [][WatchNext]_watchVars

\* The tasks are polled by the runtime, the ticker ticks and the tree grows old.
WatchFairness ==
    /\ WF_watchVars(WatchdogReads) /\ WF_watchVars(WatchdogKills)
    /\ WF_watchVars(Samples(TRUE))
    /\ WF_watchVars(Polls)

WatchFairSpec == WatchSpec /\ WatchFairness
-----------------------------------------------------------------------------
(* Properties. *)

WatchTypeOK ==
    /\ session \in {"none", "open", "killing", "over"}
    /\ watchdog \in {"none", "watching", "tripped", "done", "aborted"}
    /\ hard \in Nat /\ tree \subseteq Process
    /\ Len(watchBus) <= BusCapacity /\ Len(runBus) <= BusCapacity
    /\ recorder.last <= recorder.peak /\ (recorder.last = None => recorder.peak = 0)
    /\ poller = "ended" => session = "over"

\* A kill by the watchdog can be understood from the run: if the collector has lost no
\* event and has read all it was sent, the recorded peak reaches the limit, although
\* watchdog and collector read apart from each other and most samples make no row.
PeakExplainsKill ==
    tripped # None /\ ~lagged /\ (\A i \in DOMAIN runBus : runBus[i].kind # "sample")
        => recorder.peak >= hard

\* A server does not stay at its limit for ever with the same processes: it is killed
\* or ends, though samples are lost among other events and part of the memory is used
\* by a process that it started later.
NoneStaysOver ==
    \/ []<>(session # "open" \/ UsedBy(Process) < hard)
    \/ []<><<Alive' # Alive>>_watchVars

\* The task that asks the server for its figures does not outlive the session for ever.
PollerEnds == []<>(session = "over" => poller = "ended")

\* What was recorded of a run explains why its server was killed.
KillIsExplained ==
    /\ WatchTypeOK
    /\ PeakExplainsKill
=============================================================================
