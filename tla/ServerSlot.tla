----------------------------- MODULE ServerSlot -----------------------------
(***************************************************************************)
(* What a lifecycle handle promises to whoever owns it: a slot that holds  *)
(* at most one model server at a time.  A server runs only while the slot  *)
(* is held by its session, the slot never reports free while a server that *)
(* nobody has condemned is still running, and a slot that has begun to     *)
(* close always becomes free again.  Lifecycle.tla implements it.          *)
(***************************************************************************)
CONSTANTS Session,     \* identities of server sessions (one child process each)
          NoSession    \* "no session"

VARIABLES slot,      \* what the slot is doing
          owner,     \* the session that holds the slot, or NoSession
          running    \* the sessions whose server runs and has not been condemned

slotVars == <<slot, owner, running>>

Phase == {"free", "starting", "serving", "closing"}

SlotInit ==
  /\ slot = "free"
  /\ owner = NoSession
  /\ running = {}

\* A free slot is taken by a new session, and its server starts.
Acquire(s) ==
  /\ slot = "free"
  /\ slot' = "starting"
  /\ owner' = s
  /\ running' = {s}

\* The start fails before there is a server: only the clean-up is left.
AcquireFails ==
  /\ slot = "free"
  /\ slot' = "closing"
  /\ UNCHANGED <<owner, running>>

\* The server has loaded its model.
Serve ==
  /\ slot = "starting"
  /\ slot' = "serving"
  /\ UNCHANGED <<owner, running>>

\* The slot begins to close, whatever the reason, and may condemn its server.
Close ==
  /\ slot \in {"starting", "serving"}
  /\ slot' = "closing"
  /\ running' \subseteq running
  /\ UNCHANGED owner

\* A server stops running: it exits by itself or is condemned.
Wane ==
  /\ running' \subseteq running
  /\ UNCHANGED <<slot, owner>>

\* The slot is free again, and no server of it runs.
Release ==
  /\ slot = "closing"
  /\ slot' = "free"
  /\ owner' = NoSession
  /\ running' = {}

SlotNext ==
  \/ \E s \in Session : Acquire(s)
  \/ AcquireFails
  \/ Serve
  \/ Close
  \/ Wane
  \/ Release

\* Fairness: a slot that closes is released.
SlotSpec == SlotInit /\ [][SlotNext]_slotVars /\ WF_slotVars(Release)

\* The safety part alone.
SlotSafety == SlotInit /\ [][SlotNext]_slotVars
=============================================================================
