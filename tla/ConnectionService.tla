-------------------------- MODULE ConnectionService --------------------------
(***************************************************************************)
(* What a child process promises about the connections it accepts.  Each   *)
(* is served once.  It is cut short only after the order to stop at once.  *)
(* At most one is dropped, by a listener that is told to stop and cannot   *)
(* give back the accept mutex.  A child that stops gracefully stops when   *)
(* nothing it has accepted is left to do, unless a worker has gone that    *)
(* overlooked one: that was woken by nobody, saw no work, and was told     *)
(* that there would be none when there was some again.                     *)
(***************************************************************************)
CONSTANT Conn

VARIABLES
    outcome,    \* of each connection
    stopping,   \* the child is told to stop
    forced,     \* it is told to stop at once
    overlooked, \* a worker has gone that overlooked a connection
    exit        \* the process: "no", "done" or "aborted"

serviceVars == <<outcome, stopping, forced, overlooked, exit>>

Init ==
    /\ outcome = [c \in Conn |-> "new"]
    /\ stopping = FALSE
    /\ forced = FALSE
    /\ overlooked = FALSE
    /\ exit = "no"

Waiting == {c \in Conn : outcome[c] = "accepted"}

Becomes(c, before, after) ==
    /\ outcome[c] = before
    /\ outcome' = [outcome EXCEPT ![c] = after]
    /\ UNCHANGED <<stopping, forced, overlooked, exit>>

Accept(c) == Becomes(c, "new", "accepted")

Serve(c) == Becomes(c, "accepted", "served")

Drop(c) ==
    /\ stopping
    /\ \A d \in Conn : outcome[d] # "dropped"
    /\ Becomes(c, "accepted", "dropped")

Order ==
    /\ stopping' = TRUE
    /\ UNCHANGED <<outcome, forced, overlooked, exit>>

Force ==
    /\ stopping
    /\ forced' = TRUE
    /\ UNCHANGED <<outcome, stopping, overlooked, exit>>

Kill ==
    /\ forced
    /\ \E K \in SUBSET Waiting :
          outcome' = [c \in Conn |-> IF c \in K THEN "killed" ELSE outcome[c]]
    /\ UNCHANGED <<stopping, forced, overlooked, exit>>

Overlook ==
    /\ stopping
    /\ Waiting # {}
    /\ overlooked' = TRUE
    /\ UNCHANGED <<outcome, stopping, forced, exit>>

Stop ==
    /\ stopping
    /\ forced \/ overlooked \/ Waiting = {}
    /\ exit' = "done"
    /\ UNCHANGED <<outcome, stopping, forced, overlooked>>

Abort ==
    /\ exit' = "aborted"
    /\ UNCHANGED <<outcome, stopping, forced, overlooked>>

Next ==
    /\ exit = "no"
    /\ \/ \E c \in Conn : Accept(c) \/ Serve(c) \/ Drop(c)
       \/ Order \/ Force \/ Kill \/ Overlook \/ Stop \/ Abort

Spec == Init /\ [][Next]_serviceVars

=============================================================================
