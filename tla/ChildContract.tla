---------------------------- MODULE ChildContract ----------------------------
(***************************************************************************)
(* What the Child trait (platform/src/process.rs) promises of a spawned    *)
(* child's exit status, on every backend: a child ends once, in one way;   *)
(* a caller is told that and nothing else, as often as it polls; and the   *)
(* consuming wait hands the status over and ends the handle.               *)
(***************************************************************************)
CONSTANTS
    Handle,     \* the Child values that may be handed out
    Terminal,   \* the ways a process can end
    NoStatus    \* Option::None

VARIABLES
    phase,      \* by handle: "none", "live", "waited" or "dropped"
    outcome,    \* by handle: how the process ended, NoStatus until it does
    told        \* by handle: the terminal status last reported to the caller

vars == <<phase, outcome, told>>

Init ==
    /\ phase = [h \in Handle |-> "none"]
    /\ outcome = [h \in Handle |-> NoStatus]
    /\ told = [h \in Handle |-> NoStatus]

Spawn(h) ==
    /\ phase[h] = "none"
    /\ phase' = [phase EXCEPT ![h] = "live"]
    /\ UNCHANGED <<outcome, told>>

\* The process ends; a dropped handle does not keep it from ending.
Finish(h, s) ==
    /\ phase[h] \in {"live", "dropped"}
    /\ outcome[h] = NoStatus
    /\ outcome' = [outcome EXCEPT ![h] = s]
    /\ UNCHANGED <<phase, told>>

\* try_wait, wait_job or try_wait_job reports the end.
Poll(h) ==
    /\ phase[h] = "live"
    /\ outcome[h] # NoStatus
    /\ told' = [told EXCEPT ![h] = outcome[h]]
    /\ UNCHANGED <<phase, outcome>>

\* wait reports the end and consumes the handle.
Collect(h) ==
    /\ phase[h] = "live"
    /\ outcome[h] # NoStatus
    /\ told' = [told EXCEPT ![h] = outcome[h]]
    /\ phase' = [phase EXCEPT ![h] = "waited"]
    /\ UNCHANGED outcome

Discard(h) ==
    /\ phase[h] = "live"
    /\ phase' = [phase EXCEPT ![h] = "dropped"]
    /\ UNCHANGED <<outcome, told>>

Next == \E h \in Handle :
    \/ Spawn(h) \/ Poll(h) \/ Collect(h) \/ Discard(h)
    \/ \E s \in Terminal : Finish(h, s)

Spec == Init /\ [][Next]_vars
=============================================================================
