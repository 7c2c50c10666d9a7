------------------------------- MODULE WaitAny -------------------------------
(***************************************************************************)
(* Spawner::wait_any: one contract, three implementations.  The portable   *)
(* loop (platform/src/process.rs) scans with try_wait and sleeps; Linux    *)
(* polls pidfds; Windows waits for up to MAXIMUM_WAIT_OBJECTS handles at   *)
(* once and sweeps chunks beyond that.  The native ones fall back to the   *)
(* portable loop for children that are not theirs, or without pidfd_open.  *)
(*                                                                         *)
(* One call is modelled, beside children that end when they like.  Time is *)
(* discrete and passes only while the call is blocked: what the processor  *)
(* needs for the steps in between is not counted.                          *)
(***************************************************************************)
EXTENDS Naturals

CONSTANTS
    N,                     \* bound: children.len()
    Backends,              \* of "portable", "linux" and "windows"
    Timeouts,              \* the timeouts a caller may give
    TICK,                  \* how long the loops sleep
    MILLI,                 \* a millisecond, in units of the clock
    Cap,                   \* the longest wait one system call can be given
    MAXIMUM_WAIT_OBJECTS,  \* the most handles one system call can be given
    MaxTime                \* bound: the clock

ASSUME ChildAssumption == N \in Nat \ {0}
ASSUME TimeAssumption ==
    /\ MaxTime \in Nat /\ Timeouts \subseteq 0..MaxTime /\ Cap \in Nat
    /\ {TICK, MILLI} \subseteq Nat \ {0} /\ MAXIMUM_WAIT_OBJECTS \in Nat \ {0}
ASSUME LoopAssumption ==
    Backends \subseteq {"portable", "linux", "windows"}

VARIABLES
    backend,   \* the one that is called
    len,       \* children.len()
    foreign,   \* the children that are not the backend's own
    timeout,   \* how long to wait from the call, which is at time 0; Never: None
    ended,     \* the children that have terminated
    stash,     \* those whose status has been collected
    now,       \* the clock
    firstEnd,  \* when the first child was seen to have ended (history)
    stage,     \* the step of the call
    idx,       \* the child, or the first child of the chunk, it is at
    start,     \* Instant::now() at the start of the loop
    wake,      \* when the system call it is blocked in is over
    answer     \* 0: none; otherwise the child

waitvars == <<backend, len, foreign, timeout, ended, stash, now, firstEnd, stage, idx, start,
              wake, answer>>
outside == <<backend, len, foreign, timeout, ended, now, firstEnd>>

Child == 1..len
Never == MaxTime + 1
Bounded == timeout # Never
Lesser(a, b) == IF a < b THEN a ELSE b

\* as_millis: what a system call is given for t, in whole milliseconds.
Granted(t) == Lesser(t - (t % MILLI), Cap)

-----------------------------------------------------------------------------
(* Returning                                                               *)

\* Ok(Some(c)): c's status is collected and kept.
Some(c) == stage' = "some" /\ answer' = c /\ stash' = stash \cup {c}

Finish(p) == stage' = p /\ UNCHANGED <<answer, stash>>

-----------------------------------------------------------------------------
(* The portable loop                                                       *)

\* The loop starts, with its own clock.
Portable == /\ stage' = "scan" /\ idx' = 1 /\ start' = now
            /\ UNCHANGED <<answer, stash, wake>>

\* try_wait of one child after the other.
Scan ==
    /\ stage = "scan" /\ idx \in Child
    /\ IF idx \in ended THEN Some(idx) /\ UNCHANGED idx
                        ELSE idx' = idx + 1 /\ UNCHANGED <<stage, stash, answer>>
    /\ UNCHANGED <<start, wake>> /\ UNCHANGED outside

\* Nobody has: time out, or sleep for a tick or what is left.
Scanned ==
    /\ stage = "scan" /\ idx \notin Child
    /\ IF Bounded /\ now - start >= timeout
       THEN Finish("none") /\ UNCHANGED wake
       ELSE /\ Finish("sleep")
            /\ wake' = now + (IF Bounded THEN Lesser(TICK, timeout - (now - start))
                                         ELSE TICK)
    /\ UNCHANGED <<idx, start>> /\ UNCHANGED outside

Wakes ==
    /\ stage = "sleep" /\ now >= wake
    /\ stage' = "scan"
    /\ idx' = 1
    /\ UNCHANGED <<stash, start, wake, answer>> /\ UNCHANGED outside

-----------------------------------------------------------------------------
(* The native implementations: first the fast pass                         *)

\* A fast pass that only looks whose children they are.
FastBlind ==
    /\ stage = "fast" /\ idx \in Child
    /\ IF idx \in foreign THEN Portable
       ELSE idx' = idx + 1 /\ UNCHANGED <<stage, stash, answer, start, wake>>
    /\ UNCHANGED outside

Fast ==
    /\ stage = "fast" /\ idx \in Child
    /\ IF idx \in ended THEN Some(idx) /\ UNCHANGED <<idx, start, wake>>
       ELSE IF idx \in foreign THEN Portable
       ELSE idx' = idx + 1 /\ UNCHANGED <<stage, stash, answer, start, wake>>
    /\ UNCHANGED outside

\* pidfd_open of every child, or the fallback where the kernel lacks it.
OpenPidfds ==
    /\ stage = "fast" /\ idx \notin Child /\ backend = "linux"
    /\ \/ Finish("poll") /\ start' = now /\ UNCHANGED <<idx, wake>>
       \/ Portable
    /\ UNCHANGED outside

\* The whole timeout again after every signal.
PollAfresh ==
    /\ stage = "poll"
    /\ Finish("polling")
    /\ wake' = IF Bounded THEN now + Granted(timeout) ELSE Never
    /\ UNCHANGED <<idx, start>> /\ UNCHANGED outside

\* poll is given what is left until the deadline, as far as it fits.
Poll ==
    /\ stage = "poll"
    /\ Finish("polling")
    /\ wake' = IF ~Bounded THEN Never
               ELSE IF now >= start + timeout THEN now
               ELSE now + Granted(start + timeout - now)
    /\ UNCHANGED <<idx, start>> /\ UNCHANGED outside

\* EINTR taken for a timeout.
InterruptedNone ==
    /\ stage = "polling" /\ backend = "linux"
    /\ now < wake
    /\ Finish("none")
    /\ UNCHANGED <<idx, start, wake>> /\ UNCHANGED outside

\* EINTR: round again.
Interrupted ==
    /\ stage = "polling" /\ backend = "linux"
    /\ now < wake
    /\ Finish("poll")
    /\ UNCHANGED <<idx, start, wake>> /\ UNCHANGED outside

\* Windows: one wait, or a sweep when there are too many.
wait_many ==
    /\ stage = "fast" /\ idx \notin Child /\ backend = "windows"
    /\ IF len <= MAXIMUM_WAIT_OBJECTS
       THEN /\ Finish("polling")
            /\ wake' = IF Bounded THEN now + Granted(timeout) ELSE Never
            /\ UNCHANGED <<idx, start>>
       ELSE Finish("sweep") /\ idx' = 1 /\ start' = now /\ UNCHANGED wake
    /\ UNCHANGED outside

\* The system call names the first child that has ended.
Hit ==
    /\ stage = "polling"
    /\ \E c \in ended : (\A d \in ended : c <= d) /\ Some(c)
    /\ UNCHANGED <<idx, start, wake>> /\ UNCHANGED outside

TimesOut ==
    /\ stage = "polling"
    /\ ended = {} /\ now >= wake
    /\ Finish("none")
    /\ UNCHANGED <<idx, start, wake>> /\ UNCHANGED outside

\* The chunk that starts at child j.
chunk(j) == {c \in Child : j <= c /\ c < j + MAXIMUM_WAIT_OBJECTS}

\* The index within the chunk, without the chunk's own.
SweepWithin ==
    /\ stage = "sweep" /\ idx \in Child
    /\ IF chunk(idx) \cap ended # {}
       THEN /\ \E c \in chunk(idx) \cap ended :
                  (\A d \in chunk(idx) \cap ended : c <= d) /\ Some(1 + c - idx)
            /\ UNCHANGED idx
       ELSE idx' = idx + MAXIMUM_WAIT_OBJECTS /\ UNCHANGED <<stage, stash, answer>>
    /\ UNCHANGED <<start, wake>> /\ UNCHANGED outside

\* One wait with timeout zero for each chunk.
Sweep ==
    /\ stage = "sweep" /\ idx \in Child
    /\ IF chunk(idx) \cap ended # {}
       THEN /\ \E c \in chunk(idx) \cap ended :
                  (\A d \in chunk(idx) \cap ended : c <= d) /\ Some(c)
            /\ UNCHANGED idx
       ELSE idx' = idx + MAXIMUM_WAIT_OBJECTS /\ UNCHANGED <<stage, stash, answer>>
    /\ UNCHANGED <<start, wake>> /\ UNCHANGED outside

Swept ==
    /\ stage = "sweep" /\ idx \notin Child
    /\ IF Bounded /\ now >= start + timeout
       THEN Finish("none") /\ UNCHANGED wake
       ELSE Finish("rest") /\ wake' = now + TICK
    /\ UNCHANGED <<idx, start>> /\ UNCHANGED outside

SweepsAgain ==
    /\ stage = "rest" /\ now >= wake
    /\ stage' = "sweep"
    /\ idx' = 1
    /\ UNCHANGED <<stash, start, wake, answer>> /\ UNCHANGED outside

\* try_wait, pidfd_open or the wait itself fails.
Fails ==
    /\ stage \in {"scan", "fast", "poll", "polling", "sweep"}
    /\ Finish("err")
    /\ UNCHANGED <<idx, start, wake>> /\ UNCHANGED outside

-----------------------------------------------------------------------------
(* Children and time                                                       *)

Ends(c) ==
    /\ c \notin ended
    /\ ended' = ended \cup {c}
    /\ firstEnd' = IF ended = {} THEN now ELSE firstEnd
    /\ UNCHANGED <<backend, len, foreign, timeout, stash, now, stage, idx, start, wake,
                   answer>>

Blocked == \/ stage \in {"sleep", "rest"} /\ now < wake
           \/ stage = "polling" /\ now < wake /\ ended = {}

TimePasses ==
    /\ Blocked /\ now < MaxTime
    /\ now' = now + 1
    /\ UNCHANGED <<backend, len, foreign, timeout, ended, stash, firstEnd, stage, idx,
                   start, wake, answer>>

-----------------------------------------------------------------------------
\* Some children may have ended, and been asked, before the call.
WaitInit ==
    /\ backend \in Backends
    /\ len \in 1..N
    /\ foreign \in IF backend = "portable" THEN {Child} ELSE SUBSET Child
    /\ timeout \in Timeouts \cup {Never}
    /\ ended \in SUBSET Child
    /\ stash \in SUBSET ended
    /\ now = 0 /\ firstEnd = 0
    /\ stage = IF backend = "portable" THEN "scan" ELSE "fast"
    /\ idx = 1
    /\ start = 0 /\ wake = 0
    /\ answer = 0

WaitNext == \/ Scan \/ Scanned \/ Wakes \/ Fast \/ OpenPidfds \/ Poll \/ Interrupted
            \/ wait_many \/ Hit \/ TimesOut \/ Sweep \/ Swept \/ SweepsAgain
            \/ Fails \/ TimePasses \/ \E c \in Child : Ends(c)

WaitSpec == WaitInit /\ [][WaitNext]_waitvars

-----------------------------------------------------------------------------
(* Properties                                                              *)

\* Every variable has its type.
WaitTypeOK ==
    /\ backend \in Backends
    /\ len \in 1..N
    /\ foreign \subseteq Child /\ timeout \in 0..Never
    /\ ended \subseteq Child /\ stash \subseteq Child
    /\ now \in 0..MaxTime /\ firstEnd \in 0..MaxTime
    /\ stage \in {"fast", "scan", "sleep", "poll", "polling", "sweep", "rest",
                  "some", "none", "err"}
    /\ idx \in 1..(len + MAXIMUM_WAIT_OBJECTS)
    /\ start \in Nat /\ wake \in Nat
    /\ answer \in 0..len

\* Some(index) "of a terminated child — retrieve the status via that
\* child's try_wait/wait": it has ended and its status is there.
SomeIsRetrievable == stage = "some" => answer \in ended \cap stash

\* "None on timeout", and only then: to the millisecond, which is all that
\* the system calls are told.
NoneIsTimeout == stage = "none" => Bounded /\ timeout < now + MILLI

\* The pids handed to pidfd_open belong to children that nobody reaped yet:
\* a reaped child's pid may be someone else's.
PolledAreOurs == stage \in {"poll", "polling"} => stash = {}

\* The call outlasts neither a child's end nor the timeout by more than one
\* tick, however often it is interrupted.
Prompt ==
    stage \notin {"some", "none", "err"} =>
        /\ ended # {} => now <= firstEnd + TICK
        /\ Bounded => now <= timeout + TICK
=============================================================================
