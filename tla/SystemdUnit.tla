----------------------------- MODULE SystemdUnit -----------------------------
(***************************************************************************)
(* startPodmanSocket, ensureFirewalldRunning and waitForUnixSocket         *)
(* (systemd.go).  A call connects to systemd, asks for a job that starts   *)
(* the unit, and waits for the job's result or for its own deadline; then, *)
(* for podman.socket, it dials the socket until that answers.  Calls come  *)
(* one after the other (applyMu), but a job outlives the call that gave up *)
(* on it, and its result comes late.                                       *)
(*                                                                         *)
(* Every connection has a goroutine of the go-systemd library that hands   *)
(* the result of a job to the channel of the call that asked for it.       *)
(***************************************************************************)
EXTENDS Naturals, Sequences

CONSTANTS
    MaxCalls,   \* bound: calls made
    MaxStops    \* bound: times somebody stops the unit

ASSUME SystemdUnitAssumption == MaxCalls \in Nat /\ MaxStops \in Nat

Call == 1..MaxCalls
Outcome == {"done", "failed"}    \* every other job result is as "failed"

VARIABLES
    active,     \* the unit is active
    job,        \* systemd has a start job for the unit
    n,          \* the number of calls so far, and the latest of them
    at,         \* where it is
    expired,    \* its deadline has passed
    chan,       \* per call, the results in its channel
    waiting,    \* the calls registered for the job's result
    sending,    \* [call -> result] the library's goroutine wants to hand over
    startedAt,  \* history: jobs that were done when the call asked for its own
    jobsDone,   \* history: jobs that were done
    stops

unitVars == <<active, job, n, at, expired, chan, waiting, sending, startedAt, jobsDone, stops>>

NoResult == "nothing"

UnitInit ==
    /\ active \in BOOLEAN
    /\ job = FALSE
    /\ n = 0
    /\ at = "returned"
    /\ expired = FALSE
    /\ chan = [c \in Call |-> <<>>]
    /\ waiting = {}
    /\ sending = [c \in Call |-> NoResult]
    /\ startedAt = 0
    /\ jobsDone = 0
    /\ stops = 0

-----------------------------------------------------------------------------
\* make(chan string, 1), one for every call.
Capacity_Unbuffered == 0
Capacity == 1

Channel_Shared(c) == 1
Channel(c) == c

Running == at \notin {"returned", "ok"}

\* conn.Close (deferred).
Finish(outcome) ==
    /\ at' = outcome
    /\ waiting' = waiting \ {n}

Begin ==
    /\ ~Running
    /\ n < MaxCalls
    /\ n' = n + 1
    /\ at' = "connect"
    /\ expired' = FALSE
    /\ UNCHANGED <<active, job, chan, waiting, sending, startedAt, jobsDone, stops>>

Connect ==
    /\ at = "connect"
    /\ \/ ~expired /\ at' = "start" /\ UNCHANGED waiting
       \/ Finish("returned")
    /\ UNCHANGED <<active, job, n, expired, chan, sending, startedAt, jobsDone, stops>>

\* StartUnitContext: a job of mode "replace", the one still there if there is
\* one; it returns as soon as the job is queued.
StartUnit ==
    /\ at = "start"
    /\ ~expired
    /\ job' = TRUE
    /\ waiting' = waiting \cup {n}
    /\ startedAt' = jobsDone
    /\ at' = "wait"
    /\ UNCHANGED <<active, n, expired, chan, sending, jobsDone, stops>>

StartUnitFails ==
    /\ at = "start"
    /\ Finish("returned")
    /\ UNCHANGED <<active, job, n, expired, chan, sending, startedAt, jobsDone, stops>>

\* waitForUnixSocket has a deadline of its own.
Received(outcome) ==
    IF outcome = "done" THEN at' = "dial" /\ expired' = FALSE
    ELSE at' = "returned" /\ UNCHANGED expired

\* select: the result, or the deadline; either when both are there.
ReceiveResult ==
    /\ at = "wait"
    /\ chan[Channel(n)] # <<>>
    /\ chan' = [chan EXCEPT ![Channel(n)] = Tail(@)]
    /\ Received(Head(chan[Channel(n)]))
    /\ waiting' = waiting \ {n}
    /\ UNCHANGED <<active, job, n, sending, startedAt, jobsDone, stops>>

TimeOut_Never ==
    /\ at = "wait"
    /\ expired
    /\ chan[Channel(n)] # <<>>
    /\ Finish("returned")
    /\ UNCHANGED <<active, job, n, expired, chan, sending, startedAt, jobsDone, stops>>
TimeOut ==
    /\ at = "wait"
    /\ expired
    /\ Finish("returned")
    /\ UNCHANGED <<active, job, n, expired, chan, sending, startedAt, jobsDone, stops>>

\* context.WithTimeout, sixty seconds; once more for the dialling, ten.
Expire ==
    /\ Running
    /\ ~expired
    /\ expired' = TRUE
    /\ UNCHANGED <<active, job, n, at, chan, waiting, sending, startedAt, jobsDone, stops>>

\* waitForUnixSocket: a dial answers when the socket unit listens; a deadline
\* that has passed is seen before the next one.
Dial ==
    /\ at = "dial"
    /\ \/ active /\ at' = "ok"
       \/ expired /\ at' = "returned"
    /\ UNCHANGED <<active, job, n, expired, chan, waiting, sending, startedAt, jobsDone,
                   stops>>

-----------------------------------------------------------------------------
(* systemd and the library's goroutines. *)

JobEnds(outcome) ==
    /\ job
    /\ job' = FALSE
    /\ active' = (outcome = "done" \/ active)
    /\ jobsDone' = jobsDone + (IF outcome = "done" THEN 1 ELSE 0)
    /\ sending' = [c \in Call |-> IF c \in waiting THEN outcome ELSE sending[c]]
    /\ waiting' = {}
    /\ UNCHANGED <<n, at, expired, chan, startedAt, stops>>

\* It holds the library's lock while it sends; nobody need be receiving.
Send(c) ==
    /\ sending[c] # NoResult
    /\ IF Len(chan[Channel(c)]) < Capacity
       THEN /\ chan' = [chan EXCEPT ![Channel(c)] = Append(@, sending[c])]
            /\ UNCHANGED <<at, expired>>
       ELSE /\ Capacity = 0 /\ at = "wait" /\ c = n
            /\ Received(sending[c])
            /\ UNCHANGED chan
    /\ sending' = [sending EXCEPT ![c] = NoResult]
    /\ UNCHANGED <<active, job, n, waiting, startedAt, jobsDone, stops>>

SomebodyStops ==
    /\ active
    /\ stops < MaxStops
    /\ stops' = stops + 1
    /\ active' = FALSE
    /\ UNCHANGED <<job, n, at, expired, chan, waiting, sending, startedAt, jobsDone>>

-----------------------------------------------------------------------------
CallStep == Connect \/ StartUnit \/ StartUnitFails \/ ReceiveResult \/ TimeOut \/ Dial

UnitNext ==
    \/ Begin \/ CallStep \/ Expire
    \/ (\E outcome \in Outcome : JobEnds(outcome)) \/ (\E c \in Call : Send(c))
    \/ SomebodyStops

UnitSpec == UnitInit /\ [][UnitNext]_unitVars

\* Time passes and every goroutine is scheduled; no job needs ever end.
FairUnitSpec ==
    /\ UnitSpec
    /\ WF_unitVars(CallStep) /\ WF_unitVars(Expire)
    /\ \A c \in Call : WF_unitVars(Send(c))

-----------------------------------------------------------------------------
(* Properties. *)

\* A call goes on only after a job that was done after it had asked for one:
\* the late result of a call that gave up is never taken for its own
\* (systemd.go:41-57).
ResultIsOwn == at \in {"dial", "ok"} => jobsDone > startedAt

\* A goroutine of the library that has a result gets rid of it, though the
\* call that asked may have timed out: none is blocked for ever with the
\* connection's lock (systemd.go:41, the channel's buffer).
ResultsAreTaken == \A c \in Call : sending[c] # NoResult ~> sending[c] = NoResult

\* A call returns, even if its job never ends: "block the reconcile (and
\* applyMu) forever" is what the bound is for (systemd.go:12-18, 47-49).
CallsReturn == \A c \in Call : n = c ~> ~Running
=============================================================================
