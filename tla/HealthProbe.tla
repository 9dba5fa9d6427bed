----------------------------- MODULE HealthProbe -----------------------------
(***************************************************************************)
(* run_probe of src/health/checker.rs: one health check, as hedged         *)
(* requests.  The endpoints are asked in order; each has a head start      *)
(* before the next is asked alongside it.  Their tasks answer through a    *)
(* channel in any order; the first success wins.  HealthChecker starts the *)
(* checks and applies what they return.                                    *)
(***************************************************************************)
EXTENDS Naturals, Sequences, FiniteSets

CONSTANT N   \* config.endpoints.len()

ASSUME EndpointsAssumption == N \in Nat

VARIABLES
    pc,        \* the coordinator: "next", "head" (a head start), "drain", "done";
               \* "idle" without a check
    asked,     \* endpoints taken from `queued` so far
    running,   \* endpoints whose task has not answered
    channel,   \* answers not yet received, oldest first
    inFlight,  \* in_flight
    winner,    \* the endpoint that answered, or 0
    failed     \* endpoints whose task ended in an error

probeVars == <<pc, asked, running, channel, inFlight, winner, failed>>

Endpoints == 1..N

ProbeInit ==
    /\ pc = "idle"
    /\ asked = 0 /\ running = {} /\ channel = <<>>
    /\ inFlight = 0 /\ winner = 0 /\ failed = {}

\* The locals of a new check.
Begun ==
    /\ asked' = 0 /\ running' = {} /\ channel' = <<>>
    /\ inFlight' = 0 /\ winner' = 0 /\ failed' = {}

\* run_probe is spawned; and its outcome is taken.
RunProbe == pc = "idle" /\ pc' = "next" /\ Begun
ProbeTaken == pc = "done" /\ pc' = "idle" /\ Begun

\* The next endpoint is asked, and given its head start.
Ask ==
    /\ pc = "next" /\ asked < N
    /\ asked' = asked + 1
    /\ running' = running \cup {asked + 1}
    /\ inFlight' = inFlight + 1
    /\ pc' = "head"
    /\ UNCHANGED <<channel, winner, failed>>

\* probe_endpoint returns: an answer, an error, or its timeout.
Answer(e, ok) ==
    /\ e \in running
    /\ running' = running \ {e}
    /\ channel' = Append(channel, [from |-> e, ok |-> ok])
    /\ failed' = IF ok THEN failed ELSE failed \cup {e}
    /\ UNCHANGED <<pc, asked, inFlight, winner>>

\* HEDGE_DELAY passes without an answer.
HeadStartElapses ==
    /\ pc = "head" /\ channel = <<>>
    /\ pc' = "next"
    /\ UNCHANGED <<asked, running, channel, inFlight, winner, failed>>

\* All endpoints are asked: wait for those in flight, or end without a hit.
AllAsked ==
    /\ pc = "next" /\ asked = N
    /\ pc' = IF inFlight > 0 THEN "drain" ELSE "done"
    /\ UNCHANGED <<asked, running, channel, inFlight, winner, failed>>

\* Mutant of Receive: the first answer decides, whatever it is.
ReceiveAny ==
    /\ pc \in {"head", "drain"} /\ channel # <<>>
    /\ channel' = Tail(channel)
    /\ inFlight' = inFlight - 1
    /\ winner' = IF Head(channel).ok THEN Head(channel).from ELSE 0
    /\ pc' = "done" /\ running' = {}
    /\ UNCHANGED <<asked, failed>>

\* A success ends the check and aborts the other tasks; after an error the next
\* endpoint is asked at once.
Receive ==
    /\ pc \in {"head", "drain"} /\ channel # <<>>
    /\ channel' = Tail(channel)
    /\ inFlight' = inFlight - 1
    /\ IF Head(channel).ok
          THEN winner' = Head(channel).from /\ pc' = "done" /\ running' = {}
          ELSE pc' = "next" /\ UNCHANGED <<winner, running>>
    /\ UNCHANGED <<asked, failed>>

Coordinate == Ask \/ HeadStartElapses \/ AllAsked \/ Receive

Answers(e) == \E ok \in BOOLEAN : Answer(e, ok)

ProbeNext == Coordinate \/ \E e \in Endpoints : Answers(e)

----------------------------------------------------------------------------
(* The type invariant, with the count of requests that run_probe keeps beside
   the tasks and the channel: the loop ends on that count. *)
ProbeTypeOK ==
    /\ pc \in {"idle", "next", "head", "drain", "done"}
    /\ asked \in 0..N
    /\ running \subseteq Endpoints
    /\ channel \in Seq([from : Endpoints, ok : BOOLEAN])
    /\ winner \in 0..N
    /\ failed \subseteq Endpoints
    /\ pc # "done" => inFlight = Cardinality(running) + Len(channel)

\* A check without a hit is one in which every configured endpoint was asked
\* and failed: no answer is dropped by a head start that elapsed, no endpoint
\* is skipped.  One such check already degrades the connection.
MissMeansAllFailed == pc = "done" /\ winner = 0 => failed = Endpoints
=============================================================================
