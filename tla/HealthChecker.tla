---------------------------- MODULE HealthChecker ----------------------------
(***************************************************************************)
(* HealthChecker of src/health/checker.rs between the event loop, which    *)
(* starts detached probes and applies their outcomes, and the events that  *)
(* reset or suspend it.  The state machine is reduced to the three kinds   *)
(* the checker tells apart; `conn` numbers the connections, so that a      *)
(* probe can outlive the one it was sent through.  The probe in flight is  *)
(* the check of HealthProbe, request by request.                           *)
(***************************************************************************)
EXTENDS HealthProbe, Integers

CONSTANTS
    FailureThreshold,    \* config.failure_threshold
    DegradedThreshold,   \* config.degraded_threshold
    MaxConns,            \* bound: connections made
    CountCap             \* bound: where the two counters saturate

ASSUME HealthAssumption ==
    /\ {FailureThreshold, DegradedThreshold, MaxConns, CountCap} \subseteq Nat \ {0}
    /\ FailureThreshold <= CountCap /\ DegradedThreshold <= CountCap

VARIABLES
    kind,      \* "Connected", "Degraded" or "off"
    conn,      \* the current or last connection
    checker,   \* the struct: the two counters, and whether checks are suspended
    probe,     \* the connection the probe in flight was sent through, or 0
    last,      \* the outcome and the verdict of the probe applied last
    misses     \* probes that failed in a row up to and including the last one

checkerVars == <<kind, conn, checker, probe, last, misses>>
vars == <<checkerVars, probeVars>>

Kinds == {"Connected", "Degraded", "off"}

\* What a probe brings back: a quick answer, a slow one, an answer that shows
\* another exit address, one while resolv.conf names a public resolver, none.
Outcomes == {"ok", "slow", "ipleak", "dnsleak", "miss"}
Shown == IF winner = 0 THEN {"miss"} ELSE Outcomes \ {"miss"}
Verdicts == {"Healthy", "Degraded", "Dead"}

Fresh == [fails |-> 0, slow |-> 0, suspended |-> FALSE]

----------------------------------------------------------------------------
(* evaluate: the counters after an outcome, and the verdict *)

\* The counters are only compared with their thresholds.
Bump(n) == IF n < CountCap THEN n + 1 ELSE n

\* Mutant of Counted: an answer clears the failures only if it is quick.
CountedStrict(c, o) ==
    CASE o = "miss" -> [c EXCEPT !.fails = Bump(@), !.slow = Bump(@)]
      [] o = "slow" -> [c EXCEPT !.slow = Bump(@)]
      [] o = "ok" -> [c EXCEPT !.fails = 0, !.slow = 0]
      [] OTHER -> c

Counted(c, o) ==
    CASE o = "miss" -> [c EXCEPT !.fails = Bump(@), !.slow = Bump(@)]
      [] o = "slow" -> [c EXCEPT !.fails = 0, !.slow = Bump(@)]
      [] o = "ok" -> [c EXCEPT !.fails = 0, !.slow = 0]
      [] OTHER -> [c EXCEPT !.fails = 0]

\* Mutant of Verdict: failures below the threshold are not reported.
VerdictLenient(c, o) ==
    CASE o = "miss" -> IF c.fails >= FailureThreshold THEN "Dead" ELSE "Healthy"
      [] o = "ipleak" -> "Dead"
      [] o = "dnsleak" -> "Degraded"
      [] o = "slow" -> IF c.slow >= DegradedThreshold THEN "Degraded" ELSE "Healthy"
      [] OTHER -> "Healthy"

\* c is the checker after Counted.
Verdict(c, o) ==
    CASE o = "miss" -> IF c.fails >= FailureThreshold THEN "Dead" ELSE "Degraded"
      [] o = "ipleak" -> "Dead"
      [] o = "dnsleak" -> "Degraded"
      [] o = "slow" -> IF c.slow >= DegradedThreshold THEN "Degraded" ELSE "Healthy"
      [] OTHER -> "Healthy"

----------------------------------------------------------------------------
(* The event loop *)

\* Health tick: a probe starts unless one is in flight or checks are suspended.
Tick ==
    /\ kind # "off" /\ ~checker.suspended /\ probe = 0
    /\ probe' = conn /\ RunProbe
    /\ UNCHANGED <<kind, conn, checker, last, misses>>

\* The probe returns to a state machine that has no connection any more.
Discard ==
    /\ probe # 0 /\ kind = "off"
    /\ probe' = 0 /\ ProbeTaken
    /\ UNCHANGED <<kind, conn, checker, last, misses>>

\* The three arms of finish_health_check, on the counters c: the machine is told
\* only of a change, and every dispatch that ends in Connected resets the checker.
Healthy(c) ==
    /\ kind' = "Connected"
    /\ checker' = IF kind = "Degraded" THEN Fresh ELSE c

Degrade(c) == kind' = "Degraded" /\ checker' = c

\* The connection is given up (auto-reconnect off, or NetworkManager lost it
\* too), or kept, when attempt_reconnect finds it active.  HealthDead does not
\* move a Connected machine, so its dispatch resets the checker.
Dead(c) ==
    \/ kind' = "off" /\ checker' = c
    \/ kind' = "off" /\ kind = "Connected" /\ checker' = Fresh
    \/ kind' = "Connected" /\ checker' = Fresh

\* finish_health_check with a connection to judge.
Apply(o) ==
    LET c == Counted(checker, o)
        v == Verdict(c, o)
    IN  /\ probe # 0 /\ kind # "off"
        /\ \/ v = "Healthy" /\ Healthy(c)
           \/ v = "Degraded" /\ Degrade(c)
           \/ v = "Dead" /\ Dead(c)
        /\ last' = [outcome |-> o, verdict |-> v, own |-> probe = conn]
        /\ misses' = IF o # "miss" THEN 0
                     ELSE IF misses < FailureThreshold THEN misses + 1 ELSE misses
        /\ probe' = 0 /\ ProbeTaken
        /\ UNCHANGED conn

\* NmVpnUp or NmVpnChanged: a new connection.
Establish ==
    /\ conn < MaxConns
    /\ kind \in {"off", "Connected"}
    /\ kind' = "Connected" /\ conn' = conn + 1
    /\ checker' = Fresh
    /\ UNCHANGED <<probe, last, misses, probeVars>>

\* Any event that leaves a Connected machine as it is (a second NmVpnUp).
Affirm ==
    /\ kind = "Connected"
    /\ checker' = Fresh
    /\ UNCHANGED <<kind, conn, probe, last, misses, probeVars>>

\* The connection is lost or given up.
Drop ==
    /\ kind # "off"
    /\ kind' = "off"
    /\ UNCHANGED <<conn, checker, probe, last, misses, probeVars>>

\* A time jump: suspend for 10 s, dispatch Wake, then force the state that
\* NetworkManager reports (set_state resets nothing): no connection, the same
\* one, or one that was made meanwhile.
TimeJump ==
    /\ checker' = IF kind = "Connected" THEN Fresh ELSE [checker EXCEPT !.suspended = TRUE]
    /\ \/ kind' = "off" /\ UNCHANGED conn
       \/ kind # "off" /\ kind' = "Connected" /\ UNCHANGED conn
       \/ conn < MaxConns /\ kind' = "Connected" /\ conn' = conn + 1
    /\ UNCHANGED <<probe, last, misses, probeVars>>

SuspensionEnds ==
    /\ checker.suspended
    /\ checker' = [checker EXCEPT !.suspended = FALSE]
    /\ UNCHANGED <<kind, conn, probe, last, misses, probeVars>>

Init ==
    /\ kind = "off" /\ conn = 0
    /\ checker = Fresh
    /\ probe = 0 /\ ProbeInit
    /\ last = [outcome |-> "ok", verdict |-> "Healthy", own |-> TRUE]
    /\ misses = 0

Finish == Discard \/ \E o \in Shown : Apply(o)

Probing == ProbeNext /\ UNCHANGED checkerVars

Next ==
    \/ Tick \/ Probing \/ Finish \/ Establish \/ Affirm \/ Drop \/ TimeJump
    \/ SuspensionEnds

Spec == Init /\ [][Next]_vars

\* The runtime polls the probe's coordinator and its requests, each of which
\* has a timeout; its outcome is taken; a suspension ends with the clock; and
\* the health tick is served although other events interrupt.
FairSpec ==
    /\ Spec
    /\ WF_vars(Coordinate /\ UNCHANGED checkerVars)
    /\ \A e \in Endpoints : WF_vars(Answers(e) /\ UNCHANGED checkerVars)
    /\ WF_vars(Finish) /\ WF_vars(SuspensionEnds) /\ SF_vars(Tick)

----------------------------------------------------------------------------
(* The type invariant. *)
TypeOK ==
    /\ kind \in Kinds
    /\ conn \in 0..MaxConns
    /\ checker \in [fails : 0..CountCap, slow : 0..CountCap, suspended : BOOLEAN]
    /\ probe \in 0..MaxConns
    /\ last \in [outcome : Outcomes, verdict : Verdicts, own : BOOLEAN]
    /\ misses \in 0..FailureThreshold
    /\ ProbeTypeOK

\* No false alarm: a connection is declared dead only on an address leak or
\* after failure_threshold probes in a row found no endpoint, however resets,
\* slow answers, drops and wakes are interleaved with them.
DeadOnEvidence ==
    last.verdict = "Dead" => last.outcome = "ipleak" \/ misses = FailureThreshold

\* No silence: if from some time on no probe gets an answer, the machine does
\* not stay Connected.  (It may be put back, by a resync or a reconnect that
\* finds the connection active, and leaves again.)
FailuresNoticed == <>[](last.outcome = "miss") => []<>(kind # "Connected")

\* Every probe returns and is taken, whatever becomes of the connection
\* meanwhile: health_probe_in_flight, which blocks further checks, is set until
\* it is.
ProbeReturns == probe # 0 ~> probe = 0

\* run(), "Suspend health checks during wake to avoid false positives": after a
\* time jump checks are suspended.
WakeSuspends == [][TimeJump => checker'.suspended]_vars

\* finish_health_check, "state may have moved on while it was in flight ...
\* discarding result": a probe judges the connection it was sent through.
ProbeJudgesItsOwn == last.own

\* reset(), "Reset failure counter (call after successful connection)": a new
\* connection does not inherit the failures of the one before.
NewConnectionStartsFresh == [][conn' # conn => checker'.fails = 0]_vars

\* check(), "Only returns Degraded after consecutive_degraded threshold is
\* reached to avoid false positives during temporary system load".
DegradedOnThreshold ==
    [][last'.verdict = "Degraded" /\ last' # last /\ last'.outcome = "miss" =>
          checker'.slow >= DegradedThreshold]_vars
=============================================================================
