---------------------------- MODULE MonitorProofs ---------------------------
(***************************************************************************)
(* Proofs about the daemon's two monitors.  HealthChecker and the check of *)
(* HealthProbe it starts, for every number of endpoints and every pair of  *)
(* thresholds: a check that misses has asked every endpoint in vain, and a *)
(* connection is declared dead only on evidence.  DbusMonitor, for every   *)
(* window, backoff, capacity and number of activations: no event is echoed *)
(* within the window, and the last word about an activation is told.       *)
(***************************************************************************)
EXTENDS HealthChecker, DbusMonitor, FiniteSetTheorems, TLAPS

----------------------------------------------------------------------------
(* run_probe *)

\* Every endpoint asked so far is still running, has an answer in the channel or
\* has failed.
Accounted ==
    \A e \in 1..asked :
        e \in running \/ e \in failed \/ \E i \in 1..Len(channel) : channel[i].from = e

\* The errors in the channel are those of endpoints that failed.
ErrorsFailed == \A i \in 1..Len(channel) : channel[i].ok \/ channel[i].from \in failed

\* MissMeansAllFailed is not inductive: it needs the books that the loop ends on,
\* in_flight beside the tasks and the channel (ProbeTypeOK), and what became of
\* every endpoint asked.
ProbeInv ==
    /\ ProbeTypeOK
    /\ running \subseteq 1..asked
    /\ pc # "done" => winner = 0 /\ Accounted /\ ErrorsFailed
    /\ pc = "done" => running = {}
    /\ MissMeansAllFailed

\* Tasks come and go: what their number becomes.
LEMMA RunningCount ==
    ASSUME NEW S \in SUBSET Endpoints
    PROVE  /\ IsFiniteSet(S) /\ Cardinality(S) \in Nat
           /\ Cardinality(S) = 0 <=> S = {}
           /\ \A e \in S : Cardinality(S \ {e}) = Cardinality(S) - 1
           /\ \A e \in Endpoints \ S : Cardinality(S \cup {e}) = Cardinality(S) + 1
<1>1. IsFiniteSet(Endpoints)
  BY FS_Interval, EndpointsAssumption DEF Endpoints
<1>2. IsFiniteSet(S)
  BY <1>1, FS_Subset
<1> QED BY <1>2, FS_CardinalityType, FS_EmptySet, FS_AddElement, FS_RemoveElement

\* A new check, and the end of one, start from empty books.
LEMMA BegunInv ==
    ASSUME Begun, pc' \in {"next", "idle"}
    PROVE  ProbeInv'
<1>1. Cardinality({}) = 0
  BY FS_EmptySet
<1> QED BY <1>1, EndpointsAssumption
        DEF Begun, ProbeInv, ProbeTypeOK, Accounted, ErrorsFailed, MissMeansAllFailed, Endpoints

\* The next endpoint is asked.
LEMMA AskInv == ASSUME ProbeInv, Ask PROVE ProbeInv'
<1> USE EndpointsAssumption DEF ProbeInv, ProbeTypeOK, Accounted, ErrorsFailed, MissMeansAllFailed
<1>1. asked + 1 \in Endpoints \ running
  BY DEF Ask, Endpoints
<1>2. Cardinality(running') = Cardinality(running) + 1
  BY <1>1, RunningCount DEF Ask
<1>3. Cardinality(running) \in Nat
  BY RunningCount
<1>4. running' \subseteq 1..asked' /\ running' \subseteq Endpoints
  BY <1>1 DEF Ask
<1> QED BY <1>1, <1>2, <1>3, <1>4 DEF Ask

\* A task answers.
LEMMA AnswerInv ==
    ASSUME ProbeInv, NEW e \in Endpoints, NEW ok \in BOOLEAN, Answer(e, ok)
    PROVE  ProbeInv'
<1> USE EndpointsAssumption DEF ProbeInv, ProbeTypeOK, Accounted, ErrorsFailed, MissMeansAllFailed
<1> DEFINE r == [from |-> e, ok |-> ok]
<1>1. /\ r \in [from : Endpoints, ok : BOOLEAN] /\ r.from = e /\ r.ok = ok
      /\ channel' = Append(channel, r) /\ pc # "done"
  BY DEF Answer
<1> HIDE DEF r
<1>2. /\ channel' \in Seq([from : Endpoints, ok : BOOLEAN])
      /\ Len(channel') = Len(channel) + 1
      /\ \A i \in 1..Len(channel) : channel'[i] = channel[i]
      /\ channel'[Len(channel) + 1] = r
  BY <1>1
<1>3. /\ Cardinality(running') = Cardinality(running) - 1
      /\ Cardinality(running) \in Nat
  BY RunningCount DEF Answer
<1>4. ErrorsFailed'
  BY <1>1, <1>2 DEF Answer
<1>5. Accounted'
  BY <1>1, <1>2 DEF Answer
<1> QED BY <1>1, <1>2, <1>3, <1>4, <1>5 DEF Answer

\* An answer is received: a success ends the check, an error is already counted.
LEMMA ReceiveInv == ASSUME ProbeInv, Receive PROVE ProbeInv'
<1> USE EndpointsAssumption DEF ProbeInv, ProbeTypeOK, Accounted, ErrorsFailed, MissMeansAllFailed
<1>1. /\ channel' = Tail(channel) /\ channel # <<>>
      /\ channel \in Seq([from : Endpoints, ok : BOOLEAN])
      /\ pc # "done"
  BY DEF Receive
<1>2. /\ channel' \in Seq([from : Endpoints, ok : BOOLEAN])
      /\ Len(channel') = Len(channel) - 1 /\ Len(channel) \in Nat \ {0}
      /\ \A i \in 1..Len(channel') : channel'[i] = channel[i + 1]
      /\ Head(channel) = channel[1] /\ channel[1] \in [from : Endpoints, ok : BOOLEAN]
  <2> HIDE DEF ProbeInv
  <2> DEFINE R == [from : Endpoints, ok : BOOLEAN]
  <2>1. channel \in Seq(R) /\ channel # <<>>
    BY <1>1
  <2> HIDE DEF R
  <2>2. /\ Tail(channel) \in Seq(R)
        /\ Len(Tail(channel)) = Len(channel) - 1 /\ Len(channel) \in Nat \ {0}
        /\ \A i \in 1..Len(Tail(channel)) : Tail(channel)[i] = channel[i + 1]
        /\ Head(channel) = channel[1] /\ channel[1] \in R
    BY <2>1
  <2> QED BY <1>1, <2>2 DEF R
<1>3. Cardinality(running) \in Nat /\ Cardinality({}) = 0
  BY RunningCount, FS_EmptySet
<1>4. CASE Head(channel).ok
  <2>1. pc' = "done" /\ running' = {} /\ winner' = channel[1].from /\ UNCHANGED <<asked, failed>>
    BY <1>2, <1>4 DEF Receive
  <2>2. winner' \in 1..N
    BY <1>2, <2>1 DEF Endpoints
  <2> QED BY <1>2, <2>1, <2>2
<1>5. CASE ~Head(channel).ok
  <2>1. channel[1].from \in failed
    BY <1>1, <1>2, <1>5
  <2>2. ErrorsFailed'
    BY <1>1, <1>2, <1>5 DEF Receive
  <2>3. Accounted'
    <3> SUFFICES ASSUME NEW e \in 1..asked, e \notin running, e \notin failed
                 PROVE  \E j \in 1..Len(channel') : channel'[j].from = e
      BY <1>5 DEF Receive
    <3>1. PICK i \in 1..Len(channel) : channel[i].from = e
      BY <1>1
    <3>2. i # 1
      BY <2>1, <3>1
    <3>3. i - 1 \in 1..Len(channel') /\ channel'[i - 1] = channel[i]
      BY <1>2, <3>2
    <3> QED BY <3>1, <3>3
  <2>4. /\ pc' = "next" /\ inFlight' = inFlight - 1
        /\ UNCHANGED <<winner, running, asked, failed>>
    BY <1>5 DEF Receive
  <2>5. ProbeTypeOK'
    BY <1>1, <1>2, <1>3, <2>4
  <2> QED BY <1>1, <2>2, <2>3, <2>4, <2>5
<1> QED BY <1>4, <1>5

\* One step of run_probe.
LEMMA ProbeStep == ASSUME ProbeInv, ProbeNext PROVE ProbeInv'
<1>1. CASE HeadStartElapses
  BY <1>1 DEF HeadStartElapses, ProbeInv, ProbeTypeOK, Accounted, ErrorsFailed,
              MissMeansAllFailed
<1>2. CASE AllAsked
  <2> USE EndpointsAssumption
          DEF ProbeInv, ProbeTypeOK, Accounted, ErrorsFailed, MissMeansAllFailed
  <2>1. Cardinality(running) \in Nat /\ (Cardinality(running) = 0 <=> running = {})
    BY RunningCount
  <2>2. CASE inFlight > 0
    BY <1>2, <2>2 DEF AllAsked
  <2>3. CASE ~(inFlight > 0)
    <3>1. Len(channel) = 0 /\ running = {}
      BY <1>2, <2>1, <2>3 DEF AllAsked
    <3>2. \A e \in 1..asked : e \in failed
      BY <1>2, <3>1 DEF AllAsked
    <3>3. failed = Endpoints
      BY <1>2, <3>2 DEF AllAsked, Endpoints
    <3> QED BY <1>2, <2>3, <3>1, <3>3 DEF AllAsked
  <2> QED BY <2>2, <2>3
<1> QED BY <1>1, <1>2, AskInv, AnswerInv, ReceiveInv DEF ProbeNext, Coordinate, Answers

----------------------------------------------------------------------------
(* The checker *)

Checkers == [fails : 0..CountCap, slow : 0..CountCap, suspended : BOOLEAN]

\* The counter of failures never runs ahead of the failures in a row: every reset
\* clears it, and only a miss, which both count, moves it.
CountsMisses == checker.fails <= misses \/ misses = FailureThreshold

HealthInv == TypeOK /\ ProbeInv /\ CountsMisses /\ DeadOnEvidence

\* evaluate: what an outcome does to the counters, and which outcomes kill.
LEMMA CountedFacts ==
    ASSUME NEW c \in Checkers, NEW o \in Outcomes
    PROVE  /\ Counted(c, o) \in Checkers
           /\ o # "miss" => Counted(c, o).fails = 0
           /\ o = "miss" => Counted(c, o).fails <= c.fails + 1
           /\ Verdict(Counted(c, o), o) \in Verdicts
           /\ Verdict(Counted(c, o), o) = "Dead" =>
                  o = "ipleak" \/ (o = "miss" /\ Counted(c, o).fails >= FailureThreshold)
<1>1. \A n \in 0..CountCap : Bump(n) \in 0..CountCap /\ Bump(n) <= n + 1
  BY HealthAssumption DEF Bump
<1>2. /\ c.fails \in 0..CountCap /\ c.slow \in 0..CountCap
      /\ \A f, l \in 0..CountCap : [c EXCEPT !.fails = f, !.slow = l] \in Checkers
      /\ \A f \in 0..CountCap : [c EXCEPT !.fails = f] \in Checkers
      /\ 0 \in 0..CountCap
  <2> DEFINE Counts == 0..CountCap
  <2>1. 0 \in Counts /\ c \in [fails : Counts, slow : Counts, suspended : BOOLEAN]
    BY HealthAssumption DEF Checkers
  <2> HIDE DEF Counts
  <2>2. /\ c.fails \in Counts /\ c.slow \in Counts
        /\ \A f, l \in Counts : [c EXCEPT !.fails = f, !.slow = l]
                                   \in [fails : Counts, slow : Counts, suspended : BOOLEAN]
        /\ \A f \in Counts : [c EXCEPT !.fails = f]
                                   \in [fails : Counts, slow : Counts, suspended : BOOLEAN]
    BY <2>1
  <2> QED BY <2>1, <2>2 DEF Counts, Checkers
<1>3. CASE o = "miss"
  BY <1>1, <1>2, <1>3 DEF Counted, Verdict, Verdicts, Checkers
<1>4. CASE o = "slow"
  BY <1>1, <1>2, <1>4 DEF Counted, Verdict, Verdicts, Checkers
<1>5. CASE o \in {"ok", "ipleak", "dnsleak"}
  BY <1>1, <1>2, <1>5 DEF Counted, Verdict, Verdicts, Checkers
<1> QED BY <1>3, <1>4, <1>5 DEF Outcomes

\* finish_health_check: the books of misses and failures stay in step, and a
\* connection is declared dead on evidence.
LEMMA ApplyInv ==
    ASSUME HealthInv, NEW o \in Shown, Apply(o)
    PROVE  HealthInv'
<1> DEFINE c == Counted(checker, o)
           v == Verdict(c, o)
<1>1. o \in Outcomes /\ checker \in Checkers /\ checker.fails \in Nat
  BY HealthAssumption DEF Shown, Outcomes, HealthInv, TypeOK, Checkers
<1>2. /\ c \in Checkers /\ v \in Verdicts /\ c.fails \in Nat
      /\ o # "miss" => c.fails = 0
      /\ o = "miss" => c.fails <= checker.fails + 1
      /\ v = "Dead" => o = "ipleak" \/ (o = "miss" /\ c.fails >= FailureThreshold)
  BY <1>1, CountedFacts, HealthAssumption DEF Checkers
<1>3. /\ checker' \in {c, Fresh} /\ kind' \in Kinds
      /\ last' = [outcome |-> o, verdict |-> v, own |-> probe = conn]
      /\ misses' = IF o # "miss" THEN 0
                    ELSE IF misses < FailureThreshold THEN misses + 1 ELSE misses
      /\ probe' = 0 /\ conn' = conn /\ pc' = "idle" /\ Begun
  BY DEF Apply, Healthy, Degrade, Dead, Kinds, ProbeTaken
<1>4. ProbeInv'
  BY <1>3, BegunInv
<1> HIDE DEF c, v
<1>5. Fresh \in Checkers /\ Fresh.fails = 0
  BY HealthAssumption DEF Fresh, Checkers
<1>6. misses' \in 0..FailureThreshold
  BY <1>3, HealthAssumption DEF HealthInv, TypeOK
<1>7. TypeOK'
  BY <1>1, <1>2, <1>3, <1>4, <1>5, <1>6, HealthAssumption
     DEF HealthInv, TypeOK, ProbeInv, Checkers
<1>8. CountsMisses'
  BY <1>1, <1>2, <1>3, <1>5, <1>6, HealthAssumption DEF HealthInv, TypeOK, CountsMisses
<1>9. DeadOnEvidence'
  BY <1>1, <1>2, <1>3, <1>6, HealthAssumption
     DEF HealthInv, TypeOK, CountsMisses, DeadOnEvidence
<1> QED BY <1>4, <1>7, <1>8, <1>9 DEF HealthInv

\* Every step of the event loop and of the probe keeps the invariant.
LEMMA HealthStep == ASSUME HealthInv, [Next]_vars PROVE HealthInv'
<1>1. /\ TypeOK /\ ProbeInv /\ checker \in Checkers /\ misses \in Nat
      /\ Fresh \in Checkers /\ Fresh.fails = 0
  BY HealthAssumption DEF HealthInv, TypeOK, Checkers, Fresh
<1>2. ASSUME UNCHANGED <<last, misses>>, checker'.fails \in {checker.fails, 0},
             ProbeInv', TypeOK'
      PROVE  HealthInv'
  BY <1>1, <1>2 DEF HealthInv, CountsMisses, DeadOnEvidence
<1>3. ASSUME UNCHANGED probeVars
      PROVE  ProbeInv'
  BY <1>1, <1>3 DEF probeVars, ProbeInv, ProbeTypeOK, Accounted, ErrorsFailed, MissMeansAllFailed
<1>4. CASE Tick
  <2>1. ProbeInv'
    BY <1>4, BegunInv DEF Tick, RunProbe
  <2>2. TypeOK'
    BY <1>1, <1>4, <2>1 DEF Tick, TypeOK, ProbeInv
  <2> QED BY <1>2, <1>4, <2>1, <2>2 DEF Tick
<1>5. CASE Probing
  <2>1. ProbeInv'
    BY <1>1, <1>5, ProbeStep DEF Probing
  <2>2. TypeOK'
    BY <1>1, <1>5, <2>1 DEF Probing, checkerVars, TypeOK, ProbeInv
  <2> QED BY <1>2, <1>5, <2>1, <2>2 DEF Probing, checkerVars
<1>6. CASE Discard
  <2>1. ProbeInv'
    BY <1>6, BegunInv DEF Discard, ProbeTaken
  <2>2. TypeOK'
    BY <1>1, <1>6, <2>1, HealthAssumption DEF Discard, TypeOK, ProbeInv
  <2> QED BY <1>2, <1>6, <2>1, <2>2 DEF Discard
<1>7. CASE Establish
  <2>1. ProbeInv'
    BY <1>3, <1>7 DEF Establish
  <2>2. TypeOK'
    BY <1>1, <1>7, <2>1, HealthAssumption DEF Establish, TypeOK, ProbeInv, Kinds, Checkers
  <2> QED BY <1>1, <1>2, <1>7, <2>1, <2>2 DEF Establish
<1>8. CASE Affirm
  <2>1. ProbeInv'
    BY <1>3, <1>8 DEF Affirm
  <2>2. TypeOK'
    BY <1>1, <1>8, <2>1 DEF Affirm, TypeOK, ProbeInv, Checkers
  <2> QED BY <1>1, <1>2, <1>8, <2>1, <2>2 DEF Affirm
<1>9. CASE Drop
  <2>1. ProbeInv'
    BY <1>3, <1>9 DEF Drop
  <2>2. TypeOK'
    BY <1>1, <1>9, <2>1 DEF Drop, TypeOK, ProbeInv, Kinds
  <2> QED BY <1>2, <1>9, <2>1, <2>2 DEF Drop
<1>10. CASE TimeJump
  <2>1. ProbeInv'
    BY <1>3, <1>10 DEF TimeJump
  <2>2. checker' \in Checkers /\ checker'.fails \in {checker.fails, 0}
    BY <1>1, <1>10 DEF TimeJump, Checkers
  <2>3. TypeOK'
    BY <1>1, <1>10, <2>1, <2>2, HealthAssumption DEF TimeJump, TypeOK, ProbeInv, Kinds, Checkers
  <2> QED BY <1>2, <1>10, <2>1, <2>2, <2>3 DEF TimeJump
<1>11. CASE SuspensionEnds
  <2>1. ProbeInv'
    BY <1>3, <1>11 DEF SuspensionEnds
  <2>2. checker' \in Checkers /\ checker'.fails = checker.fails
    BY <1>1, <1>11 DEF SuspensionEnds, Checkers
  <2>3. TypeOK'
    BY <1>1, <1>11, <2>1, <2>2 DEF SuspensionEnds, TypeOK, ProbeInv, Checkers
  <2> QED BY <1>2, <1>11, <2>1, <2>2, <2>3 DEF SuspensionEnds
<1>12. CASE UNCHANGED vars
  <2>1. ProbeInv'
    BY <1>3, <1>12 DEF vars
  <2>2. TypeOK'
    BY <1>1, <1>12, <2>1 DEF vars, checkerVars, TypeOK, ProbeInv
  <2> QED BY <1>2, <1>12, <2>1, <2>2 DEF vars, checkerVars
<1> QED BY <1>4, <1>5, <1>6, <1>7, <1>8, <1>9, <1>10, <1>11, <1>12, ApplyInv
        DEF Next, Finish

\* The invariant holds when the event loop starts, hence always.
LEMMA HealthAlways == Spec => []HealthInv
<1>1. Init => HealthInv
  <2> SUFFICES ASSUME Init
               PROVE  HealthInv
    OBVIOUS
  <2>1. Cardinality({}) = 0
    BY FS_EmptySet
  <2>2. ProbeInv
    BY <2>1, EndpointsAssumption
       DEF Init, ProbeInit, ProbeInv, ProbeTypeOK, Accounted, ErrorsFailed,
           MissMeansAllFailed, Endpoints
  <2> QED BY <2>2, HealthAssumption
          DEF Init, HealthInv, TypeOK, ProbeInv, CountsMisses, DeadOnEvidence, Kinds, Fresh,
              Outcomes, Verdicts
<1>2. HealthInv /\ [Next]_vars => HealthInv'
  BY HealthStep
<1> QED BY <1>1, <1>2, PTL DEF Spec

\* Every counter, the probe and its books stay in their ranges; in_flight is the
\* number of requests that run or have answered unheard.
THEOREM TypeCorrect == Spec => []TypeOK
<1>1. HealthInv => TypeOK
  BY DEF HealthInv
<1> QED BY <1>1, HealthAlways, PTL

\* run_probe, for every list of endpoints: a check that ends without a hit has
\* asked all of them, and all of them failed.
THEOREM MissMeansAllFailedHolds == Spec => []MissMeansAllFailed
<1>1. HealthInv => MissMeansAllFailed
  BY DEF HealthInv, ProbeInv
<1> QED BY <1>1, HealthAlways, PTL

\* evaluate, for every pair of thresholds: dead means an address leak or
\* failure_threshold misses in a row, whatever resets, drops, wakes and slow
\* answers come between the probes.
THEOREM DeadOnEvidenceHolds == Spec => []DeadOnEvidence
<1>1. HealthInv => DeadOnEvidence
  BY DEF HealthInv
<1> QED BY <1>1, HealthAlways, PTL

----------------------------------------------------------------------------
(* NmMonitor *)

Signals == [interface : {"vpn", "active"}, state : 1..7, path : 0..MaxPaths]

BusTypes ==
    /\ nm \in [phase : {"down", "activating", "activated"}, path : 0..MaxPaths,
               object : BOOLEAN, since : 0..Long]
    /\ nm.phase # "down" => nm.object
    /\ bus \in Seq(Signals)
    /\ mon \in [at : {"down", "subscribed", "listening"}, since : 0..Long]
    /\ DOMAIN recent \subseteq Types /\ \A t \in DOMAIN recent : recent[t] \in 0..Long
    /\ sent \in [Types -> 0..Long] /\ pruned \in 0..Long
    /\ told \in Types \cup {"nothing"} /\ watched \in BOOLEAN /\ dropped \in BOOLEAN

\* What was accepted within the window is remembered by the monitor that is
\* there; without one, nothing was accepted since the last one ended.
Remembers ==
    /\ mon.at = "down" => \A t \in Types : mon.since <= sent[t]
    /\ mon.at # "down" =>
          \A t \in Types : sent[t] < Window => t \in DOMAIN recent /\ recent[t] = sent[t]

\* Signals that wait were sent just now, and what the monitor remembers of a
\* profile that is down is older than its going down.
Settled ==
    /\ nm.phase = "down" /\ bus # <<>> => nm.since = 0
    /\ nm.phase = "down" => \A t \in DOMAIN recent : nm.since <= recent[t]

\* The events of an activation come in this order.
Rank(t) == CASE t = "activating" -> 1 [] t = "activated" -> 2 [] OTHER -> 3

Ahead(i) == EventType(bus[i])

\* The signal of the vpn interface that ends the activation, not yet handled and
\* not a duplicate.
EndToCome ==
    \E i \in 1..Len(bus) :
        /\ bus[i].interface = "vpn" /\ Ahead(i) \in {"failed", "deactivated"}
        /\ ~Duplicate(Ahead(i))

\* The signals that wait are of the last activation, in order, and behind what
\* was told of it; a name that was used is known.
OwnSignals ==
    /\ \A i \in 1..Len(bus) : bus[i].path = nm.path
    /\ \A i, j \in 1..Len(bus) : i <= j => Rank(Ahead(i)) <= Rank(Ahead(j))
    /\ told # "nothing" => \A i \in 1..Len(bus) : Rank(told) <= Rank(Ahead(i))
    /\ told \in {"activating", "activated"} => nm.path \in cache

\* An activation seen from its start: no signal is further than its phase, and
\* the event for the phase was told or is still to come.
Follows ==
    /\ OwnSignals
    /\ nm.phase = "activating" =>
          /\ told \in {"nothing", "activating"}
          /\ \A i \in 1..Len(bus) : Rank(Ahead(i)) = 1
          /\ \A t \in {"activated", "failed", "deactivated"} : ~Duplicate(t)
          /\ told = "activating" \/ (bus # <<>> /\ ~Duplicate("activating"))
    /\ nm.phase = "activated" =>
          /\ told \in {"nothing", "activating", "activated"}
          /\ \A i \in 1..Len(bus) : Rank(Ahead(i)) <= 2
          /\ \A t \in {"failed", "deactivated"} : ~Duplicate(t)
          /\ \/ told = "activated"
             \/ ~Duplicate("activated") /\ \E i \in 1..Len(bus) : Ahead(i) = "activated"
    /\ nm.phase = "down" =>
          \/ EndToCome
          \/ /\ told \notin {"activating", "activated"}
             /\ \A i \in 1..Len(bus) : Rank(Ahead(i)) = 3

\* NoEcho needs what the monitor remembers and what it forgot, through its end
\* and the loop's sleep.  LastWordTold needs the signals that are still to come.
BusInv ==
    /\ BusTypes /\ Remembers /\ ~echoed
    /\ mon.at = "down" => bus = <<>> /\ ~watched
    /\ mon.at # "listening" => told = "nothing"
    /\ Prompt => Settled /\ (watched /\ ~dropped => Follows)

\* The windows and delays of the monitor, as numbers.
LEMMA Delays ==
    /\ Window \in Nat /\ Window >= 1 /\ Sweep \in Nat /\ Window < Sweep
    /\ Backoff \in Nat /\ Window <= Backoff
    /\ Long \in Nat /\ Backoff <= Long /\ Sweep <= Long
    /\ MaxPaths \in Nat /\ ChannelCap \in Nat
BY MonitorAssumption DEF Sweep, Long

\* Ages grow together and stop at Long.
LEMMA Ageing ==
    ASSUME NEW a \in 0..Long, NEW b \in 0..Long
    PROVE  /\ Older(a) \in 0..Long /\ a <= Older(a)
           /\ a <= b => Older(a) <= Older(b)
           /\ Older(a) < Window => a < Window
BY Delays DEF Older

\* The states of the two interfaces as handle_vpn_state_changed and
\* handle_active_state_changed read them.
LEMMA Heard ==
    ASSUME NEW p
    PROVE  /\ EventType([interface |-> "vpn", state |-> 1, path |-> p]) = "activating"
           /\ EventType([interface |-> "vpn", state |-> 3, path |-> p]) = "activating"
           /\ EventType([interface |-> "active", state |-> 1, path |-> p]) = "activating"
           /\ EventType([interface |-> "vpn", state |-> 5, path |-> p]) = "activated"
           /\ EventType([interface |-> "active", state |-> 2, path |-> p]) = "activated"
           /\ EventType([interface |-> "vpn", state |-> 6, path |-> p]) = "failed"
           /\ EventType([interface |-> "vpn", state |-> 7, path |-> p]) = "deactivated"
           /\ EventType([interface |-> "active", state |-> 3, path |-> p]) = "none"
           /\ EventType([interface |-> "active", state |-> 4, path |-> p]) = "deactivated"
BY DEF EventType

\* A signal has one event type or none.
LEMMA EventTypes ==
    ASSUME NEW s PROVE EventType(s) \in Types \cup {"none"}
BY DEF EventType, Types

\* The ranks of the event types.
LEMMA Ranks ==
    /\ \A t : Rank(t) \in 1..3
    /\ \A t : Rank(t) = 1 <=> t = "activating"
    /\ \A t : Rank(t) = 2 <=> t = "activated"
    /\ Rank("activating") = 1 /\ Rank("activated") = 2
    /\ Rank("failed") = 3 /\ Rank("deactivated") = 3 /\ Rank("none") = 3
BY DEF Rank

\* The bus with new signals behind the old ones.
LEMMA Queued ==
    ASSUME NEW b \in Seq(Signals), NEW q \in Seq(Signals)
    PROVE  /\ b \o q \in Seq(Signals)
           /\ Len(b) \in Nat /\ Len(q) \in Nat
           /\ Len(b \o q) = Len(b) + Len(q)
           /\ \A i \in 1..Len(b) : (b \o q)[i] = b[i] /\ i \in 1..Len(b \o q)
           /\ \A j \in 1..Len(q) : (b \o q)[Len(b) + j] = q[j] /\ Len(b) + j \in 1..Len(b \o q)
           /\ \A i \in 1..Len(b \o q) :
                 i \in 1..Len(b) \/ \E j \in 1..Len(q) : i = Len(b) + j
<1> HIDE DEF Signals
<1>1. /\ b \o q \in Seq(Signals) /\ Len(b \o q) = Len(b) + Len(q)
      /\ \A i \in 1..Len(b) + Len(q) :
            (b \o q)[i] = IF i <= Len(b) THEN b[i] ELSE q[i - Len(b)]
    OBVIOUS
<1>2. Len(b) \in Nat /\ Len(q) \in Nat
    OBVIOUS
<1>3. \A i \in 1..Len(b \o q) :
          i \in 1..Len(b) \/ \E j \in 1..Len(q) : i = Len(b) + j
    <2> SUFFICES ASSUME NEW i \in 1..Len(b \o q), i \notin 1..Len(b)
                 PROVE  \E j \in 1..Len(q) : i = Len(b) + j
        OBVIOUS
    <2>1. i - Len(b) \in 1..Len(q) /\ i = Len(b) + (i - Len(b))
        BY <1>1, <1>2
    <2> QED
        BY <2>1
<1>4. \A j \in 1..Len(q) : (b \o q)[Len(b) + j] = q[j] /\ Len(b) + j \in 1..Len(b \o q)
    BY <1>1, <1>2
<1>5. \A i \in 1..Len(b) : (b \o q)[i] = b[i] /\ i \in 1..Len(b \o q)
    BY <1>1, <1>2
<1> QED
    BY <1>1, <1>2, <1>3, <1>4, <1>5

\* should_process_event accepts t: the sweep drops only what is past the window.
LEMMA AcceptRemembers ==
    ASSUME BusTypes, NEW t \in Types, Accept(t)
    PROVE  /\ DOMAIN recent' \subseteq Types /\ t \in DOMAIN recent' /\ recent'[t] = 0
           /\ \A u \in DOMAIN recent' : u # t => u \in DOMAIN recent /\ recent'[u] = recent[u]
           /\ \A u \in DOMAIN recent :
                 u # t /\ recent[u] < Window => u \in DOMAIN recent' /\ recent'[u] = recent[u]
           /\ pruned' \in 0..Long
<1>1. /\ DOMAIN recent \subseteq Types
      /\ \A u \in DOMAIN recent : recent[u] \in 0..Long
      /\ pruned \in 0..Long
    BY DEF BusTypes
<1>2. /\ DOMAIN Swept \subseteq DOMAIN recent
      /\ \A u \in DOMAIN Swept : Swept[u] = recent[u]
      /\ \A u \in DOMAIN recent : recent[u] < Window => u \in DOMAIN Swept
    <2>1. CASE SweepDue
        <3> DEFINE kept == {u \in DOMAIN recent : recent[u] < Sweep}
        <3>1. Swept = [u \in kept |-> recent[u]]
            BY <2>1 DEF Swept
        <3>2. \A u \in DOMAIN recent : recent[u] < Window => u \in kept
            BY <1>1, Delays
        <3> QED
            BY <3>1, <3>2
    <2>2. CASE ~SweepDue
        BY <2>2 DEF Swept
    <2> QED
        BY <2>1, <2>2
<1>3. /\ recent' = [u \in DOMAIN Swept \cup {t} |-> IF u = t THEN 0 ELSE Swept[u]]
      /\ pruned' = IF SweepDue THEN 0 ELSE pruned
    BY DEF Accept
<1> QED
    BY <1>1, <1>2, <1>3, Delays

\* Steps that leave the signals and the phase alone, make nothing a duplicate
\* and lose no name that was used, leave Follows alone.
LEMMA FollowsStays ==
    ASSUME Follows, bus' = bus, told' = told,
           nm'.phase = nm.phase, nm'.path = nm.path,
           \A t : ~Duplicate(t) => ~Duplicate(t)',
           told \in {"activating", "activated"} /\ nm.path \in cache => nm.path \in cache'
    PROVE  Follows'
<1>1. EndToCome => EndToCome'
    BY DEF EndToCome, Ahead
<1> QED
    BY <1>1 DEF Follows, OwnSignals, Ahead

\* The steps of run(), of the loop around it, of the bus and of the supervisor.
LEMMA LifeKeeps ==
    ASSUME BusInv, Subscribe \/ Populate \/ Ends \/ BusFails \/ BusReturns \/ Deliver
    PROVE  BusInv'
<1>1. CASE Subscribe
    <2>1. /\ mon.at = "down" /\ mon.since >= Backoff
          /\ mon' = [mon EXCEPT !.at = "subscribed"]
          /\ UNCHANGED <<nm, bus, cache, recent, pruned, told, sent, echoed, watched, dropped>>
        BY <1>1 DEF Subscribe
    <2>2. /\ mon' \in [at : {"down", "subscribed", "listening"}, since : 0..Long]
          /\ mon'.at = "subscribed"
        BY <2>1 DEF BusInv, BusTypes
    <2>3. Remembers'
        <3>1. \A t \in Types : ~(sent[t] < Window)
            BY <2>1, Delays DEF BusInv, BusTypes, Remembers
        <3> QED
            BY <2>1, <2>2, <3>1 DEF Remembers
    <2> QED
        BY <2>1, <2>2, <2>3 DEF BusInv, BusTypes, Settled
<1>2. CASE Populate
    <2>1. /\ mon.at = "subscribed"
          /\ mon' = [mon EXCEPT !.at = "listening"]
          /\ UNCHANGED <<nm, bus, recent, pruned, told, sent, echoed, watched, dropped>>
        BY <1>2 DEF Populate
    <2>2. /\ mon' \in [at : {"down", "subscribed", "listening"}, since : 0..Long]
          /\ mon'.at = "listening" /\ told = "nothing"
        BY <2>1 DEF BusInv, BusTypes
    <2>3. Follows => Follows'
        BY <2>1, <2>2, FollowsStays DEF Duplicate
    <2> QED
        BY <2>1, <2>2, <2>3 DEF BusInv, BusTypes, Remembers, Settled
<1>3. CASE Ends
    <2>1. /\ mon' = [at |-> "down", since |-> 0]
          /\ bus' = <<>> /\ recent' = <<>> /\ pruned' = Long
          /\ told' = "nothing" /\ watched' = FALSE
          /\ UNCHANGED <<nm, sent, echoed, dropped>>
        BY <1>3 DEF Ends, Forget
    <2>2. /\ mon'.at = "down" /\ mon'.since = 0
          /\ mon' \in [at : {"down", "subscribed", "listening"}, since : 0..Long]
        BY <2>1, Delays
    <2>3. DOMAIN recent' = {}
        <3>1. DOMAIN <<>> = {}
            OBVIOUS
        <3> QED
            BY <2>1, <3>1
    <2>4. bus' \in Seq(Signals)
        BY <2>1
    <2>5. Remembers'
        BY <2>1, <2>2, Delays DEF BusInv, BusTypes, Remembers
    <2>6. BusTypes'
        <3>1. /\ pruned' \in 0..Long /\ told' = "nothing" /\ watched' = FALSE
              /\ UNCHANGED <<nm, sent, dropped>>
            BY <2>1, Delays
        <3>2. BusTypes
            BY DEF BusInv
        <3> QED
            BY <2>2, <2>3, <2>4, <3>1, <3>2 DEF BusTypes
    <2>7. Settled'
        BY <2>1, <2>3 DEF Settled
    <2> QED
        BY <2>1, <2>2, <2>5, <2>6, <2>7 DEF BusInv
<1>4. CASE BusFails \/ BusReturns \/ Deliver
    <2>1. UNCHANGED <<nm, bus, mon, cache, recent, pruned, told, sent, echoed, watched, dropped>>
        BY <1>4 DEF BusFails, BusReturns, Deliver
    <2>2. Follows => Follows'
        BY <2>1, FollowsStays DEF Duplicate
    <2> QED
        BY <2>1, <2>2 DEF BusInv, BusTypes, Remembers, Settled
<1> QED
    BY <1>1, <1>2, <1>3, <1>4

\* Time passes: everything ages alike, so what was past the window stays past it
\* and what the monitor remembers keeps its distance to what it sent.
LEMMA TimeKeeps ==
    ASSUME BusInv, TimePasses
    PROVE  BusInv'
<1>1. /\ Prompt => mon.at = "down" \/ (mon.at = "listening" /\ bus = <<>>)
      /\ nm' = [nm EXCEPT !.since = Older(@)]
      /\ mon' = [mon EXCEPT !.since = IF mon.at = "down" THEN Older(@) ELSE @]
      /\ recent' = [t \in DOMAIN recent |-> Older(recent[t])]
      /\ pruned' = Older(pruned)
      /\ sent' = [t \in Types |-> Older(sent[t])]
      /\ UNCHANGED <<bus, cache, told, echoed, watched, dropped>>
    BY DEF TimePasses
<1>2. BusTypes
    BY DEF BusInv
<1>3. /\ nm' \in [phase : {"down", "activating", "activated"}, path : 0..MaxPaths,
                  object : BOOLEAN, since : 0..Long]
      /\ nm'.phase = nm.phase /\ nm'.path = nm.path /\ nm'.object = nm.object
      /\ nm'.since = Older(nm.since)
    BY <1>1, <1>2, Ageing DEF BusTypes
<1>4. /\ mon' \in [at : {"down", "subscribed", "listening"}, since : 0..Long]
      /\ mon'.at = mon.at
      /\ mon.at = "down" => mon'.since = Older(mon.since)
    BY <1>1, <1>2, Ageing DEF BusTypes
<1>5. /\ DOMAIN recent' = DOMAIN recent
      /\ \A t \in DOMAIN recent : recent'[t] = Older(recent[t]) /\ recent'[t] \in 0..Long
      /\ \A t : ~Duplicate(t) => ~Duplicate(t)'
    BY <1>1, <1>2, Ageing DEF BusTypes, Duplicate
<1>6. BusTypes'
    BY <1>1, <1>2, <1>3, <1>4, <1>5, Ageing DEF BusTypes
<1>7. Remembers'
    <2>1. CASE mon.at = "down"
        <3>1. \A t \in Types : mon.since <= sent[t] /\ sent[t] \in 0..Long
            BY <1>2, <2>1 DEF BusInv, BusTypes, Remembers
        <3>2. \A t \in Types : Older(mon.since) <= Older(sent[t])
            BY <1>2, <3>1, Ageing DEF BusTypes
        <3> QED
            BY <1>1, <1>4, <2>1, <3>2 DEF Remembers
    <2>2. CASE mon.at # "down"
        <3>1. ASSUME NEW t \in Types, sent'[t] < Window
              PROVE  t \in DOMAIN recent' /\ recent'[t] = sent'[t]
            <4>1. sent'[t] = Older(sent[t]) /\ sent[t] \in 0..Long
                BY <1>1, <1>2 DEF BusTypes
            <4>2. sent[t] < Window
                BY <3>1, <4>1, Ageing
            <4> QED
                BY <1>5, <2>2, <4>1, <4>2 DEF BusInv, Remembers
        <3> QED
            BY <1>4, <2>2, <3>1 DEF Remembers
    <2> QED
        BY <2>1, <2>2
<1>8. Prompt => Settled'
    <2>1. ASSUME Prompt PROVE bus = <<>>
        BY <1>1, <2>1 DEF BusInv
    <2>2. ASSUME Prompt, nm.phase = "down", NEW t \in DOMAIN recent
          PROVE  nm'.since <= recent'[t]
        BY <1>2, <1>3, <1>5, <2>2, Ageing DEF BusInv, BusTypes, Settled
    <2> QED
        BY <1>1, <1>3, <1>5, <2>1, <2>2 DEF Settled
<1>9. Follows => Follows'
    BY <1>1, <1>3, <1>5, FollowsStays
<1> QED
    BY <1>1, <1>4, <1>6, <1>7, <1>8, <1>9 DEF BusInv

\* NetworkManager announces a change: what holds whatever the change is.
LEMMA AnnounceKeeps ==
    ASSUME BusInv,
           NEW new \in [phase : {"down", "activating", "activated"}, path : 0..MaxPaths,
                        object : BOOLEAN, since : 0..Long],
           new.phase # "down" => new.object,
           NEW q \in Seq(Signals), Announce(new, q),
           told' \in {told, "nothing"}, watched' \in BOOLEAN, watched' => mon.at # "down"
    PROVE  /\ BusTypes' /\ Remembers' /\ ~echoed'
           /\ mon'.at = "down" => bus' = <<>> /\ ~watched'
           /\ mon'.at # "listening" => told' = "nothing"
<1>1. /\ nm' = new /\ bus' = IF mon.at = "down" THEN bus ELSE bus \o q
      /\ UNCHANGED <<mon, cache, recent, pruned, sent, echoed, dropped>>
    BY DEF Announce
<1>2. BusTypes /\ bus \in Seq(Signals)
    BY DEF BusInv, BusTypes
<1>3. bus' \in Seq(Signals)
    BY <1>1, <1>2, Queued
<1>4. BusTypes'
    BY <1>1, <1>2, <1>3 DEF BusTypes
<1>5. Remembers' /\ ~echoed'
    BY <1>1 DEF BusInv, Remembers
<1> QED
    BY <1>1, <1>4, <1>5 DEF BusInv

\* New signals behind the old ones, no earlier in the order.
LEMMA OwnSignalsQueue ==
    ASSUME OwnSignals, bus \in Seq(Signals), NEW q \in Seq(Signals), bus' = bus \o q,
           nm'.path = nm.path, UNCHANGED <<told, cache>>,
           \A j \in 1..Len(q) : q[j].path = nm.path,
           \A i, j \in 1..Len(q) : i <= j => Rank(EventType(q[i])) <= Rank(EventType(q[j])),
           \A i \in 1..Len(bus), j \in 1..Len(q) : Rank(Ahead(i)) <= Rank(EventType(q[j])),
           told # "nothing" => \A j \in 1..Len(q) : Rank(told) <= Rank(EventType(q[j]))
    PROVE  OwnSignals'
<1>1. /\ Len(bus) \in Nat /\ Len(q) \in Nat /\ Len(bus') = Len(bus) + Len(q)
      /\ \A i \in 1..Len(bus) : bus'[i] = bus[i]
      /\ \A j \in 1..Len(q) : bus'[Len(bus) + j] = q[j]
      /\ \A i \in 1..Len(bus') :
            i \in 1..Len(bus) \/ \E j \in 1..Len(q) : i = Len(bus) + j
    BY Queued
<1>2. \A i \in 1..Len(bus') : bus'[i].path = nm'.path
    BY <1>1 DEF OwnSignals
<1>3. ASSUME NEW i \in 1..Len(bus'), NEW j \in 1..Len(bus'), i <= j
      PROVE  Rank(Ahead(i)') <= Rank(Ahead(j)')
    <2>1. CASE i \in 1..Len(bus) /\ j \in 1..Len(bus)
        BY <1>1, <1>3, <2>1 DEF OwnSignals, Ahead
    <2>2. CASE i \in 1..Len(bus) /\ \E k \in 1..Len(q) : j = Len(bus) + k
        BY <1>1, <2>2 DEF Ahead
    <2>3. CASE \E k \in 1..Len(q) : i = Len(bus) + k
        <3>1. PICK k \in 1..Len(q) : i = Len(bus) + k
            BY <2>3
        <3>2. j \notin 1..Len(bus)
            BY <1>1, <1>3, <3>1
        <3>3. PICK l \in 1..Len(q) : j = Len(bus) + l
            BY <1>1, <3>2
        <3>4. k <= l
            BY <1>1, <1>3, <3>1, <3>3
        <3> QED
            BY <1>1, <3>1, <3>3, <3>4 DEF Ahead
    <2> QED
        BY <1>1, <2>1, <2>2, <2>3
<1>4. ASSUME told # "nothing", NEW i \in 1..Len(bus')
      PROVE  Rank(told) <= Rank(Ahead(i)')
    BY <1>1, <1>4 DEF OwnSignals, Ahead
<1> QED
    BY <1>2, <1>3, <1>4 DEF OwnSignals

\* A new activation that the monitor sees from its start finds the bus empty and
\* nothing within the window.
LEMMA ActivatesKeeps ==
    ASSUME BusInv, NmActivates
    PROVE  BusInv'
<1> DEFINE new == [nm EXCEPT !.phase = "activating", !.path = @ + 1, !.object = TRUE]
           q == <<Signal("vpn", 1), Signal("active", 1)>>
<1>1. /\ nm.phase = "down" /\ nm.path < MaxPaths /\ Announce(new, q)
      /\ watched' = (mon.at # "down" /\ nm.since >= Window) /\ told' = "nothing"
    BY DEF NmActivates
<1>2. /\ nm' = new /\ bus' = IF mon.at = "down" THEN bus ELSE bus \o q
      /\ UNCHANGED <<mon, cache, recent, pruned, sent, echoed, dropped>>
    BY <1>1 DEF Announce
<1>3. /\ BusTypes /\ bus \in Seq(Signals)
      /\ nm \in [phase : {"down", "activating", "activated"}, path : 0..MaxPaths,
                 object : BOOLEAN, since : 0..Long]
    BY DEF BusInv, BusTypes
<1>4. /\ new \in [phase : {"down", "activating", "activated"}, path : 0..MaxPaths,
                  object : BOOLEAN, since : 0..Long]
      /\ new.object /\ new.phase = "activating" /\ new.path \in 0..MaxPaths
    <2>1. nm.path < MaxPaths
        BY <1>1
    <2>2. nm.path + 1 \in 0..MaxPaths
        BY <1>3, <2>1, Delays
    <2> QED
        BY <1>3, <2>2
<1> HIDE DEF new
<1>5. /\ q \in Seq(Signals) /\ Len(q) = 2
      /\ \A j \in 1..2 : q[j].path = new.path /\ EventType(q[j]) = "activating"
    <2>1. /\ Signal("vpn", 1) \in Signals /\ Signal("active", 1) \in Signals
          /\ Signal("vpn", 1).path = new.path /\ Signal("active", 1).path = new.path
        BY <1>2, <1>4 DEF Signal, Signals
    <2>2. EventType(Signal("vpn", 1)) = "activating" /\ EventType(Signal("active", 1)) = "activating"
        BY Heard DEF Signal
    <2> QED
        BY <2>1, <2>2
<1> HIDE DEF q
<1>6. /\ BusTypes' /\ Remembers' /\ ~echoed'
      /\ mon'.at = "down" => bus' = <<>> /\ ~watched'
      /\ mon'.at # "listening" => told' = "nothing"
    BY <1>1, <1>4, <1>5, AnnounceKeeps
<1>7. Settled'
    BY <1>2, <1>4 DEF Settled
<1>8. ASSUME Prompt, watched' PROVE Follows'
    <2>1. bus = <<>> /\ bus' = bus \o q /\ \A t : ~Duplicate(t)'
        <3>1. nm.since >= Window /\ mon.at # "down" /\ nm.since \in 0..Long
            BY <1>1, <1>3, <1>8
        <3>2. Settled /\ \A t \in DOMAIN recent : recent[t] \in 0..Long
            BY <1>3, <1>8 DEF BusInv, BusTypes
        <3>3. bus = <<>>
            BY <1>1, <3>1, <3>2, Delays DEF Settled
        <3>4. \A t \in DOMAIN recent : ~(recent[t] < Window)
            BY <1>1, <3>1, <3>2, Delays DEF Settled
        <3> QED
            BY <1>2, <3>1, <3>3, <3>4 DEF Duplicate
    <2>2. Len(bus') = 2 /\ \A i \in 1..2 : bus'[i] = q[i]
        BY <1>3, <1>5, <2>1, Queued
    <2>3. \A i \in 1..2 : bus'[i].path = nm'.path /\ Ahead(i)' = "activating"
        BY <1>2, <1>5, <2>2 DEF Ahead
    <2>4. OwnSignals'
        BY <1>1, <2>2, <2>3, Ranks DEF OwnSignals
    <2>5. bus' # <<>>
        BY <2>2
    <2> QED
        BY <1>1, <1>2, <1>4, <2>1, <2>2, <2>3, <2>4, <2>5, Ranks DEF Follows
<1> QED
    BY <1>6, <1>7, <1>8 DEF BusInv

\* The steps of an activation under way.
LEMMA ProceedsKeeps ==
    ASSUME BusInv, NmProceeds \/ NmUp
    PROVE  BusInv'
<1> DEFINE new == IF NmUp THEN [nm EXCEPT !.phase = "activated"] ELSE nm
           q == IF NmUp THEN <<Signal("vpn", 5), Signal("active", 2)>> ELSE <<Signal("vpn", 3)>>
           type == IF NmUp THEN "activated" ELSE "activating"
<1>1. nm.phase = "activating" /\ Announce(new, q) /\ UNCHANGED <<told, watched>>
    BY DEF NmProceeds, NmUp
<1>2. /\ nm' = new /\ bus' = IF mon.at = "down" THEN bus ELSE bus \o q
      /\ UNCHANGED <<mon, cache, recent, pruned, sent, echoed, dropped>>
    BY <1>1 DEF Announce
<1>3. BusTypes /\ bus \in Seq(Signals) /\ nm.object
    BY <1>1 DEF BusInv, BusTypes
<1>4. /\ new \in [phase : {"down", "activating", "activated"}, path : 0..MaxPaths,
                  object : BOOLEAN, since : 0..Long]
      /\ new.object /\ new.phase = type /\ new.path = nm.path
    BY <1>1, <1>3 DEF BusTypes
<1>5. /\ q \in Seq(Signals) /\ Len(q) >= 1 /\ Len(q) \in Nat
      /\ \A j \in 1..Len(q) : q[j].path = nm.path /\ EventType(q[j]) = type
    <2>1. \A i \in {"vpn", "active"}, n \in 1..7 :
              Signal(i, n) \in Signals /\ Signal(i, n).path = nm.path
        BY <1>2, <1>4 DEF Signal, Signals
    <2>2. /\ EventType(Signal("vpn", 5)) = "activated" /\ EventType(Signal("active", 2)) = "activated"
          /\ EventType(Signal("vpn", 3)) = "activating"
        BY Heard DEF Signal
    <2>3. CASE NmUp
        BY <2>1, <2>2, <2>3
    <2>4. CASE ~NmUp
        BY <2>1, <2>2, <2>4
    <2> QED
        BY <2>3, <2>4
<1>6. type \in {"activating", "activated"}
    OBVIOUS
<1> HIDE DEF new, q, type
<1>7. /\ BusTypes' /\ Remembers' /\ ~echoed'
      /\ mon'.at = "down" => bus' = <<>> /\ ~watched'
      /\ mon'.at # "listening" => told' = "nothing"
    BY <1>1, <1>3, <1>4, <1>5, AnnounceKeeps DEF BusInv, BusTypes
<1>8. Settled'
    BY <1>2, <1>4, <1>6 DEF Settled
<1>9. ASSUME Follows, mon.at # "down" PROVE Follows'
    <2>1. /\ OwnSignals /\ told \in {"nothing", "activating"}
          /\ \A i \in 1..Len(bus) : Rank(Ahead(i)) = 1
          /\ \A t \in {"activated", "failed", "deactivated"} : ~Duplicate(t)
          /\ told = "activating" \/ (bus # <<>> /\ ~Duplicate("activating"))
        BY <1>1, <1>9 DEF Follows
    <2>2. bus' = bus \o q /\ \A t : Duplicate(t)' = Duplicate(t)
        BY <1>2, <1>9 DEF Duplicate
    <2>3. OwnSignals'
        <3>1. \A j \in 1..Len(q) : 1 <= Rank(EventType(q[j])) /\ Rank(EventType(q[j])) = Rank(type)
            BY <1>5, <1>6, Ranks
        <3>2. told # "nothing" => Rank(told) = 1
            BY <2>1, Ranks
        <3>3. Rank(type) \in 1..3
            BY Ranks
        <3>4. /\ \A j \in 1..Len(q) : q[j].path = nm.path
              /\ \A i, j \in 1..Len(q) :
                    i <= j => Rank(EventType(q[i])) <= Rank(EventType(q[j]))
            BY <1>5, <3>1, <3>3
        <3>5. \A i \in 1..Len(bus), j \in 1..Len(q) : Rank(Ahead(i)) <= Rank(EventType(q[j]))
            BY <2>1, <3>1
        <3>6. told # "nothing" => \A j \in 1..Len(q) : Rank(told) <= Rank(EventType(q[j]))
            BY <3>1, <3>2
        <3>7. nm'.path = nm.path /\ UNCHANGED <<told, cache>>
            BY <1>1, <1>2, <1>4
        <3> QED
            BY <1>3, <1>5, <2>1, <2>2, <3>4, <3>5, <3>6, <3>7, OwnSignalsQueue
    <2>4. /\ bus' # <<>> /\ Len(bus) + 1 \in 1..Len(bus') /\ EventType(bus'[Len(bus) + 1]) = type
          /\ \A i \in 1..Len(bus') : Ahead(i)' \in {"activating", type}
        <3>1. /\ Len(bus) \in Nat /\ Len(bus') = Len(bus) + Len(q)
              /\ \A i \in 1..Len(bus) : bus'[i] = bus[i]
              /\ \A j \in 1..Len(q) : bus'[Len(bus) + j] = q[j]
              /\ \A i \in 1..Len(bus') :
                    i \in 1..Len(bus) \/ \E j \in 1..Len(q) : i = Len(bus) + j
            BY <1>3, <1>5, <2>2, Queued
        <3>2. \A i \in 1..Len(bus) : Ahead(i) = "activating"
            BY <2>1, Ranks
        <3>3. 1 \in 1..Len(q) /\ Len(bus) + 1 \in 1..Len(bus')
            BY <1>5, <3>1
        <3>4. bus' # <<>>
            BY <3>3
        <3>5. EventType(bus'[Len(bus) + 1]) = type
            BY <1>5, <3>1, <3>3
        <3>6. ASSUME NEW i \in 1..Len(bus') PROVE Ahead(i)' \in {"activating", type}
            <4>1. CASE i \in 1..Len(bus)
                BY <3>1, <3>2, <4>1 DEF Ahead
            <4>2. CASE \E j \in 1..Len(q) : i = Len(bus) + j
                BY <1>5, <3>1, <4>2 DEF Ahead
            <4> QED
                BY <3>1, <4>1, <4>2
        <3> QED
            BY <3>3, <3>4, <3>5, <3>6
    <2>5. CASE type = "activating"
        BY <1>1, <1>2, <1>4, <2>1, <2>2, <2>3, <2>4, <2>5, Ranks DEF Follows
    <2>6. CASE type = "activated"
        <3>1. nm'.phase = "activated" /\ told' = told
            BY <1>1, <1>2, <1>4, <2>6
        <3>2. \A i \in 1..Len(bus') : Rank(Ahead(i)') <= 2
            BY <2>4, <2>6, Ranks
        <3>3. ~Duplicate("activated")' /\ \E i \in 1..Len(bus') : Ahead(i)' = "activated"
            BY <2>1, <2>2, <2>4, <2>6 DEF Ahead
        <3> QED
            BY <2>1, <2>2, <2>3, <3>1, <3>2, <3>3 DEF Follows
    <2> QED
        BY <1>6, <2>5, <2>6
<1> QED
    BY <1>1, <1>2, <1>7, <1>8, <1>9 DEF BusInv

\* An activation ends: its last signals come behind all others, and the one of
\* the vpn interface is no duplicate.
LEMMA DownKeeps ==
    ASSUME BusInv, NmFails \/ NmDown
    PROVE  BusInv'
<1> DEFINE new == [nm EXCEPT !.phase = "down", !.since = 0]
           q == IF NmFails THEN <<Signal("vpn", 6), Signal("active", 4)>>
                ELSE <<Signal("active", 3), Signal("vpn", 7), Signal("active", 4)>>
           e == IF NmFails THEN 1 ELSE 2
<1>1. /\ nm.phase \in {"activating", "activated"} /\ Announce(new, q)
      /\ UNCHANGED <<told, watched>>
    BY DEF NmFails, NmDown
<1>2. /\ nm' = new /\ bus' = IF mon.at = "down" THEN bus ELSE bus \o q
      /\ UNCHANGED <<mon, cache, recent, pruned, sent, echoed, dropped>>
    BY <1>1 DEF Announce
<1>3. /\ BusTypes /\ bus \in Seq(Signals)
      /\ nm \in [phase : {"down", "activating", "activated"}, path : 0..MaxPaths,
                 object : BOOLEAN, since : 0..Long]
    BY DEF BusInv, BusTypes
<1>4. /\ new \in [phase : {"down", "activating", "activated"}, path : 0..MaxPaths,
                  object : BOOLEAN, since : 0..Long]
      /\ new.phase = "down" /\ new.path = nm.path /\ new.since = 0
    <2>1. 0 \in 0..Long
        BY Delays
    <2> QED
        BY <1>3, <2>1
<1> HIDE DEF new
<1>5. /\ q \in Seq(Signals) /\ Len(q) \in Nat /\ e \in 1..Len(q)
      /\ \A j \in 1..Len(q) : q[j].path = nm.path /\ Rank(EventType(q[j])) = 3
      /\ q[e].interface = "vpn" /\ EventType(q[e]) \in {"failed", "deactivated"}
    <2>1. \A i \in {"vpn", "active"}, n \in 1..7 :
              /\ Signal(i, n) \in Signals
              /\ Signal(i, n).path = nm.path /\ Signal(i, n).interface = i
        BY <1>2, <1>3, <1>4 DEF Signal, Signals
    <2>2. /\ EventType(Signal("vpn", 6)) = "failed" /\ EventType(Signal("vpn", 7)) = "deactivated"
          /\ EventType(Signal("active", 3)) = "none"
          /\ EventType(Signal("active", 4)) = "deactivated"
        BY Heard DEF Signal
    <2>3. CASE NmFails
        BY SMTT(20), <2>1, <2>2, <2>3, Ranks
    <2>4. CASE ~NmFails
        BY SMTT(20), <2>1, <2>2, <2>4, Ranks
    <2> QED
        BY <2>3, <2>4
<1> HIDE DEF q, e
<1>6. /\ BusTypes' /\ Remembers' /\ ~echoed'
      /\ mon'.at = "down" => bus' = <<>> /\ ~watched'
      /\ mon'.at # "listening" => told' = "nothing"
    BY <1>1, <1>3, <1>4, <1>5, AnnounceKeeps DEF BusInv, BusTypes
<1>7. Settled'
    BY <1>2, <1>3, <1>4, Delays DEF BusTypes, Settled
<1>8. ASSUME Follows, mon.at # "down" PROVE Follows'
    <2>1. /\ OwnSignals /\ \A t \in {"failed", "deactivated"} : ~Duplicate(t)
        BY <1>1, <1>8 DEF Follows
    <2>2. bus' = bus \o q /\ \A t : Duplicate(t)' = Duplicate(t)
        BY <1>2, <1>8 DEF Duplicate
    <2>3. OwnSignals'
        <3>1. /\ \A j \in 1..Len(q) : q[j].path = nm.path
              /\ \A i, j \in 1..Len(q) :
                    i <= j => Rank(EventType(q[i])) <= Rank(EventType(q[j]))
            BY <1>5
        <3>2. \A i \in 1..Len(bus), j \in 1..Len(q) : Rank(Ahead(i)) <= Rank(EventType(q[j]))
            BY <1>5, Ranks
        <3>3. told # "nothing" => \A j \in 1..Len(q) : Rank(told) <= Rank(EventType(q[j]))
            BY <1>5, Ranks
        <3>4. nm'.path = nm.path /\ UNCHANGED <<told, cache>>
            BY <1>1, <1>2, <1>4
        <3> QED
            BY <1>3, <1>5, <2>1, <2>2, <3>1, <3>2, <3>3, <3>4, OwnSignalsQueue
    <2>4. EndToCome'
        <3>1. PICK t \in {"failed", "deactivated"} : t = EventType(q[e])
            BY <1>5
        <3>2. PICK i \in 1..Len(bus') : bus'[i] = q[e]
            <4>1. bus'[Len(bus) + e] = q[e] /\ Len(bus) + e \in 1..Len(bus')
                BY <1>3, <1>5, <2>2, Queued
            <4> QED
                BY <4>1
        <3>3. /\ bus'[i].interface = "vpn" /\ Ahead(i)' = t
              /\ ~Duplicate(t)'
            BY <1>5, <2>1, <2>2, <3>1, <3>2 DEF Ahead
        <3> QED
            BY <3>3 DEF EndToCome, Duplicate
    <2> QED
        BY <1>2, <1>4, <2>3, <2>4 DEF Follows
<1> QED
    BY <1>1, <1>2, <1>6, <1>7, <1>8 DEF BusInv

\* The object goes, without a signal.
LEMMA RemovesKeeps ==
    ASSUME BusInv, NmRemoves
    PROVE  BusInv'
<1> DEFINE new == [nm EXCEPT !.object = FALSE]
<1>1. nm.phase = "down" /\ Announce(new, <<>>) /\ UNCHANGED <<told, watched>>
    BY DEF NmRemoves
<1>2. /\ BusTypes /\ bus \in Seq(Signals)
      /\ nm \in [phase : {"down", "activating", "activated"}, path : 0..MaxPaths,
                 object : BOOLEAN, since : 0..Long]
    BY DEF BusInv, BusTypes
<1>3. /\ new \in [phase : {"down", "activating", "activated"}, path : 0..MaxPaths,
                  object : BOOLEAN, since : 0..Long]
      /\ new.phase = nm.phase /\ new.path = nm.path /\ new.since = nm.since
    BY <1>2
<1> HIDE DEF new
<1>4. <<>> \in Seq(Signals) /\ bus \o <<>> = bus
    BY <1>2
<1>5. /\ nm' = new /\ bus' = bus
      /\ UNCHANGED <<mon, cache, recent, pruned, sent, echoed, dropped>>
    BY <1>1, <1>4 DEF Announce
<1>6. /\ BusTypes' /\ Remembers' /\ ~echoed'
      /\ mon'.at = "down" => bus' = <<>> /\ ~watched'
      /\ mon'.at # "listening" => told' = "nothing"
    BY <1>1, <1>2, <1>3, <1>4, AnnounceKeeps DEF BusInv, BusTypes
<1>7. Follows => Follows'
    BY <1>1, <1>3, <1>5, FollowsStays DEF Duplicate
<1>8. Settled => Settled'
    BY <1>3, <1>5 DEF Settled
<1> QED
    BY <1>1, <1>5, <1>6, <1>7, <1>8 DEF BusInv

\* The head of the stream is taken.
LEMMA Taken ==
    ASSUME NEW b \in Seq(Signals), b # <<>>
    PROVE  /\ Head(b) = b[1] /\ Head(b) \in Signals
           /\ Len(b) \in Nat /\ 1 \in 1..Len(b) /\ Tail(b) \in Seq(Signals)
           /\ \A i \in 1..Len(Tail(b)) : Tail(b)[i] = b[i + 1] /\ i + 1 \in 1..Len(b)
           /\ \A i \in 1..Len(b) : i # 1 => i - 1 \in 1..Len(Tail(b)) /\ Tail(b)[i - 1] = b[i]
<1> HIDE DEF Signals
<1>1. /\ Len(b) \in Nat /\ 1 <= Len(b)
      /\ Tail(b) \in Seq(Signals) /\ Len(Tail(b)) = Len(b) - 1
      /\ \A i \in 1..Len(Tail(b)) : Tail(b)[i] = b[i + 1]
    OBVIOUS
<1>2. Head(b) = b[1] /\ Head(b) \in Signals
    BY <1>1
<1>3. \A i \in 1..Len(b) : i # 1 => i - 1 \in 1..Len(Tail(b)) /\ Tail(b)[i - 1] = b[i]
    <2> SUFFICES ASSUME NEW i \in 1..Len(b), i # 1
                 PROVE  i - 1 \in 1..Len(Tail(b)) /\ Tail(b)[i - 1] = b[i]
        OBVIOUS
    <2>1. i - 1 \in 1..Len(Tail(b)) /\ (i - 1) + 1 = i
        BY <1>1
    <2> QED
        BY <1>1, <2>1
<1> QED
    BY <1>1, <1>2, <1>3

\* The steps common to all signals: what remains is in order, and the events
\* that remain are those that were behind the first.
LEMMA HandleTakes ==
    ASSUME BusInv, Handle
    PROVE  /\ mon.at = "listening" /\ bus # <<>> /\ UNCHANGED <<nm, mon, watched>>
           /\ Len(bus) \in Nat /\ 1 \in 1..Len(bus) /\ Head(bus) = bus[1]
           /\ bus' \in Seq(Signals)
           /\ \A i \in 1..Len(bus') : bus'[i] = bus[i + 1] /\ i + 1 \in 1..Len(bus)
           /\ \A i \in 1..Len(bus) : i # 1 => \E j \in 1..Len(bus') : bus'[j] = bus[i]
<1>1. bus \in Seq(Signals)
    BY DEF BusInv, BusTypes
<1>2. mon.at = "listening" /\ bus # <<>> /\ bus' = Tail(bus) /\ UNCHANGED <<nm, mon, watched>>
    BY DEF Handle
<1> QED
    BY <1>1, <1>2, Taken

\* An accepted event: remembered, sent, and no echo.
LEMMA AcceptKeeps ==
    ASSUME BusInv, Handle, NEW t \in Types, ~Duplicate(t), Accept(t)
    PROVE  BusTypes' /\ Remembers' /\ ~echoed' /\ (Prompt => Settled')
<1>1. BusTypes /\ Remembers /\ mon.at = "listening" /\ bus # <<>>
    BY HandleTakes DEF BusInv
<1>2. /\ DOMAIN recent' \subseteq Types /\ t \in DOMAIN recent' /\ recent'[t] = 0
      /\ \A u \in DOMAIN recent' : u # t => u \in DOMAIN recent /\ recent'[u] = recent[u]
      /\ \A u \in DOMAIN recent :
            u # t /\ recent[u] < Window => u \in DOMAIN recent' /\ recent'[u] = recent[u]
      /\ pruned' \in 0..Long
    BY <1>1, AcceptRemembers
<1>3. /\ sent' = [sent EXCEPT ![t] = 0] /\ echoed' = (echoed \/ sent[t] < Window)
      /\ \/ told' = t /\ dropped' = dropped
         \/ told' = told /\ dropped' = TRUE
    BY DEF Accept
<1>4. /\ sent' \in [Types -> 0..Long] /\ sent'[t] = 0
      /\ \A u \in Types : u # t => sent'[u] = sent[u]
    BY <1>1, <1>3, Delays DEF BusTypes
<1>5. \A u \in DOMAIN recent' : recent'[u] \in 0..Long
    BY <1>1, <1>2, Delays DEF BusTypes
<1>6. BusTypes'
    BY ZenonT(30), <1>1, <1>2, <1>3, <1>4, <1>5, HandleTakes DEF BusTypes
<1>7. Remembers'
    BY <1>1, <1>2, <1>4, HandleTakes DEF Remembers
<1>8. ~echoed'
    BY <1>1, <1>3 DEF BusInv, Remembers, Duplicate
<1>9. ASSUME Prompt PROVE Settled'
    <2>1. nm.phase = "down" => nm.since = 0
        BY <1>1, <1>9 DEF BusInv, Settled
    <2>2. nm' = nm
        BY HandleTakes
    <2> QED
        BY <1>5, <2>1, <2>2 DEF Settled
<1> QED
    BY <1>6, <1>7, <1>8, <1>9

\* An accepted event that is told keeps an activation followed.
LEMMA AcceptFollows ==
    ASSUME BusInv, Handle, Follows, NEW t \in Types, t = EventType(Head(bus)),
           ~Duplicate(t), Accept(t), ~dropped',
           t # "deactivated" => Head(bus).path \in cache'
    PROVE  Follows'
<1>1. /\ bus # <<>> /\ nm' = nm
      /\ Len(bus) \in Nat /\ 1 \in 1..Len(bus) /\ Head(bus) = bus[1]
      /\ \A i \in 1..Len(bus') : bus'[i] = bus[i + 1] /\ i + 1 \in 1..Len(bus)
      /\ \A i \in 1..Len(bus) : i # 1 => \E j \in 1..Len(bus') : bus'[j] = bus[i]
    BY HandleTakes
<1>2. told' = t
    BY DEF Accept
<1>3. \A u \in Types : u # t /\ ~Duplicate(u) => ~Duplicate(u)'
    BY AcceptRemembers DEF BusInv, Duplicate
<1>4. OwnSignals /\ t = Ahead(1) /\ bus[1].path = nm.path
    BY <1>1 DEF Follows, OwnSignals, Ahead
<1>5. \A i \in 1..Len(bus') : Ahead(i)' = Ahead(i + 1) /\ Rank(t) <= Rank(Ahead(i + 1))
    BY SMTT(20), <1>1, <1>4 DEF OwnSignals, Ahead
<1>6. OwnSignals'
    <2>1. \A i \in 1..Len(bus') : bus'[i].path = nm'.path
        BY <1>1, <1>4 DEF OwnSignals
    <2>2. \A i, j \in 1..Len(bus') : i <= j => Rank(Ahead(i)') <= Rank(Ahead(j)')
        BY SMTT(20), <1>1, <1>4, <1>5 DEF OwnSignals
    <2>3. told' \in {"activating", "activated"} => nm'.path \in cache'
        BY <1>1, <1>2, <1>4
    <2> QED
        BY <1>2, <1>5, <2>1, <2>2, <2>3 DEF OwnSignals
<1>7. CASE nm.phase = "activating"
    <2>1. /\ t = "activating"
          /\ \A i \in 1..Len(bus') : Rank(Ahead(i)') = 1
          /\ \A u \in {"activated", "failed", "deactivated"} : ~Duplicate(u)
        BY <1>1, <1>4, <1>5, <1>7, Ranks DEF Follows
    <2> QED
        BY <1>1, <1>2, <1>3, <1>6, <1>7, <2>1 DEF Follows, Types
<1>8. CASE nm.phase = "activated"
    <2>1. /\ t \in {"activating", "activated"}
          /\ \A i \in 1..Len(bus') : Rank(Ahead(i)') <= 2
          /\ \A u \in {"failed", "deactivated"} : ~Duplicate(u)
        <3>1. Rank(t) = 1 \/ Rank(t) = 2
            BY SMTT(20), <1>1, <1>4, <1>8, Ranks DEF Follows
        <3> QED
            BY <1>5, <1>1, <1>8, <3>1, Ranks DEF Follows
    <2>2. ASSUME t = "activating"
          PROVE  ~Duplicate("activated")' /\ \E j \in 1..Len(bus') : Ahead(j)' = "activated"
        <3>1. told # "activated"
            BY SMTT(20), <1>1, <1>4, <2>2, Ranks DEF OwnSignals
        <3>2. ~Duplicate("activated") /\ \E i \in 1..Len(bus) : Ahead(i) = "activated"
            BY <1>8, <3>1 DEF Follows
        <3> QED
            BY <1>1, <1>3, <1>4, <2>2, <3>2 DEF Ahead, Types
    <2> QED
        BY <1>1, <1>2, <1>3, <1>6, <1>8, <2>1, <2>2 DEF Follows, Types
<1>9. CASE nm.phase = "down"
    <2>1. CASE t \in {"failed", "deactivated"}
        <3>1. \A i \in 1..Len(bus') : Rank(Ahead(i)') = 3
            BY SMTT(20), <1>5, <2>1, Ranks
        <3> QED
            BY <1>1, <1>2, <1>6, <1>9, <2>1, <3>1 DEF Follows
    <2>2. CASE t \in {"activating", "activated"}
        <3>1. EndToCome
            BY SMTT(20), <1>1, <1>4, <1>9, <2>2, Ranks DEF Follows
        <3>2. PICK i \in 1..Len(bus) :
                  /\ bus[i].interface = "vpn" /\ Ahead(i) \in {"failed", "deactivated"}
                  /\ ~Duplicate(Ahead(i))
            BY <3>1 DEF EndToCome
        <3>3. i # 1
            BY <1>4, <2>2, <3>2
        <3>4. PICK j \in 1..Len(bus') : bus'[j] = bus[i]
            BY <1>1, <3>3
        <3>5. PICK u \in {"failed", "deactivated"} : u = Ahead(i)
            BY <3>2
        <3>6. ~Duplicate(u)' /\ Ahead(j)' = u /\ bus'[j].interface = "vpn"
            BY <1>3, <2>2, <3>2, <3>4, <3>5 DEF Ahead, Types
        <3>7. EndToCome'
            BY <3>6 DEF EndToCome, Duplicate
        <3> QED
            BY <1>1, <1>6, <1>9, <3>7 DEF Follows
    <2> QED
        BY <2>1, <2>2 DEF Types
<1> QED
    BY <1>7, <1>8, <1>9 DEF BusInv, BusTypes

\* A signal that is ignored was told before, says nothing, or comes from an
\* object that is gone and was never named.
LEMMA IgnoreFollows ==
    ASSUME BusInv, Handle, Follows,
           ~Named(Head(bus)) \/ EventType(Head(bus)) = "none" \/ Duplicate(EventType(Head(bus))),
           cache \subseteq cache', Ignore
    PROVE  Follows'
<1>1. /\ bus # <<>> /\ nm' = nm
      /\ Len(bus) \in Nat /\ 1 \in 1..Len(bus) /\ Head(bus) = bus[1]
      /\ \A i \in 1..Len(bus') : bus'[i] = bus[i + 1] /\ i + 1 \in 1..Len(bus)
      /\ \A i \in 1..Len(bus) : i # 1 => \E j \in 1..Len(bus') : bus'[j] = bus[i]
    BY HandleTakes
<1>2. told' = told /\ \A u : Duplicate(u)' = Duplicate(u)
    BY DEF Ignore, Duplicate
<1>3. OwnSignals /\ bus[1].path = nm.path
    BY <1>1 DEF Follows, OwnSignals
<1>4. \A i \in 1..Len(bus') : Ahead(i)' = Ahead(i + 1) /\ Rank(Ahead(1)) <= Rank(Ahead(i + 1))
    BY <1>1, <1>3 DEF OwnSignals, Ahead
<1>5. OwnSignals'
    <2>1. \A i \in 1..Len(bus') : bus'[i].path = nm'.path
        BY <1>1, <1>3 DEF OwnSignals
    <2>2. \A i, j \in 1..Len(bus') : i <= j => Rank(Ahead(i)') <= Rank(Ahead(j)')
        BY SMTT(20), <1>1, <1>3, <1>4 DEF OwnSignals
    <2>3. told # "nothing" => \A i \in 1..Len(bus') : Rank(told) <= Rank(Ahead(i)')
        BY <1>1, <1>3, <1>4 DEF OwnSignals
    <2> QED
        BY <1>1, <1>2, <1>3, <2>1, <2>2, <2>3 DEF OwnSignals
<1>6. nm.phase # "down" /\ Rank(Ahead(1)) <= 2 => Duplicate(Ahead(1))
    <2>1. nm.phase # "down" => Named(Head(bus))
        BY <1>1, <1>3 DEF BusInv, BusTypes, Named, Readable
    <2> QED
        BY <1>1, <2>1, Ranks DEF Ahead
<1>7. CASE nm.phase = "activating"
    <2>1. Ahead(1) = "activating" /\ \A i \in 1..Len(bus') : Rank(Ahead(i)') = 1
        BY <1>1, <1>4, <1>7, Ranks DEF Follows
    <2>2. told = "activating"
        BY <1>6, <1>7, <2>1, Ranks DEF Follows
    <2> QED
        BY <1>1, <1>2, <1>5, <1>7, <2>1, <2>2 DEF Follows
<1>8. CASE nm.phase = "activated"
    <2>1. Rank(Ahead(1)) <= 2 /\ \A i \in 1..Len(bus') : Rank(Ahead(i)') <= 2
        BY <1>1, <1>4, <1>8 DEF Follows
    <2>2. ASSUME told # "activated"
          PROVE  ~Duplicate("activated")' /\ \E j \in 1..Len(bus') : Ahead(j)' = "activated"
        <3>1. ~Duplicate("activated") /\ \E i \in 1..Len(bus) : Ahead(i) = "activated"
            BY <1>8, <2>2 DEF Follows
        <3>2. Ahead(1) # "activated"
            BY <1>6, <1>8, <2>1, <3>1
        <3> QED
            BY <1>1, <1>2, <3>1, <3>2 DEF Ahead
    <2> QED
        BY <1>1, <1>2, <1>5, <1>8, <2>1, <2>2 DEF Follows
<1>9. CASE nm.phase = "down"
    <2>1. CASE EndToCome
        <3>1. PICK i \in 1..Len(bus) :
                  /\ bus[i].interface = "vpn" /\ Ahead(i) \in {"failed", "deactivated"}
                  /\ ~Duplicate(Ahead(i))
            BY <2>1 DEF EndToCome
        <3>2. CASE i = 1
            <4>1. ~Named(Head(bus))
                BY <1>1, <3>1, <3>2 DEF Ahead
            <4>2. told \notin {"activating", "activated"}
                BY <1>1, <1>3, <3>1, <3>2, <4>1 DEF OwnSignals, Named
            <4>3. \A j \in 1..Len(bus') : Rank(Ahead(j)') = 3
                BY <1>4, <3>1, <3>2, Ranks
            <4> QED
                BY <1>1, <1>2, <1>5, <1>9, <4>2, <4>3 DEF Follows
        <3>3. CASE i # 1
            <4>1. PICK j \in 1..Len(bus') : bus'[j] = bus[i]
                BY <1>1, <3>3
            <4>2. PICK u \in {"failed", "deactivated"} : u = Ahead(i)
                BY <3>1
            <4>3. ~Duplicate(u)' /\ Ahead(j)' = u /\ bus'[j].interface = "vpn"
                BY <1>2, <3>1, <4>1, <4>2 DEF Ahead
            <4>4. EndToCome'
                BY <4>3 DEF EndToCome, Duplicate
            <4> QED
                BY <1>1, <1>5, <1>9, <4>4 DEF Follows
        <3> QED
            BY <3>2, <3>3
    <2>2. CASE ~EndToCome
        BY <1>1, <1>2, <1>4, <1>5, <1>9, <2>2 DEF Follows
    <2> QED
        BY <2>1, <2>2
<1> QED
    BY <1>7, <1>8, <1>9 DEF BusInv, BusTypes

\* The monitor handles a signal.
LEMMA HandleKeeps ==
    ASSUME BusInv, Handle
    PROVE  BusInv'
<1> DEFINE s == Head(bus)
           t == EventType(s)
           known == IF Named(s) THEN cache \cup {s.path} ELSE cache
<1>1. /\ mon'.at = "listening" /\ UNCHANGED <<nm, mon, watched>> /\ bus' \in Seq(Signals)
      /\ bus # <<>>
    BY HandleTakes
<1>2. CASE /\ Named(s) /\ t # "none" /\ ~Duplicate(t)
           /\ cache' = IF t = "deactivated" THEN known \ {s.path} ELSE known
           /\ Accept(t)
    <2>1. t \in Types
        BY <1>2, EventTypes
    <2>2. BusTypes' /\ Remembers' /\ ~echoed' /\ (Prompt => Settled')
        BY <1>2, <2>1, AcceptKeeps
    <2>3. t # "deactivated" => s.path \in cache'
        BY <1>2
    <2>4. dropped' = FALSE => dropped = FALSE
        BY <1>2 DEF Accept
    <2>5. ASSUME Follows, ~dropped' PROVE Follows'
        BY <1>2, <2>1, <2>3, <2>5, AcceptFollows
    <2> QED
        BY <1>1, <2>2, <2>4, <2>5 DEF BusInv, BusTypes
<1>3. CASE /\ ~Named(s) \/ t = "none" \/ Duplicate(t)
           /\ cache' = known
           /\ Ignore
    <2>1. UNCHANGED <<recent, pruned, sent, echoed, told, dropped>> /\ cache \subseteq cache'
        BY <1>3 DEF Ignore
    <2>2. BusTypes' /\ Remembers' /\ ~echoed'
        BY <1>1, <2>1 DEF BusInv, BusTypes, Remembers
    <2>3. Settled => Settled'
        BY <1>1, <2>1 DEF Settled
    <2>4. Follows => Follows'
        BY <1>3, <2>1, IgnoreFollows
    <2> QED
        BY <1>1, <2>1, <2>2, <2>3, <2>4 DEF BusInv
<1> QED
    BY <1>2, <1>3 DEF Handle

\* Every step of the monitor, of its loop and of NetworkManager.
LEMMA BusStep == BusInv /\ [MonitorNext]_monitorVars => BusInv'
<1> SUFFICES ASSUME BusInv, [MonitorNext]_monitorVars PROVE BusInv'
    OBVIOUS
<1>1. CASE UNCHANGED monitorVars
    <2>1. UNCHANGED <<nm, bus, mon, cache, recent, pruned, told, sent, echoed, watched, dropped>>
        BY <1>1 DEF monitorVars
    <2>2. Follows => Follows'
        BY <2>1, FollowsStays DEF Duplicate
    <2> QED
        BY <2>1, <2>2 DEF BusInv, BusTypes, Remembers, Settled
<1>2. CASE MonitorNext
    BY <1>2, ActivatesKeeps, ProceedsKeeps, DownKeeps, RemovesKeeps, LifeKeeps,
       HandleKeeps, TimeKeeps DEF MonitorNext
<1> QED
    BY <1>1, <1>2

\* The invariant holds from the start of the first monitor on.
LEMMA BusAlways == MonitorSpec => []BusInv
<1>1. ASSUME MonitorInit PROVE BusInv
    <2>1. /\ nm = [phase |-> "down", path |-> 0, object |-> FALSE, since |-> Long]
          /\ mon = [at |-> "down", since |-> Long] /\ bus = <<>>
          /\ pruned = Long /\ told = "nothing" /\ sent = [u \in Types |-> Long]
          /\ echoed = FALSE /\ watched = FALSE /\ dropped = FALSE
        BY <1>1 DEF MonitorInit
    <2>2. DOMAIN recent = {}
        <3>1. DOMAIN <<>> = {}
            OBVIOUS
        <3> QED
            BY <1>1, <3>1 DEF MonitorInit
    <2>3. bus \in Seq(Signals)
        BY SMTT(20), <2>1
    <2>4. BusTypes
        <3>1. /\ nm \in [phase : {"down", "activating", "activated"}, path : 0..MaxPaths,
                         object : BOOLEAN, since : 0..Long]
              /\ nm.phase = "down"
            BY SMTT(20), <2>1, Delays
        <3>2. mon \in [at : {"down", "subscribed", "listening"}, since : 0..Long]
            BY <2>1, Delays
        <3>3. sent \in [Types -> 0..Long] /\ pruned \in 0..Long
            BY SMTT(20), <2>1, Delays
        <3>4. told = "nothing" /\ watched = FALSE /\ dropped = FALSE
            BY <2>1
        <3> QED
            BY <2>2, <2>3, <3>1, <3>2, <3>3, <3>4 DEF BusTypes
    <2>5. Remembers /\ Settled
        BY SMTT(20), <2>1, <2>2, Delays DEF Remembers, Settled
    <2> QED
        BY <2>1, <2>4, <2>5 DEF BusInv
<1> QED
    BY <1>1, BusStep, PTL DEF MonitorSpec

\* Two events of one kind about a profile are the deduplication window apart,
\* whatever should_process_event swept and however often the monitor was
\* replaced: the loop of main.rs sleeps at least the window between two.
THEOREM NoEchoHolds == MonitorSpec => []NoEcho
<1>1. BusInv => NoEcho
    BY DEF BusInv, NoEcho
<1> QED
    BY <1>1, BusAlways, PTL

\* Of an activation that the monitor saw from its start, the supervisor is told
\* the phase it is in, once its signals are handled (handle_vpn_state_changed and
\* handle_active_state_changed, in time and with room in the channel).
THEOREM LastWordToldHolds == MonitorSpec => []LastWordTold
<1>1. ASSUME BusInv, mon.at = "listening", bus = <<>>, watched, ~dropped, Prompt
      PROVE  IF nm.phase = "down" THEN told \in {"nothing", "failed", "deactivated"}
                                  ELSE told = nm.phase
    <2>1. Follows /\ ~\E i \in 1..Len(bus) : TRUE
        BY <1>1 DEF BusInv
    <2>2. /\ nm.phase \in {"down", "activating", "activated"}
          /\ told \in {"activating", "activated", "failed", "deactivated", "nothing"}
        BY <1>1 DEF BusInv, BusTypes, Types
    <2> QED
        BY <1>1, <2>1, <2>2 DEF Follows, EndToCome
<1>2. BusInv => LastWordTold
    BY <1>1 DEF LastWordTold
<1> QED
    BY <1>2, BusAlways, PTL
=============================================================================
