-------------------------------- MODULE Ipc --------------------------------
(***************************************************************************)
(* IpcServer of src/ipc/server.rs: the connections, the task that handles  *)
(* each of them, and the supervisor they share, which runs one command at  *)
(* a time.  A tick of time passes while the supervisor works.              *)
(***************************************************************************)
EXTENDS Naturals, Sequences, FiniteSets

CONSTANTS
    Conns,          \* connections that clients make, each once
    NoConn,
    LineKinds,      \* what each client writes: a subset of AllKinds
    MaxLines,       \* bound: how many lines each client writes
    MaxCommands,    \* MAX_COMMANDS_PER_CONNECTION
    MaxConns,       \* MAX_CONCURRENT_CONNECTIONS
    QueueCap,       \* capacity of the channel to the supervisor
    Worst,          \* WORST_CASE_SWITCH_SECS, in ticks
    Limit,          \* SUPERVISOR_RESPONSE_TIMEOUT_SECS, in ticks
    OwnWork         \* does the supervisor do anything but commands?

\* A command for the supervisor, a read-only one, a line that does not parse or
\* validate, an empty one, one over 64 kB, a Hello with this or another version.
AllKinds == {"command", "status", "bad", "blank", "big", "hello", "oldhello"}

ASSUME IpcAssumption ==
    /\ NoConn \notin Conns /\ IsFiniteSet(Conns)
    /\ LineKinds \in [Conns -> SUBSET AllKinds] /\ MaxLines \in [Conns -> Nat]
    /\ {MaxCommands, MaxConns, QueueCap, Worst} \subseteq Nat \ {0}
    /\ Limit \in Nat /\ Limit > Worst /\ OwnWork \in BOOLEAN

VARIABLES
    task,      \* per connection: pc of its task, lines read, commands counted, first
    lines,     \* what its client wrote
    answers,   \* what its client got: the line an answer is to, the line whose
               \* outcome it reports, and the kind of answer
    there,     \* is its client still at the other end?
    slot,      \* the response channel: line of the reply in it, or 0
    wait,      \* ticks since its command was queued, and whether the supervisor
               \* has had anything else to do since
    permits,   \* permits left in the semaphore
    queue,     \* commands sent to the supervisor
    sup        \* the command it runs, or none, whether it is busy, for how long

vars == <<task, lines, answers, there, slot, wait, permits, queue, sup>>

Pcs == {"new", "read", "queueing", "waiting", "rejected", "closed"}
Open == {"read", "queueing", "waiting"}

IdleSup == [conn |-> NoConn, line |-> 0, busy |-> FALSE, spent |-> 0]

Init ==
    /\ task = [c \in Conns |-> [pc |-> "new", read |-> 0, count |-> 0, first |-> TRUE]]
    /\ lines = [c \in Conns |-> <<>>] /\ answers = [c \in Conns |-> <<>>]
    /\ there = [c \in Conns |-> TRUE]
    /\ slot = [c \in Conns |-> 0]
    /\ wait = [c \in Conns |-> [age |-> 0, other |-> FALSE]]
    /\ permits = MaxConns /\ queue = <<>> /\ sup = IdleSup

----------------------------------------------------------------------------
(* Clients *)

\* A client writes a line; it need not have read the answer to the one before.
WriteLine(c) ==
    /\ there[c] /\ task[c].pc \in Open /\ Len(lines[c]) < MaxLines[c]
    /\ \E k \in LineKinds[c] : lines' = [lines EXCEPT ![c] = Append(@, k)]
    /\ UNCHANGED <<task, answers, there, slot, wait, permits, queue, sup>>

\* It has what it wanted, or gives up: its own timeout, Ctrl-C.
HangUp(c) ==
    /\ there[c] /\ task[c].pc \in Open
    /\ there' = [there EXCEPT ![c] = FALSE]
    /\ UNCHANGED <<task, lines, answers, slot, wait, permits, queue, sup>>

----------------------------------------------------------------------------
(* The accept loop and the connection tasks *)

Accept(c) ==
    /\ task[c].pc = "new" /\ permits > 0
    /\ permits' = permits - 1
    /\ task' = [task EXCEPT ![c].pc = "read"]
    /\ UNCHANGED <<lines, answers, there, slot, wait, queue, sup>>

\* try_acquire_owned fails: the stream is dropped.
Reject(c) ==
    /\ task[c].pc = "new" /\ permits = 0
    /\ task' = [task EXCEPT ![c].pc = "rejected"]
    /\ UNCHANGED <<lines, answers, there, slot, wait, permits, queue, sup>>

\* Mutant of Ended: an early return skips drop(permit).
EndedKeepsPermit(c, t) == task' = [task EXCEPT ![c] = [t EXCEPT !.pc = "closed"]] /\ UNCHANGED permits

\* handle_connection returns and its permit is dropped.
Ended(c, t) == task' = [task EXCEPT ![c] = [t EXCEPT !.pc = "closed"]] /\ permits' = permits + 1

Eof(c) ==
    /\ task[c].pc = "read" /\ ~there[c] /\ task[c].read = Len(lines[c])
    /\ Ended(c, task[c])
    /\ UNCHANGED <<lines, answers, there, slot, wait, queue, sup>>

\* The response is written, unless the client has left: then the write fails and
\* the task ends, as it does after the answers that close the connection.
Respond(c, t, of, what) ==
    /\ answers' = IF there[c]
                  THEN [answers EXCEPT ![c] = Append(@, [to |-> t.read, of |-> of, what |-> what])]
                  ELSE answers
    /\ IF there[c] /\ what \notin {"toomany", "mismatch"}
       THEN task' = [task EXCEPT ![c] = [t EXCEPT !.pc = "read"]] /\ UNCHANGED permits
       ELSE Ended(c, t)

\* Mutant of Local: status is forwarded like any command.
LocalNoStatus(k, first) ==
    CASE k \in {"bad", "big"} -> "error"
      [] k = "hello" /\ first -> "hello"
      [] k = "oldhello" /\ first -> "mismatch"
      [] OTHER -> "forward"

\* What the task answers by itself: an error, the handshake, serve_read_only.
Local(k, first) ==
    CASE k \in {"bad", "big"} -> "error"
      [] k = "hello" /\ first -> "hello"
      [] k = "oldhello" /\ first -> "mismatch"
      [] k = "status" -> "state"
      [] OTHER -> "forward"

\* The next line.  One over the limit is answered before it is counted, an empty
\* one is counted and not answered; a line that is a command ends `first`.
ReadLine(c) ==
    LET n == task[c].read + 1
        k == lines[c][n]
        m == task[c].count + IF k = "big" THEN 0 ELSE 1
        what == IF m > MaxCommands THEN "toomany" ELSE Local(k, task[c].first)
        t == [pc |-> "read", read |-> n, count |-> m,
              first |-> task[c].first /\ k \in {"bad", "big", "blank"}]
    IN  /\ task[c].pc = "read" /\ task[c].read < Len(lines[c])
        /\ IF what = "toomany" \/ (k # "blank" /\ what # "forward")
           THEN Respond(c, t, n, what)
           ELSE /\ task' = [task EXCEPT ![c] =
                               [t EXCEPT !.pc = IF k = "blank" THEN "read" ELSE "queueing"]]
                /\ UNCHANGED <<answers, permits>>
        /\ UNCHANGED <<lines, there, slot, wait, queue, sup>>

\* command_tx.send with a fresh response channel: it waits, without a timeout,
\* for room in the queue.
Enqueue(c) ==
    /\ task[c].pc = "queueing" /\ Len(queue) < QueueCap
    /\ queue' = Append(queue, [conn |-> c, line |-> task[c].read])
    /\ task' = [task EXCEPT ![c].pc = "waiting"]
    /\ slot' = [slot EXCEPT ![c] = 0]
    /\ wait' = [wait EXCEPT ![c] = [age |-> 0, other |-> sup.busy \/ queue # <<>>]]
    /\ UNCHANGED <<lines, answers, there, permits, sup>>

Receive(c) ==
    /\ task[c].pc = "waiting" /\ slot[c] # 0
    /\ Respond(c, task[c], slot[c], "done")
    /\ slot' = [slot EXCEPT ![c] = 0]
    /\ UNCHANGED <<lines, there, wait, queue, sup>>

\* Mutant of TimeOut: the limit is the worst case less a tick.
TimeOutEarly(c) ==
    /\ task[c].pc = "waiting" /\ slot[c] = 0 /\ wait[c].age >= Worst - 1
    /\ Respond(c, task[c], task[c].read, "timeout")
    /\ UNCHANGED <<lines, there, slot, wait, queue, sup>>

TimeOut(c) ==
    /\ task[c].pc = "waiting" /\ slot[c] = 0 /\ wait[c].age >= Limit
    /\ Respond(c, task[c], task[c].read, "timeout")
    /\ UNCHANGED <<lines, there, slot, wait, queue, sup>>

Task(c) == Accept(c) \/ Reject(c) \/ Eof(c) \/ ReadLine(c) \/ Enqueue(c)
               \/ Receive(c) \/ TimeOut(c)

----------------------------------------------------------------------------
(* The supervisor and the clock *)

\* Whoever else is waiting now waits behind this.
Delays(c) == wait' = [d \in Conns |-> [wait[d] EXCEPT !.other = @ \/ d # c]]

Take ==
    /\ ~sup.busy /\ queue # <<>>
    /\ sup' = [conn |-> Head(queue).conn, line |-> Head(queue).line, busy |-> TRUE, spent |-> 0]
    /\ queue' = Tail(queue)
    /\ Delays(Head(queue).conn)
    /\ UNCHANGED <<task, lines, answers, there, slot, permits>>

\* select! picks another ready branch: a drop to reconnect from, a tray command.
OwnBegin ==
    /\ OwnWork /\ ~sup.busy
    /\ sup' = [IdleSup EXCEPT !.busy = TRUE]
    /\ Delays(NoConn)
    /\ UNCHANGED <<task, lines, answers, there, slot, permits, queue>>

OwnEnd ==
    /\ sup.busy /\ sup.conn = NoConn
    /\ sup' = IdleSup
    /\ UNCHANGED <<task, lines, answers, there, slot, wait, permits, queue>>

\* Mutant of Finish: one response channel per connection, not per command.
FinishShared ==
    /\ sup.busy /\ sup.conn # NoConn
    /\ slot' = [slot EXCEPT ![sup.conn] =
                   IF task[sup.conn].pc = "waiting" THEN sup.line ELSE @]
    /\ sup' = IdleSup
    /\ UNCHANGED <<task, lines, answers, there, wait, permits, queue>>

\* The command is done and response_tx.send ignores a receiver that is gone: the
\* command that timed out was executed all the same.
Finish ==
    LET c == sup.conn
    IN  /\ sup.busy /\ c # NoConn
        /\ slot' = [slot EXCEPT ![c] =
                       IF task[c].pc = "waiting" /\ task[c].read = sup.line THEN sup.line ELSE @]
        /\ sup' = IdleSup
        /\ UNCHANGED <<task, lines, answers, there, wait, permits, queue>>

\* Time passes while a task waits.  An idle supervisor looks at its queue at once,
\* a reply or an elapsed timeout is noticed at once, and a command takes Worst
\* ticks at most; the supervisor's own work takes as long as it takes.
Tick ==
    /\ \E c \in Conns : task[c].pc = "waiting"
    /\ ~(~sup.busy /\ queue # <<>>)
    /\ sup.conn # NoConn => sup.spent < Worst
    /\ \A c \in Conns : task[c].pc = "waiting" => slot[c] = 0 /\ wait[c].age < Limit
    /\ wait' = [c \in Conns |-> [wait[c] EXCEPT !.age =
                   IF task[c].pc = "waiting" THEN @ + 1 ELSE @]]
    /\ sup' = [sup EXCEPT !.spent = IF sup.conn # NoConn THEN @ + 1 ELSE @]
    /\ UNCHANGED <<task, lines, answers, there, slot, permits, queue>>

Supervise == Take \/ Finish

Next == \/ \E c \in Conns : WriteLine(c) \/ HangUp(c) \/ Task(c)
        \/ Supervise \/ OwnBegin \/ OwnEnd \/ Tick

Spec == Init /\ [][Next]_vars

\* The tasks run and time passes.  The supervisor runs the commands it takes, but
\* nothing says that work of its own (a reconnect of up to 100 attempts) ends, and
\* pieces of it can follow one another.
FairSpec == Spec /\ (\A c \in Conns : WF_vars(Task(c))) /\ SF_vars(Tick) /\ WF_vars(Supervise)

----------------------------------------------------------------------------
(* The type invariant. *)
TypeOK ==
    /\ \A c \in Conns :
           /\ task[c] \in [pc : Pcs, read : 0..MaxLines[c], count : 0..MaxLines[c], first : BOOLEAN]
           /\ lines[c] \in Seq(LineKinds[c]) /\ slot[c] \in 0..MaxLines[c]
           /\ \A i \in 1..Len(answers[c]) :
                  answers[c][i].to \in 1..MaxLines[c] /\ answers[c][i].of \in 1..MaxLines[c]
    /\ there \in [Conns -> BOOLEAN]
    /\ wait \in [Conns -> [age : 0..Limit, other : BOOLEAN]]
    /\ permits \in 0..MaxConns
    /\ Len(queue) <= QueueCap
    /\ sup \in [conn : Conns \cup {NoConn}, line : Nat, busy : BOOLEAN, spent : 0..Worst]

\* A client that counts lines knows what each answer is about: an answer reports
\* the outcome of the line it is written for, answers come in the order of the
\* lines, and no line that was read and is not empty has none, whatever timed out
\* in between and was finished late.
AnswersMatch ==
    \A c \in Conns :
        /\ \A i \in 1..Len(answers[c]) :
               /\ answers[c][i].to = answers[c][i].of
               /\ i > 1 => answers[c][i - 1].to < answers[c][i].to
        /\ there[c] /\ task[c].pc = "read" =>
               \A n \in 1..task[c].read : lines[c][n] # "blank" =>
                   \E i \in 1..Len(answers[c]) : answers[c][i].to = n

\* A connection is turned away only while MAX_CONCURRENT_CONNECTIONS are open: no
\* way out of handle_connection keeps the permit.
RejectedWhenFull ==
    [][\A c \in Conns : Reject(c) =>
          Cardinality({d \in Conns : task[d].pc \in Open}) = MaxConns]_vars

\* The supervisor that gets a command at once answers it in time: a client is told
\* "Timeout" only when the supervisor had other work since the command was queued.
TimeoutMeansBusy ==
    [][\A c \in Conns :
          LET n == Len(answers'[c])
          IN  n > Len(answers[c]) /\ answers'[c][n].what = "timeout" => wait[c].other]_vars

\* serve_read_only, "making a busy daemon look dead": a status request that opens a
\* connection is answered however long the supervisor is busy and however full its
\* queue is.
StatusAnswered ==
    \A c \in {d \in Conns : "status" \in LineKinds[d]} :
        Len(lines[c]) > 0 /\ lines[c][1] = "status" ~> Len(answers[c]) > 0 \/ ~there[c]

\* server.rs, SUPERVISOR_RESPONSE_TIMEOUT_SECS: "a slow but healthy connect is never
\* reported as Timeout".  No work of its own, no command over the worst case.
NeverTimedOut ==
    \A c \in Conns : \A i \in 1..Len(answers[c]) : answers[c][i].what # "timeout"
=============================================================================
