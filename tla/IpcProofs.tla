----------------------------- MODULE IpcProofs ------------------------------
(***************************************************************************)
(* Proofs about Ipc, for every set of connections, every capacity and      *)
(* every pair of time limits: what each client is answered, when a client  *)
(* is told of a timeout, and when a connection is turned away.             *)
(***************************************************************************)
EXTENDS Ipc, FiniteSetTheorems, TLAPS

Tasks == [pc : Pcs, read : Nat, count : Nat, first : BOOLEAN]
Whats == {"error", "hello", "mismatch", "state", "toomany", "done", "timeout"}
Replies == [to : Nat, of : Nat, what : Whats]
Waits == [age : 0..Limit, other : BOOLEAN]
Requests == [conn : Conns, line : Nat]

Types ==
    /\ task \in [Conns -> Tasks]
    /\ lines \in [Conns -> Seq(AllKinds)]
    /\ answers \in [Conns -> Seq(Replies)]
    /\ there \in [Conns -> BOOLEAN]
    /\ slot \in [Conns -> Nat]
    /\ wait \in [Conns -> Waits]
    /\ permits \in Nat
    /\ queue \in Seq(Requests) /\ Len(queue) <= QueueCap
    /\ sup \in [conn : Conns \cup {NoConn}, line : Nat, busy : BOOLEAN, spent : 0..Worst]

----------------------------------------------------------------------------
(* Lists of answers *)

\* The answers a are to lines up to n, each about its own line, in their order.
InOrder(a, n) ==
    \A i \in 1..Len(a) :
        a[i].to = a[i].of /\ a[i].to \in 1..n /\ (i > 1 => a[i - 1].to < a[i].to)

\* Of the lines l, those up to n that are not empty have an answer in a.
Complete(a, l, n) ==
    \A m \in 1..n : l[m] # "blank" => \E i \in 1..Len(a) : a[i].to = m

\* Answering the next line keeps the order and leaves none out.
LEMMA AnswerNext ==
    ASSUME NEW a \in Seq(Replies), NEW n \in Nat, NEW r \in Replies,
           r.to = n + 1, r.of = n + 1, InOrder(a, n)
    PROVE  /\ InOrder(Append(a, r), n + 1)
           /\ \A l : Complete(a, l, n) => Complete(Append(a, r), l, n + 1)
<1> DEFINE b == Append(a, r)
<1>1. /\ Len(a) \in Nat /\ Len(b) = Len(a) + 1 /\ b[Len(a) + 1] = r
      /\ \A i \in 1..Len(a) : b[i] = a[i] /\ a[i] \in Replies
  OBVIOUS
<1> HIDE DEF b
<1>2. InOrder(b, n + 1)
  <2> SUFFICES ASSUME NEW i \in 1..Len(b)
               PROVE  b[i].to = b[i].of /\ b[i].to \in 1..n + 1 /\ (i > 1 => b[i - 1].to < b[i].to)
    BY DEF InOrder
  <2>1. CASE i \in 1..Len(a)
    <3>1. b[i] = a[i] /\ a[i].to = a[i].of /\ a[i].to \in 1..n
      BY <1>1, <2>1 DEF InOrder
    <3>2. i > 1 => b[i - 1] = a[i - 1] /\ a[i - 1].to < a[i].to
      BY <1>1, <2>1 DEF InOrder
    <3> QED BY <3>1, <3>2
  <2>2. CASE i = Len(a) + 1
    <3>1. i > 1 => b[i - 1] = a[Len(a)] /\ a[Len(a)].to \in 1..n
      BY <1>1, <2>2 DEF InOrder
    <3> QED BY <1>1, <2>2, <3>1
  <2> QED BY <1>1, <2>1, <2>2
<1>3. ASSUME NEW l, Complete(a, l, n)
      PROVE  Complete(b, l, n + 1)
  <2> SUFFICES ASSUME NEW m \in 1..n + 1, l[m] # "blank"
               PROVE  \E i \in 1..Len(b) : b[i].to = m
    BY DEF Complete
  <2>1. CASE m \in 1..n
    BY <1>1, <1>3, <2>1 DEF Complete
  <2>2. CASE m = n + 1
    BY <1>1, <2>2
  <2> QED BY <2>1, <2>2
<1> QED BY <1>2, <1>3 DEF b

\* An empty line that is read, and a line that is written, change no answer.
LEMMA AnswersStay ==
    ASSUME NEW a \in Seq(Replies), NEW n \in Nat, InOrder(a, n)
    PROVE  /\ InOrder(a, n + 1)
           /\ \A l : Complete(a, l, n) /\ l[n + 1] = "blank" => Complete(a, l, n + 1)
           /\ \A l, k : (\A m \in 1..n : l[m] = k[m]) /\ Complete(a, l, n) => Complete(a, k, n)
<1>1. InOrder(a, n + 1)
  BY DEF InOrder
<1>2. ASSUME NEW l, Complete(a, l, n), l[n + 1] = "blank"
      PROVE  Complete(a, l, n + 1)
  <2> SUFFICES ASSUME NEW m \in 1..n + 1, l[m] # "blank"
               PROVE  \E i \in 1..Len(a) : a[i].to = m
    BY DEF Complete
  <2>1. m \in 1..n
    BY <1>2
  <2> QED BY <1>2, <2>1 DEF Complete
<1>3. ASSUME NEW l, NEW k, \A m \in 1..n : l[m] = k[m], Complete(a, l, n)
      PROVE  Complete(a, k, n)
  BY <1>3 DEF Complete
<1> QED BY <1>1, <1>2, <1>3

----------------------------------------------------------------------------
(* The invariant *)

\* The lines that need no further answer: a command in the supervisor's hands does.
Heard(c) == IF task[c].pc \in {"queueing", "waiting"} THEN task[c].read - 1 ELSE task[c].read

\* One connection.  The response channel holds nothing but the reply to the line
\* its task waits for.
ConnInv(c) ==
    /\ task[c].read <= Len(lines[c]) /\ task[c].count <= task[c].read
    /\ Len(lines[c]) <= MaxLines[c] /\ \A m \in 1..Len(lines[c]) : lines[c][m] \in LineKinds[c]
    /\ task[c].pc = "new" => task[c].read = 0
    /\ task[c].pc \in {"queueing", "waiting"} => task[c].read > 0
    /\ slot[c] # 0 => task[c].pc = "waiting" /\ slot[c] = task[c].read
    /\ InOrder(answers[c], Heard(c))
    /\ there[c] /\ task[c].pc \in Open => Complete(answers[c], lines[c], Heard(c))

\* A command that met an idle supervisor and an empty queue, while nothing else has
\* come up: it is next, or runs and has waited as long as it runs, or is answered.
Prompt(c) ==
    task[c].pc = "waiting" /\ ~wait[c].other =>
        \/ ~sup.busy /\ queue # <<>> /\ Head(queue) = [conn |-> c, line |-> task[c].read]
           /\ wait[c].age = 0
        \/ sup.busy /\ sup.conn = c /\ sup.line = task[c].read /\ wait[c].age = sup.spent
        \/ slot[c] # 0 /\ wait[c].age <= Worst

OpenConns == {c \in Conns : task[c].pc \in Open}

\* Every open connection holds one permit.
PermitsCounted == permits + Cardinality(OpenConns) = MaxConns

IpcInv ==
    /\ Types /\ PermitsCounted
    /\ sup.conn # NoConn => sup.busy
    /\ \A c \in Conns : ConnInv(c) /\ Prompt(c)

----------------------------------------------------------------------------
(* What moves together *)

\* A connection nothing happens to keeps its part of the invariant.
LEMMA OthersKeep ==
    ASSUME NEW d, ConnInv(d), task'[d] = task[d], lines'[d] = lines[d],
           answers'[d] = answers[d], there'[d] = there[d], slot'[d] = slot[d]
    PROVE  ConnInv(d)'
BY DEF ConnInv, Heard

\* Nor does its command lose its turn while queue and supervisor stay.
LEMMA PromptKeeps ==
    ASSUME NEW d, Prompt(d), task'[d] = task[d], slot'[d] = slot[d], wait'[d] = wait[d],
           UNCHANGED <<queue, sup>>
    PROVE  Prompt(d)'
BY DEF Prompt

\* A connection takes a permit when it opens and gives it back when it ends.
LEMMA PermitMoves ==
    ASSUME Types, PermitsCounted, NEW c \in Conns, Types',
           \A d \in Conns \ {c} : task'[d].pc = task[d].pc,
           \/ permits' = permits /\ (task'[c].pc \in Open <=> task[c].pc \in Open)
           \/ permits' = permits + 1 /\ task[c].pc \in Open /\ task'[c].pc \notin Open
           \/ permits' = permits - 1 /\ task[c].pc \notin Open /\ task'[c].pc \in Open
    PROVE  PermitsCounted'
<1>1. IsFiniteSet(OpenConns) /\ Cardinality(OpenConns) \in Nat
  BY FS_Subset, FS_CardinalityType, IpcAssumption DEF OpenConns
<1>2. CASE permits' = permits /\ (task'[c].pc \in Open <=> task[c].pc \in Open)
  <2>1. OpenConns' = OpenConns
    BY <1>2 DEF OpenConns
  <2> QED BY <1>2, <2>1 DEF PermitsCounted
<1>3. CASE permits' = permits + 1 /\ task[c].pc \in Open /\ task'[c].pc \notin Open
  <2>1. OpenConns' = OpenConns \ {c} /\ c \in OpenConns
    BY <1>3 DEF OpenConns
  <2>2. Cardinality(OpenConns') = Cardinality(OpenConns) - 1
    BY <1>1, <2>1, FS_RemoveElement
  <2> QED BY <1>1, <1>3, <2>2, IpcAssumption DEF PermitsCounted, Types
<1>4. CASE permits' = permits - 1 /\ task[c].pc \notin Open /\ task'[c].pc \in Open
  <2>1. OpenConns' = OpenConns \cup {c} /\ c \notin OpenConns
    BY <1>4 DEF OpenConns
  <2>2. Cardinality(OpenConns') = Cardinality(OpenConns) + 1
    BY <1>1, <2>1, FS_AddElement
  <2> QED BY <1>1, <1>4, <2>2, IpcAssumption DEF PermitsCounted, Types
<1> QED BY <1>2, <1>3, <1>4

\* No step but those of the tasks moves a permit.
LEMMA PermitsKeep ==
    ASSUME PermitsCounted, UNCHANGED <<task, permits>>
    PROVE  PermitsCounted'
BY DEF PermitsCounted, OpenConns

\* A response that is written, or fails and ends the task.
LEMMA RespondEffect ==
    ASSUME Types, NEW c \in Conns, NEW t \in Tasks, NEW of \in Nat, NEW what \in Whats,
           Respond(c, t, of, what)
    PROVE  /\ task' \in [Conns -> Tasks] /\ answers' \in [Conns -> Seq(Replies)]
           /\ \A d \in Conns \ {c} : task'[d] = task[d] /\ answers'[d] = answers[d]
           /\ task'[c].read = t.read /\ task'[c].count = t.count
           /\ \/ task'[c].pc = "read" /\ permits' = permits
              \/ task'[c].pc = "closed" /\ permits' = permits + 1
           /\ ~there[c] => task'[c].pc = "closed"
           /\ answers'[c] = IF there[c]
                            THEN Append(answers[c], [to |-> t.read, of |-> of, what |-> what])
                            ELSE answers[c]
<1> DEFINE r == [to |-> t.read, of |-> of, what |-> what]
<1>1. r \in Replies
  BY DEF Replies, Tasks
<1>2. answers[c] \in Seq(Replies)
  BY DEF Types
<1>3. Append(answers[c], r) \in Seq(Replies)
  BY <1>1, <1>2
<1>4. /\ answers' \in [Conns -> Seq(Replies)]
      /\ \A d \in Conns \ {c} : answers'[d] = answers[d]
      /\ answers'[c] = IF there[c] THEN Append(answers[c], r) ELSE answers[c]
  <2> DEFINE b == Append(answers[c], r)
             S == Seq(Replies)
  <2>1. answers' = IF there[c] THEN [answers EXCEPT ![c] = b] ELSE answers
    BY DEF Respond
  <2>2. answers \in [Conns -> S] /\ b \in S
    BY <1>3 DEF Types
  <2> HIDE DEF b, S
  <2>3. /\ answers' \in [Conns -> S]
        /\ \A d \in Conns \ {c} : answers'[d] = answers[d]
        /\ answers'[c] = IF there[c] THEN b ELSE answers[c]
    BY <2>1, <2>2
  <2> QED BY <2>3 DEF b, S
<1>5. \A p \in Pcs : /\ [t EXCEPT !.pc = p] \in Tasks
                     /\ [t EXCEPT !.pc = p].read = t.read /\ [t EXCEPT !.pc = p].pc = p
                     /\ [t EXCEPT !.pc = p].count = t.count
  BY DEF Tasks
<1>6. {"read", "closed"} \subseteq Pcs
  BY DEF Pcs
<1>7. \/ /\ task' = [task EXCEPT ![c] = [t EXCEPT !.pc = "read"]]
         /\ permits' = permits /\ there[c]
      \/ /\ task' = [task EXCEPT ![c] = [t EXCEPT !.pc = "closed"]]
         /\ permits' = permits + 1
  BY DEF Respond, Ended
<1>8. /\ task' \in [Conns -> Tasks]
      /\ \A d \in Conns \ {c} : task'[d] = task[d]
      /\ task'[c].read = t.read /\ task'[c].count = t.count
      /\ \/ task'[c].pc = "read" /\ permits' = permits
         \/ task'[c].pc = "closed" /\ permits' = permits + 1
      /\ ~there[c] => task'[c].pc = "closed"
  <2> DEFINE u(p) == [t EXCEPT !.pc = p]
  <2>1. PICK p \in {"read", "closed"} :
           /\ task' = [task EXCEPT ![c] = u(p)]
           /\ permits' = IF p = "read" THEN permits ELSE permits + 1
           /\ p = "read" => there[c]
    BY <1>7
  <2>2. /\ u(p) \in Tasks /\ u(p).read = t.read /\ u(p).pc = p /\ u(p).count = t.count
        /\ task \in [Conns -> Tasks]
    BY <1>5, <1>6 DEF Types
  <2> HIDE DEF u
  <2>3. task' \in [Conns -> Tasks] /\ task'[c] = u(p) /\ \A d \in Conns \ {c} : task'[d] = task[d]
    BY <2>1, <2>2
  <2> QED BY <2>1, <2>2, <2>3
<1> QED BY <1>4, <1>8

----------------------------------------------------------------------------
(* The steps of a task *)

\* Whatever the task answers by itself, receives or gives up on, it answers the
\* first line not heard, and keeps the invariant.
LEMMA RespondKeeps ==
    ASSUME IpcInv, NEW c \in Conns, NEW t \in Tasks, NEW what \in Whats,
           task[c].pc \in Open, t.read = Heard(c) + 1, t.read <= Len(lines[c]),
           t.count <= t.read, Respond(c, t, t.read, what),
           slot' \in [Conns -> Nat], slot'[c] = 0,
           \A d \in Conns \ {c} : slot'[d] = slot[d],
           UNCHANGED <<lines, there, wait, queue, sup>>
    PROVE  IpcInv'
<1> DEFINE r == [to |-> t.read, of |-> t.read, what |-> what]
<1>1. Types /\ ConnInv(c) /\ t.read \in Nat
  BY DEF IpcInv, Tasks
<1>2. /\ task' \in [Conns -> Tasks] /\ answers' \in [Conns -> Seq(Replies)]
      /\ \A d \in Conns \ {c} : task'[d] = task[d] /\ answers'[d] = answers[d]
      /\ task'[c].read = t.read /\ task'[c].count = t.count
      /\ \/ task'[c].pc = "read" /\ permits' = permits
         \/ task'[c].pc = "closed" /\ permits' = permits + 1
      /\ ~there[c] => task'[c].pc = "closed"
      /\ answers'[c] = IF there[c] THEN Append(answers[c], r) ELSE answers[c]
  BY <1>1, RespondEffect
<1>3. Types'
  <2>1. permits' \in Nat
    BY <1>1, <1>2 DEF Types
  <2>2. /\ lines' \in [Conns -> Seq(AllKinds)] /\ there' \in [Conns -> BOOLEAN]
        /\ wait' \in [Conns -> Waits] /\ queue' \in Seq(Requests) /\ Len(queue') <= QueueCap
        /\ sup' \in [conn : Conns \cup {NoConn}, line : Nat, busy : BOOLEAN, spent : 0..Worst]
    BY <1>1 DEF Types
  <2> QED BY <1>2, <2>1, <2>2 DEF Types
<1>4. PermitsCounted'
  BY <1>1, <1>2, <1>3, PermitMoves DEF Open, IpcInv
<1>5. ASSUME NEW d \in Conns \ {c}
      PROVE  ConnInv(d)' /\ Prompt(d)'
  <2>1. ConnInv(d) /\ Prompt(d)
    BY DEF IpcInv
  <2> QED BY <1>2, <2>1, OthersKeep, PromptKeeps
<1>6. Heard(c)' = t.read /\ task'[c].pc # "waiting" /\ task'[c].pc # "queueing"
  BY <1>2 DEF Heard
<1>7. InOrder(answers'[c], t.read) /\ (there[c] => Complete(answers'[c], lines[c], t.read))
  <2>1. /\ answers[c] \in Seq(Replies) /\ Heard(c) \in Nat /\ InOrder(answers[c], Heard(c))
        /\ there[c] => Complete(answers[c], lines[c], Heard(c))
    BY SMTT(20), <1>1 DEF Types, ConnInv, Heard, Tasks
  <2>2. r \in Replies /\ r.to = t.read /\ r.of = t.read
    BY <1>1 DEF Replies
  <2> HIDE DEF r
  <2>3. CASE there[c]
    BY <1>2, <2>1, <2>2, <2>3, AnswerNext
  <2>4. CASE ~there[c]
    BY <1>2, <2>1, <2>4, AnswersStay
  <2> QED BY <2>3, <2>4
<1>8. ConnInv(c)' /\ Prompt(c)'
  BY <1>1, <1>2, <1>6, <1>7 DEF ConnInv, Prompt
<1> QED BY <1>3, <1>4, <1>5, <1>8 DEF IpcInv

\* A step that moves one task and answers nothing.
LEMMA TaskMoves ==
    ASSUME Types, NEW c \in Conns, NEW u \in Tasks, task' = [task EXCEPT ![c] = u],
           permits' \in Nat, UNCHANGED <<lines, answers, there, slot, wait, queue, sup>>
    PROVE  Types' /\ task'[c] = u /\ \A d \in Conns \ {c} : task'[d] = task[d]
<1>1. task' \in [Conns -> Tasks] /\ task'[c] = u /\ \A d \in Conns \ {c} : task'[d] = task[d]
  BY DEF Types
<1> QED BY <1>1 DEF Types

\* Such a step keeps what is said of the other connections.
LEMMA TaskMovesOthers ==
    ASSUME IpcInv, NEW c \in Conns, \A d \in Conns \ {c} : task'[d] = task[d],
           UNCHANGED <<lines, answers, there, slot, wait, queue, sup>>
    PROVE  \A d \in Conns \ {c} : ConnInv(d)' /\ Prompt(d)'
<1> SUFFICES ASSUME NEW d \in Conns \ {c}
             PROVE  ConnInv(d)' /\ Prompt(d)'
  OBVIOUS
<1>1. ConnInv(d) /\ Prompt(d)
  BY DEF IpcInv
<1> QED BY <1>1, OthersKeep, PromptKeeps

\* serve_read_only, the handshake and the errors, or none of them.
LEMMA LocalType == ASSUME NEW k, NEW b PROVE Local(k, b) \in Whats \cup {"forward"}
BY DEF Local, Whats

\* The next line is answered, skipped or forwarded.
LEMMA ReadLineKeeps ==
    ASSUME IpcInv, NEW c \in Conns, ReadLine(c)
    PROVE  IpcInv'
<1> DEFINE n == task[c].read + 1
           k == lines[c][n]
           m == task[c].count + IF k = "big" THEN 0 ELSE 1
           f == task[c].first /\ k \in {"bad", "big", "blank"}
           what == IF m > MaxCommands THEN "toomany" ELSE Local(k, task[c].first)
           t == [pc |-> "read", read |-> n, count |-> m, first |-> f]
<1>1. Types /\ ConnInv(c) /\ task[c] \in Tasks /\ slot[c] \in Nat /\ PermitsCounted
  BY DEF IpcInv, Types
<1>2. /\ task[c].pc = "read" /\ task[c].read < Len(lines[c]) /\ slot[c] = 0
      /\ Heard(c) = task[c].read
  BY <1>1 DEF ReadLine, ConnInv, Heard
<1>3. n \in Nat /\ n <= Len(lines[c]) /\ m \in Nat /\ m <= n
  <2>1. task[c].read \in Nat /\ task[c].count \in Nat /\ task[c].count <= task[c].read
    BY <1>1 DEF Tasks, ConnInv
  <2>2. Len(lines[c]) \in Nat
    BY <1>1 DEF Types
  <2>3. m \in {task[c].count, task[c].count + 1}
    BY <2>1
  <2> HIDE DEF m
  <2> QED BY <1>2, <2>1, <2>2, <2>3
<1>4. f \in BOOLEAN /\ what \in Whats \cup {"forward"}
  BY LocalType DEF Whats
<1>5. /\ IF what = "toomany" \/ (k # "blank" /\ what # "forward")
         THEN Respond(c, t, n, what)
         ELSE /\ task' = [task EXCEPT ![c] =
                             [t EXCEPT !.pc = IF k = "blank" THEN "read" ELSE "queueing"]]
              /\ UNCHANGED <<answers, permits>>
      /\ UNCHANGED <<lines, there, slot, wait, queue, sup>>
  BY DEF ReadLine
<1> HIDE DEF k, m, f, what
<1>6. /\ t \in Tasks /\ t.read = n /\ t.count = m
  BY <1>3, <1>4 DEF Tasks, Pcs
<1>7. CASE what = "toomany" \/ (k # "blank" /\ what # "forward")
  <2>1. Respond(c, t, t.read, what) /\ what \in Whats
    BY <1>4, <1>5, <1>6, <1>7 DEF Whats
  <2>2. slot' \in [Conns -> Nat] /\ slot'[c] = 0 /\ \A d \in Conns \ {c} : slot'[d] = slot[d]
    BY <1>1, <1>2, <1>5 DEF Types
  <2> HIDE DEF t
  <2> QED BY <1>2, <1>3, <1>5, <1>6, <2>1, <2>2, RespondKeeps DEF Open
<1>8. CASE ~(what = "toomany" \/ (k # "blank" /\ what # "forward"))
  <2> DEFINE p == IF k = "blank" THEN "read" ELSE "queueing"
             u == [t EXCEPT !.pc = p]
  <2>1. u \in Tasks /\ u.pc = p /\ u.read = n /\ u.count = m
    BY <1>3, <1>4 DEF Tasks, Pcs
  <2>2. task' = [task EXCEPT ![c] = u] /\ UNCHANGED <<lines, answers, there, slot, wait, permits, queue, sup>>
    BY <1>5, <1>8
  <2> HIDE DEF u
  <2>3. permits' \in Nat
    BY <1>1, <2>2 DEF Types
  <2>4. Types' /\ task'[c] = u /\ \A d \in Conns \ {c} : task'[d] = task[d]
    BY <1>1, <2>1, <2>2, <2>3, TaskMoves
  <2>5. PermitsCounted'
    BY <1>1, <1>2, <2>1, <2>2, <2>4, PermitMoves DEF Open
  <2>6. \A d \in Conns \ {c} : ConnInv(d)' /\ Prompt(d)'
    BY <2>2, <2>4, TaskMovesOthers
  <2>7. Prompt(c)'
    BY <2>1, <2>4 DEF Prompt
  <2>8. ConnInv(c)'
    <3>1. answers[c] \in Seq(Replies) /\ InOrder(answers[c], task[c].read) /\ task[c].read \in Nat
          /\ (there[c] => Complete(answers[c], lines[c], task[c].read))
      BY <1>1, <1>2 DEF ConnInv, Types, Tasks, Open
    <3>2. CASE k = "blank"
      <4>1. /\ InOrder(answers[c], n)
            /\ there[c] => Complete(answers[c], lines[c], n)
        BY <1>3, <3>1, <3>2, AnswersStay DEF k
      <4>2. Heard(c)' = n
        BY <2>1, <2>4, <3>2 DEF Heard
      <4> QED BY <1>1, <1>2, <1>3, <2>1, <2>2, <2>4, <3>2, <4>1, <4>2 DEF ConnInv
    <3>3. CASE k # "blank"
      <4>1. Heard(c)' = task[c].read
        BY <1>1, <2>1, <2>4, <3>3 DEF Heard, Tasks
      <4> QED BY SMTT(20), <1>1, <1>2, <1>3, <2>1, <2>2, <2>4, <3>1, <3>3, <4>1 DEF ConnInv
    <3> QED BY <3>2, <3>3
  <2> QED BY <2>2, <2>4, <2>5, <2>6, <2>7, <2>8 DEF IpcInv
<1> QED BY <1>7, <1>8

\* A connection is accepted, turned away, or ends with its client's last line.
LEMMA OpenCloseKeeps ==
    ASSUME IpcInv, NEW c \in Conns, Accept(c) \/ Reject(c) \/ Eof(c)
    PROVE  IpcInv'
<1>1. Types /\ ConnInv(c) /\ task[c] \in Tasks /\ PermitsCounted /\ permits \in Nat
  BY DEF IpcInv, Types
<1>2. PICK p \in {"read", "rejected", "closed"} :
         /\ task' = [task EXCEPT ![c] = [task[c] EXCEPT !.pc = p]]
         /\ UNCHANGED <<lines, answers, there, slot, wait, queue, sup>>
         /\ \/ p = "read" /\ task[c].pc = "new" /\ permits > 0 /\ permits' = permits - 1
            \/ p = "rejected" /\ task[c].pc = "new" /\ permits' = permits
            \/ p = "closed" /\ task[c].pc = "read" /\ permits' = permits + 1
  BY DEF Accept, Reject, Eof, Ended
<1> DEFINE u == [task[c] EXCEPT !.pc = p]
<1>3. u \in Tasks /\ u.pc = p /\ u.read = task[c].read /\ u.count = task[c].count
  BY <1>1 DEF Tasks, Pcs
<1>4. task' = [task EXCEPT ![c] = u]
  BY <1>2
<1> HIDE DEF u
<1>5. permits' \in Nat
  BY <1>1, <1>2
<1>6. Types' /\ task'[c] = u /\ \A d \in Conns \ {c} : task'[d] = task[d]
  BY <1>1, <1>2, <1>3, <1>4, <1>5, TaskMoves
<1>7. PermitsCounted'
  BY <1>1, <1>2, <1>3, <1>6, PermitMoves DEF Open
<1>8. \A d \in Conns \ {c} : ConnInv(d)' /\ Prompt(d)'
  BY <1>2, <1>6, TaskMovesOthers
<1>9. Prompt(c)'
  BY <1>2, <1>3, <1>6 DEF Prompt
<1>10. ConnInv(c)'
  <2>1. Heard(c) = task[c].read /\ Heard(c)' = task[c].read
    BY <1>2, <1>3, <1>6 DEF Heard
  <2>2. p = "read" => Complete(answers[c], lines[c], task[c].read)
    BY <1>1, <1>2 DEF ConnInv, Complete
  <2> QED BY <1>1, <1>2, <1>3, <1>6, <2>1, <2>2 DEF ConnInv, Open
<1> QED BY <1>2, <1>6, <1>7, <1>8, <1>9, <1>10 DEF IpcInv

\* A command is queued with an empty response channel: if the supervisor is idle
\* and the queue empty, it is next.
LEMMA EnqueueKeeps ==
    ASSUME IpcInv, NEW c \in Conns, Enqueue(c)
    PROVE  IpcInv'
<1> DEFINE u == [task[c] EXCEPT !.pc = "waiting"]
           q == [conn |-> c, line |-> task[c].read]
           w == [age |-> 0, other |-> sup.busy \/ queue # <<>>]
<1>1. /\ Types /\ ConnInv(c) /\ task[c] \in Tasks /\ PermitsCounted
      /\ task[c].pc = "queueing"
  BY DEF IpcInv, Types, Enqueue
<1>2. u \in Tasks /\ u.pc = "waiting" /\ u.read = task[c].read /\ u.count = task[c].count
  BY <1>1 DEF Tasks, Pcs
<1>3. q \in Requests
  BY <1>1 DEF Requests, Tasks
<1>4. w \in Waits /\ w.age = 0 /\ w.other = (sup.busy \/ queue # <<>>)
  BY IpcAssumption DEF Waits
<1>5. /\ task' = [task EXCEPT ![c] = u] /\ queue' = Append(queue, q) /\ Len(queue) < QueueCap
      /\ slot' = [slot EXCEPT ![c] = 0] /\ wait' = [wait EXCEPT ![c] = w]
      /\ UNCHANGED <<lines, answers, there, permits, sup>>
  BY DEF Enqueue
<1> HIDE DEF u, q, w
<1>6. /\ queue' \in Seq(Requests) /\ Len(queue') <= QueueCap /\ queue' # <<>>
      /\ queue # <<>> => Head(queue') = Head(queue)
      /\ queue = <<>> => Head(queue') = q
  BY SMTT(20), <1>1, <1>3, <1>5, IpcAssumption DEF Types
<1>7. /\ task' \in [Conns -> Tasks] /\ task'[c] = u /\ wait' \in [Conns -> Waits] /\ wait'[c] = w
      /\ slot' \in [Conns -> Nat] /\ slot'[c] = 0
      /\ \A d \in Conns \ {c} : task'[d] = task[d] /\ slot'[d] = slot[d] /\ wait'[d] = wait[d]
  BY <1>1, <1>2, <1>4, <1>5 DEF Types
<1>8. Types'
  BY <1>1, <1>5, <1>6, <1>7 DEF Types
<1>9. PermitsCounted'
  BY <1>1, <1>2, <1>5, <1>7, <1>8, PermitMoves DEF Open
<1>10. ASSUME NEW d \in Conns \ {c}
       PROVE  ConnInv(d)' /\ Prompt(d)'
  <2>1. ConnInv(d) /\ Prompt(d)
    BY DEF IpcInv
  <2> QED BY <1>5, <1>6, <1>7, <2>1, OthersKeep DEF Prompt
<1>11. Prompt(c)'
  BY <1>2, <1>4, <1>5, <1>6, <1>7 DEF Prompt, q
<1>12. ConnInv(c)'
  <2>1. Heard(c)' = Heard(c)
    BY <1>1, <1>2, <1>7 DEF Heard
  <2> QED BY <1>1, <1>2, <1>5, <1>7, <2>1 DEF ConnInv, Open
<1> QED BY <1>5, <1>8, <1>9, <1>10, <1>11, <1>12 DEF IpcInv

\* A reply is taken out of the response channel, or the wait for it ends.
LEMMA EndWaitKeeps ==
    ASSUME IpcInv, NEW c \in Conns, Receive(c) \/ TimeOut(c)
    PROVE  IpcInv'
<1>1. /\ Types /\ ConnInv(c) /\ task[c] \in Tasks /\ slot[c] \in Nat
      /\ task[c].pc = "waiting"
  BY DEF IpcInv, Types, Receive, TimeOut
<1>2. PICK what \in Whats : Respond(c, task[c], task[c].read, what)
  BY <1>1 DEF Receive, TimeOut, ConnInv, Whats
<1>3. /\ slot' \in [Conns -> Nat] /\ slot'[c] = 0 /\ \A d \in Conns \ {c} : slot'[d] = slot[d]
      /\ UNCHANGED <<lines, there, wait, queue, sup>>
  BY <1>1 DEF Receive, TimeOut, Types
<1>4. /\ task[c].read = Heard(c) + 1 /\ task[c].read <= Len(lines[c])
      /\ task[c].count <= task[c].read
  BY <1>1 DEF ConnInv, Heard, Tasks
<1> QED BY <1>1, <1>2, <1>3, <1>4, RespondKeeps DEF Open

\* A client writes another line, or leaves.
LEMMA ClientKeeps ==
    ASSUME IpcInv, NEW c \in Conns, WriteLine(c) \/ HangUp(c)
    PROVE  IpcInv'
<1>1. Types /\ PermitsCounted /\ \A d \in Conns : ConnInv(d) /\ Prompt(d)
  BY DEF IpcInv
<1>2. UNCHANGED <<task, answers, slot, wait, permits, queue, sup>>
  BY DEF WriteLine, HangUp
<1>3. PermitsCounted' /\ \A d \in Conns : Prompt(d)'
  BY <1>1, <1>2, PermitsKeep, PromptKeeps
<1>4. CASE WriteLine(c)
  <2>1. PICK k \in LineKinds[c] : lines' = [lines EXCEPT ![c] = Append(lines[c], k)]
    BY <1>4 DEF WriteLine
  <2> DEFINE l == Append(lines[c], k)
             S == Seq(AllKinds)
  <2>2. k \in AllKinds /\ lines[c] \in Seq(AllKinds) /\ MaxLines[c] \in Nat
        /\ Len(lines[c]) < MaxLines[c] /\ there' = there
    BY <1>1, <1>4, IpcAssumption DEF Types, WriteLine
  <2>3. /\ l \in S /\ Len(l) = Len(lines[c]) + 1 /\ l[Len(lines[c]) + 1] = k
        /\ Len(lines[c]) \in Nat /\ \A m \in 1..Len(lines[c]) : l[m] = lines[c][m]
    BY <2>2
  <2>4. lines \in [Conns -> S]
    BY <1>1 DEF Types
  <2> HIDE DEF l, S
  <2>5. lines' \in [Conns -> S] /\ lines'[c] = l /\ \A d \in Conns \ {c} : lines'[d] = lines[d]
    BY <2>1, <2>3, <2>4 DEF l
  <2>6. Types'
    BY <1>1, <1>2, <2>2, <2>5 DEF Types, S
  <2>7. ASSUME NEW d \in Conns \ {c}
        PROVE  ConnInv(d)'
    BY <1>1, <1>2, <2>2, <2>5, OthersKeep
  <2>8. Heard(c)' = Heard(c) /\ Heard(c) \in Nat /\ Heard(c) <= Len(lines[c])
    BY <1>1, <1>2 DEF Heard, ConnInv, Types, Tasks
  <2>9. Complete(answers[c], lines[c], Heard(c)) => Complete(answers[c], l, Heard(c))
    BY <2>3, <2>8 DEF Complete
  <2>10. Len(l) <= MaxLines[c] /\ \A m \in 1..Len(l) : l[m] \in LineKinds[c]
    BY <1>1, <2>2, <2>3 DEF ConnInv
  <2>11. ConnInv(c)'
    <3>1. task[c].read \in Nat
      BY <1>1 DEF Types, Tasks
    <3> QED BY SMTT(20), <1>1, <1>2, <2>2, <2>3, <2>5, <2>8, <2>9, <2>10, <3>1 DEF ConnInv
  <2> QED BY <1>1, <1>2, <1>3, <2>6, <2>7, <2>11 DEF IpcInv
<1>5. CASE HangUp(c)
  <2>1. /\ there' \in [Conns -> BOOLEAN] /\ lines' = lines
        /\ \A d \in Conns : there'[d] => there[d]
    BY <1>1, <1>5 DEF Types, HangUp
  <2>2. Types'
    BY <1>1, <1>2, <2>1 DEF Types
  <2>3. \A d \in Conns : ConnInv(d)'
    BY <1>1, <1>2, <2>1 DEF ConnInv, Heard
  <2> QED BY <1>1, <1>2, <1>3, <2>2, <2>3 DEF IpcInv
<1> QED BY <1>4, <1>5

----------------------------------------------------------------------------
(* The steps of the supervisor and the clock *)

\* They write no answer; what is in a response channel is for its task's line.
LEMMA SupKeeps ==
    ASSUME IpcInv, UNCHANGED <<task, lines, answers, there, permits>>,
           slot' \in [Conns -> Nat], wait' \in [Conns -> Waits],
           queue' \in Seq(Requests), Len(queue') <= QueueCap,
           sup' \in [conn : Conns \cup {NoConn}, line : Nat, busy : BOOLEAN, spent : 0..Worst],
           sup'.conn # NoConn => sup'.busy,
           \A c \in Conns : slot'[c] # slot[c] =>
               task[c].pc = "waiting" /\ slot'[c] = task[c].read,
           \A c \in Conns : Prompt(c)'
    PROVE  IpcInv'
<1>1. Types /\ PermitsCounted /\ \A d \in Conns : ConnInv(d)
  BY DEF IpcInv
<1>2. PermitsCounted'
  BY <1>1, PermitsKeep
<1>3. Types'
  BY <1>1 DEF Types
<1>4. \A d \in Conns : ConnInv(d)'
  BY <1>1 DEF ConnInv, Heard
<1> QED BY <1>2, <1>3, <1>4 DEF IpcInv

\* Delays only adds to what a task knows of other work.
LEMMA DelaysEffect ==
    ASSUME Types, NEW e, Delays(e)
    PROVE  /\ wait' \in [Conns -> Waits]
           /\ \A c \in Conns : wait'[c].age = wait[c].age
                               /\ (~wait'[c].other => ~wait[c].other /\ c = e)
BY DEF Types, Delays, Waits

\* A command is taken from the queue, or the supervisor turns to other work.
LEMMA BeginKeeps ==
    ASSUME IpcInv, Take \/ OwnBegin
    PROVE  IpcInv'
<1>1. Types /\ \A d \in Conns : ConnInv(d) /\ Prompt(d)
  BY DEF IpcInv
<1>2. CASE Take
  <2> DEFINE h == Head(queue)
  <2>1. queue \in Seq(Requests) /\ queue # <<>> /\ Len(queue) <= QueueCap
    BY <1>1, <1>2 DEF Types, Take
  <2>2. h \in Requests /\ queue' \in Seq(Requests) /\ Len(queue') <= QueueCap
    BY <1>2, <2>1, IpcAssumption DEF Take
  <2>3. /\ wait' \in [Conns -> Waits]
        /\ \A c \in Conns : wait'[c].age = wait[c].age
                            /\ (~wait'[c].other => ~wait[c].other /\ c = h.conn)
    BY <1>1, <1>2, DelaysEffect DEF Take
  <2>4. /\ sup' = [conn |-> h.conn, line |-> h.line, busy |-> TRUE, spent |-> 0] /\ ~sup.busy
        /\ UNCHANGED <<task, lines, answers, there, slot, permits>>
    BY <1>2 DEF Take
  <2> HIDE DEF h
  <2>5. /\ sup' \in [conn : Conns \cup {NoConn}, line : Nat, busy : BOOLEAN, spent : 0..Worst]
        /\ sup'.busy /\ sup'.conn = h.conn /\ sup'.line = h.line /\ sup'.spent = 0
    BY <2>2, <2>4, IpcAssumption DEF Requests
  <2>6. ASSUME NEW c \in Conns
        PROVE  Prompt(c)'
    <3>1. Prompt(c) /\ UNCHANGED <<task, slot>>
      BY <1>1, <2>4
    <3> QED BY SMTT(20), <2>3, <2>4, <2>5, <3>1 DEF Prompt, h
  <2>7. slot' \in [Conns -> Nat]
    BY <1>1, <2>4 DEF Types
  <2> QED BY <2>2, <2>3, <2>4, <2>5, <2>6, <2>7, SupKeeps
<1>3. CASE OwnBegin
  <2>1. /\ wait' \in [Conns -> Waits] /\ \A c \in Conns : wait'[c].other
    BY <1>1, <1>3, DelaysEffect, IpcAssumption DEF OwnBegin
  <2>2. sup' = [conn |-> NoConn, line |-> 0, busy |-> TRUE, spent |-> 0]
    BY <1>3 DEF OwnBegin, IdleSup
  <2>3. UNCHANGED <<task, lines, answers, there, slot, permits, queue>>
    BY <1>3 DEF OwnBegin
  <2>4. \A c \in Conns : Prompt(c)'
    BY <2>1 DEF Prompt
  <2> QED BY <1>1, <2>1, <2>2, <2>3, <2>4, SupKeeps, IpcAssumption DEF Types
<1> QED BY <1>2, <1>3

\* A command is finished, or other work is.
LEMMA EndKeeps ==
    ASSUME IpcInv, Finish \/ OwnEnd
    PROVE  IpcInv'
<1>1. Types /\ \A d \in Conns : ConnInv(d) /\ Prompt(d)
  BY DEF IpcInv
<1>2. /\ sup' = [conn |-> NoConn, line |-> 0, busy |-> FALSE, spent |-> 0] /\ sup.busy
      /\ UNCHANGED <<task, lines, answers, there, wait, permits, queue>>
  BY DEF Finish, OwnEnd, IdleSup
<1>3. /\ sup' \in [conn : Conns \cup {NoConn}, line : Nat, busy : BOOLEAN, spent : 0..Worst]
      /\ sup'.conn = NoConn
      /\ wait' \in [Conns -> Waits] /\ queue' \in Seq(Requests) /\ Len(queue') <= QueueCap
  BY <1>1, <1>2, IpcAssumption DEF Types
<1>4. CASE OwnEnd
  <2>1. slot' = slot /\ sup.conn = NoConn
    BY <1>4 DEF OwnEnd
  <2>2. ASSUME NEW c \in Conns
        PROVE  Prompt(c)'
    <3>1. Prompt(c) /\ c # NoConn
      BY <1>1, IpcAssumption
    <3> QED BY <1>2, <2>1, <3>1 DEF Prompt
  <2>3. slot' \in [Conns -> Nat]
    BY <1>1, <2>1 DEF Types
  <2> QED BY <1>2, <1>3, <2>1, <2>2, <2>3, SupKeeps
<1>5. CASE Finish
  <2> DEFINE e == sup.conn
  <2>1. e \in Conns /\ sup.line \in Nat /\ sup.spent \in 0..Worst
    BY <1>1, <1>5 DEF Types, Finish
  <2>2. /\ slot' \in [Conns -> Nat] /\ \A c \in Conns \ {e} : slot'[c] = slot[c]
        /\ slot'[e] = IF task[e].pc = "waiting" /\ task[e].read = sup.line
                      THEN sup.line ELSE slot[e]
    BY <1>1, <1>5, <2>1 DEF Types, Finish
  <2>3. ASSUME NEW c \in Conns
        PROVE  Prompt(c)'
    <3>1. Prompt(c) /\ task[c].read \in Nat
      BY <1>1 DEF Types, Tasks
    <3>2. task[c].pc = "waiting" => task[c].read > 0
      BY <1>1 DEF ConnInv
    <3> HIDE DEF e
    <3>3. CASE c # e
      BY <1>2, <2>2, <3>1, <3>3 DEF Prompt, e
    <3>4. CASE c = e
      BY <1>2, <2>1, <2>2, <3>1, <3>2, <3>4 DEF Prompt, e
    <3> QED BY <3>3, <3>4
  <2> QED BY <1>2, <1>3, <2>1, <2>2, <2>3, SupKeeps
<1> QED BY <1>4, <1>5

\* Time passes for the command that runs and for those that wait for it alike.
LEMMA TickKeeps ==
    ASSUME IpcInv, Tick
    PROVE  IpcInv'
<1>1. Types /\ \A d \in Conns : ConnInv(d) /\ Prompt(d)
  BY DEF IpcInv
<1>2. /\ UNCHANGED <<task, lines, answers, there, slot, permits, queue>>
      /\ ~(~sup.busy /\ queue # <<>>)
      /\ \A c \in Conns : task[c].pc = "waiting" => slot[c] = 0 /\ wait[c].age < Limit
  BY DEF Tick
<1>3. /\ wait' \in [Conns -> Waits]
      /\ \A c \in Conns : wait'[c].other = wait[c].other
             /\ wait'[c].age = IF task[c].pc = "waiting" THEN wait[c].age + 1 ELSE wait[c].age
  <2>1. wait \in [Conns -> Waits] /\ Limit \in Nat
    BY <1>1, IpcAssumption DEF Types
  <2> DEFINE w(c) == [wait[c] EXCEPT !.age = IF task[c].pc = "waiting" THEN @ + 1 ELSE @]
  <2>2. \A c \in Conns : /\ w(c) \in Waits /\ w(c).other = wait[c].other
             /\ w(c).age = IF task[c].pc = "waiting" THEN wait[c].age + 1 ELSE wait[c].age
    BY <1>2, <2>1 DEF Waits
  <2>3. wait' = [c \in Conns |-> w(c)]
    BY DEF Tick
  <2> HIDE DEF w
  <2> QED BY <2>2, <2>3
<1>4. /\ sup' \in [conn : Conns \cup {NoConn}, line : Nat, busy : BOOLEAN, spent : 0..Worst]
      /\ sup'.conn = sup.conn /\ sup'.busy = sup.busy /\ sup'.line = sup.line
      /\ sup.conn # NoConn => sup'.spent = sup.spent + 1
  <2> DEFINE n == IF sup.conn # NoConn THEN sup.spent + 1 ELSE sup.spent
  <2>1. sup \in [conn : Conns \cup {NoConn}, line : Nat, busy : BOOLEAN, spent : 0..Worst]
    BY <1>1 DEF Types
  <2>2. sup' = [sup EXCEPT !.spent = n] /\ (sup.conn # NoConn => sup.spent < Worst)
    BY DEF Tick
  <2>3. n \in 0..Worst /\ (sup.conn # NoConn => n = sup.spent + 1)
    BY <2>1, <2>2, IpcAssumption
  <2> HIDE DEF n
  <2> QED BY <2>1, <2>2, <2>3
<1>5. ASSUME NEW c \in Conns
      PROVE  Prompt(c)'
  <2>1. Prompt(c) /\ c # NoConn
    BY <1>1, IpcAssumption
  <2> QED BY <1>2, <1>3, <1>4, <2>1 DEF Prompt
<1>6. slot' \in [Conns -> Nat] /\ queue' \in Seq(Requests) /\ Len(queue') <= QueueCap
  BY <1>1, <1>2 DEF Types
<1>7. sup'.conn # NoConn => sup'.busy
  BY <1>4 DEF IpcInv
<1> QED BY <1>2, <1>3, <1>4, <1>5, <1>6, <1>7, SupKeeps

----------------------------------------------------------------------------
(* The theorems *)

\* Every step of the server, its clients and the supervisor keeps the invariant.
LEMMA IpcStep == IpcInv /\ [Next]_vars => IpcInv'
<1> SUFFICES ASSUME IpcInv, [Next]_vars
             PROVE  IpcInv'
  OBVIOUS
<1>1. CASE UNCHANGED vars
  BY <1>1 DEF vars, IpcInv, Types, PermitsCounted, OpenConns, ConnInv, Heard, Prompt
<1>2. ASSUME NEW c \in Conns, WriteLine(c) \/ HangUp(c)
      PROVE  IpcInv'
  BY <1>2, ClientKeeps
<1>3. ASSUME NEW c \in Conns, Task(c)
      PROVE  IpcInv'
  BY <1>3, OpenCloseKeeps, ReadLineKeeps, EnqueueKeeps, EndWaitKeeps DEF Task
<1>4. CASE Supervise \/ OwnBegin \/ OwnEnd
  BY <1>4, BeginKeeps, EndKeeps DEF Supervise
<1>5. CASE Tick
  BY <1>5, TickKeeps
<1> QED BY <1>1, <1>2, <1>3, <1>4, <1>5 DEF Next

\* The server starts with every permit and no connection.
LEMMA IpcStarts == Init => IpcInv
<1> SUFFICES ASSUME Init
             PROVE  IpcInv
  OBVIOUS
<1>1. Types
  <2>1. task \in [Conns -> Tasks] /\ wait \in [Conns -> Waits]
    BY IpcAssumption DEF Init, Tasks, Pcs, Waits
  <2>2. sup \in [conn : Conns \cup {NoConn}, line : Nat, busy : BOOLEAN, spent : 0..Worst]
    BY IpcAssumption DEF Init, IdleSup
  <2> QED BY SMTT(20), <2>1, <2>2, IpcAssumption DEF Types, Init
<1>2. OpenConns = {}
  BY DEF Init, OpenConns, Open
<1>3. PermitsCounted
  BY <1>2, FS_EmptySet, IpcAssumption DEF PermitsCounted, Init
<1>4. ASSUME NEW c \in Conns
      PROVE  ConnInv(c) /\ Prompt(c)
  <2>1. /\ task[c] = [pc |-> "new", read |-> 0, count |-> 0, first |-> TRUE]
        /\ lines[c] = <<>> /\ answers[c] = <<>> /\ slot[c] = 0 /\ MaxLines[c] \in Nat
    BY IpcAssumption DEF Init
  <2>2. Heard(c) = 0 /\ InOrder(answers[c], 0)
    BY SMTT(20), <2>1 DEF Heard, InOrder
  <2> QED BY SMTT(20), <2>1, <2>2 DEF ConnInv, Prompt, Open
<1> QED BY <1>1, <1>3, <1>4 DEF IpcInv, Init, IdleSup

LEMMA IpcAlways == Spec => []IpcInv
BY IpcStarts, IpcStep, PTL DEF Spec

\* The values of server.rs stay in their types: no more permits than
\* MAX_CONCURRENT_CONNECTIONS, no queue over its capacity, no answer to a line
\* that was not written.
THEOREM TypeCorrect == Spec => []TypeOK
<1>1. IpcInv => TypeOK
  <2> SUFFICES ASSUME IpcInv
               PROVE  TypeOK
    OBVIOUS
  <2>1. Types /\ PermitsCounted /\ \A c \in Conns : ConnInv(c)
    BY DEF IpcInv
  <2>2. permits \in 0..MaxConns
    <3>1. IsFiniteSet(OpenConns) /\ Cardinality(OpenConns) \in Nat
      BY FS_Subset, FS_CardinalityType, IpcAssumption DEF OpenConns
    <3> QED BY <2>1, <3>1, IpcAssumption DEF Types, PermitsCounted
  <2>3. ASSUME NEW c \in Conns
        PROVE  /\ task[c] \in [pc : Pcs, read : 0..MaxLines[c], count : 0..MaxLines[c],
                                first : BOOLEAN]
               /\ lines[c] \in Seq(LineKinds[c]) /\ slot[c] \in 0..MaxLines[c]
               /\ \A i \in 1..Len(answers[c]) :
                      answers[c][i].to \in 1..MaxLines[c] /\ answers[c][i].of \in 1..MaxLines[c]
    <3>1. /\ task[c] \in Tasks /\ MaxLines[c] \in Nat /\ slot[c] \in Nat
          /\ lines[c] \in Seq(AllKinds) /\ ConnInv(c)
      BY <2>1, IpcAssumption DEF Types
    <3>2. task[c].read \in 0..MaxLines[c] /\ task[c].count \in 0..MaxLines[c]
      <4>1. Len(lines[c]) \in Nat
        BY <3>1
      <4> QED BY SMTT(20), <3>1, <4>1 DEF ConnInv, Tasks
    <3>3. lines[c] \in Seq(LineKinds[c])
      BY <3>1 DEF ConnInv
    <3>4. Heard(c) \in 0..MaxLines[c]
      BY <3>1, <3>2 DEF Heard, ConnInv
    <3>5. \A i \in 1..Len(answers[c]) :
             answers[c][i].to \in 1..MaxLines[c] /\ answers[c][i].of \in 1..MaxLines[c]
      BY SMTT(20), <3>1, <3>4 DEF ConnInv, InOrder
    <3>6. task[c] \in [pc : Pcs, read : 0..MaxLines[c], count : 0..MaxLines[c], first : BOOLEAN]
      BY <3>1, <3>2 DEF Tasks
    <3>7. slot[c] \in 0..MaxLines[c]
      BY <3>1, <3>2 DEF ConnInv
    <3> QED BY <3>3, <3>5, <3>6, <3>7
  <2> QED BY <2>1, <2>2, <2>3 DEF TypeOK, Types, Waits
<1> QED BY <1>1, IpcAlways, PTL

\* Whatever timed out and was finished late: every answer a client gets reports the
\* line it is written for, in the order of the lines, and none that was read and is
\* not empty is left out.  handle_connection awaits one response channel per command.
THEOREM AnswersMatchHolds == Spec => []AnswersMatch
<1>1. IpcInv => AnswersMatch
  <2> SUFFICES ASSUME IpcInv, NEW c \in Conns
               PROVE  /\ \A i \in 1..Len(answers[c]) :
                             /\ answers[c][i].to = answers[c][i].of
                             /\ i > 1 => answers[c][i - 1].to < answers[c][i].to
                      /\ there[c] /\ task[c].pc = "read" =>
                             \A n \in 1..task[c].read : lines[c][n] # "blank" =>
                                 \E i \in 1..Len(answers[c]) : answers[c][i].to = n
    BY DEF AnswersMatch
  <2>1. ConnInv(c)
    BY DEF IpcInv
  <2>2. there[c] /\ task[c].pc = "read" => Complete(answers[c], lines[c], task[c].read)
    BY <2>1 DEF ConnInv, Open, Heard
  <2> QED BY <2>1, <2>2 DEF ConnInv, InOrder, Complete
<1> QED BY <1>1, IpcAlways, PTL

\* try_acquire_owned fails only while MAX_CONCURRENT_CONNECTIONS are open: every way
\* out of handle_connection drops the permit.
THEOREM RejectedWhenFullHolds == Spec => RejectedWhenFull
<1>1. ASSUME IpcInv, NEW c \in Conns, Reject(c)
      PROVE  Cardinality({d \in Conns : task[d].pc \in Open}) = MaxConns
  <2>1. permits = 0 /\ permits + Cardinality(OpenConns) = MaxConns
    BY <1>1 DEF IpcInv, PermitsCounted, Reject
  <2>2. Cardinality(OpenConns) \in Nat
    BY FS_Subset, FS_CardinalityType, IpcAssumption DEF OpenConns
  <2> QED BY <2>1, <2>2 DEF OpenConns
<1>2. IpcInv /\ [Next]_vars =>
         [\A c \in Conns : Reject(c) =>
             Cardinality({d \in Conns : task[d].pc \in Open}) = MaxConns]_vars
  BY <1>1
<1> QED BY <1>2, IpcAlways, PTL DEF Spec, RejectedWhenFull

\* A response is added to the answers of one connection.
LEMMA RespondAdds ==
    ASSUME Types, NEW c \in Conns, NEW d \in Conns, NEW t, NEW of, NEW what,
           Respond(c, t, of, what), answers'[d] # answers[d]
    PROVE  d = c /\ answers'[d] = Append(answers[d], [to |-> t.read, of |-> of, what |-> what])
<1> DEFINE b == Append(answers[c], [to |-> t.read, of |-> of, what |-> what])
           S == Seq(Replies)
<1>1. answers' = IF there[c] THEN [answers EXCEPT ![c] = b] ELSE answers
  BY DEF Respond
<1>2. answers \in [Conns -> S]
  BY DEF Types
<1> HIDE DEF b, S
<1>3. d = c /\ answers'[d] = b
  BY <1>1, <1>2
<1> QED BY <1>3 DEF b

\* A client is told of a timeout by the step that lets its wait elapse, by no other.
LEMMA OnlyTimeOutSaysSo ==
    ASSUME IpcInv, Next, NEW d \in Conns, Len(answers'[d]) > Len(answers[d]),
           answers'[d][Len(answers'[d])].what = "timeout"
    PROVE  TimeOut(d)
<1>1. Types /\ answers[d] \in Seq(Replies) /\ answers'[d] # answers[d]
  <2>1. Types /\ answers[d] \in Seq(Replies)
    BY DEF IpcInv, Types
  <2> QED BY <2>1
<1>2. ASSUME NEW c \in Conns, NEW t, NEW of, NEW what, Respond(c, t, of, what)
      PROVE  d = c /\ what = "timeout"
  <2> DEFINE r == [to |-> t.read, of |-> of, what |-> what]
  <2>1. d = c /\ answers'[d] = Append(answers[d], r)
    BY SMTT(20), <1>1, <1>2, RespondAdds
  <2>2. Append(answers[d], r)[Len(Append(answers[d], r))] = r
    BY <1>1
  <2> QED BY <2>1, <2>2
<1>3. ASSUME NEW c \in Conns, ReadLine(c)
      PROVE  FALSE
  <2>1. PICK t, n, what : /\ Respond(c, t, n, what)
                         /\ \/ what = "toomany"
                            \/ \E k, b : what = Local(k, b)
    BY <1>1, <1>3 DEF ReadLine
  <2> QED BY <1>2, <2>1 DEF Local
<1>4. ASSUME NEW c \in Conns, Receive(c)
      PROVE  FALSE
  <2>1. Respond(c, task[c], slot[c], "done")
    BY <1>4 DEF Receive
  <2> QED BY <1>2, <2>1
<1>5. ASSUME NEW c \in Conns, TimeOut(c)
      PROVE  TimeOut(d)
  <2>1. Respond(c, task[c], task[c].read, "timeout")
    BY <1>5 DEF TimeOut
  <2>2. d = c
    BY <1>2, <2>1
  <2> QED BY <1>5, <2>2
<1>6. ASSUME NEW c \in Conns,
             WriteLine(c) \/ HangUp(c) \/ Accept(c) \/ Reject(c) \/ Eof(c) \/ Enqueue(c)
      PROVE  FALSE
  BY <1>1, <1>6 DEF WriteLine, HangUp, Accept, Reject, Eof, Enqueue
<1>7. ~(Take \/ Finish \/ OwnBegin \/ OwnEnd \/ Tick)
  BY <1>1 DEF Take, Finish, OwnBegin, OwnEnd, Tick
<1> QED BY <1>3, <1>4, <1>5, <1>6, <1>7 DEF Next, Task, Supervise

\* SUPERVISOR_RESPONSE_TIMEOUT_SECS is over the worst case of one command, so a
\* client is told "Timeout" only if the supervisor had other work since its command
\* was queued.
THEOREM TimeoutMeansBusyHolds == Spec => TimeoutMeansBusy
<1> DEFINE Told(c) == /\ Len(answers'[c]) > Len(answers[c])
                      /\ answers'[c][Len(answers'[c])].what = "timeout"
<1>1. ASSUME IpcInv, Next, NEW c \in Conns, Told(c)
      PROVE  wait[c].other
  <2>1. TimeOut(c)
    BY <1>1, OnlyTimeOutSaysSo
  <2>2. task[c].pc = "waiting" /\ slot[c] = 0 /\ wait[c].age >= Limit
    BY <2>1 DEF TimeOut
  <2>3. Prompt(c) /\ sup.spent \in 0..Worst
    BY <1>1 DEF IpcInv, Types
  <2> QED BY <2>2, <2>3, IpcAssumption DEF Prompt
<1>2. IpcInv /\ [Next]_vars =>
         [\A c \in Conns :
             LET n == Len(answers'[c])
             IN  n > Len(answers[c]) /\ answers'[c][n].what = "timeout" => wait[c].other]_vars
  BY <1>1
<1> QED BY <1>2, IpcAlways, PTL DEF Spec, TimeoutMeansBusy
=============================================================================
