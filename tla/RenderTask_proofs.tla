--------------------------- MODULE RenderTask_proofs ---------------------------
(***************************************************************************)
(* The four safety properties of a render task, for every number of tasks, *)
(* requests and calls.                                                     *)
(*                                                                         *)
(* First that every Finished signal answers a request of its own.  The     *)
(* counters of the two threads alone do not show it: whether a request may *)
(* be counted depends on what is still in the message queue.  Lined says   *)
(* that the requests there are newer than the one of the task, in the      *)
(* order in which they were made, and that a task is added once, before    *)
(* all else is known of it.  The invariants of the other three properties  *)
(* (Announcing, Tracking, Resulting) are inductive relative to this one.   *)
(***************************************************************************)
EXTENDS RenderTask, TLAPS, SequenceTheorems

\* What the event thread has sent and the update thread has not processed.
Sent == buffer \o queue

Types ==
  /\ buffer \in Seq(Messages) /\ queue \in Seq(Messages)
  /\ task \in [Tasks -> Task]
  /\ refreshOnceCounter \in [Tasks -> Nat] /\ asked \in [Tasks -> Nat]
  /\ life \in [Tasks -> {"new", "listed", "removed"}]

IsRequest(m, t) == m.op = "Refresh" /\ m.to = t /\ m.value > 0
IsAdd(m, t) == m.op = "Add" /\ m.to = t
Outstanding(s) == Number(s.state \in {"WAITING_FOR_RESOURCES", "RENDERED_ONCE"})

Counts ==
  \A t \in Tasks :
    /\ task[t].exists => /\ task[t].counter + Outstanding(task[t]) <= task[t].request
                         /\ refreshOnceCounter[t] <= task[t].counter
    /\ ~task[t].exists => task[t].counter = 0
    /\ task[t].request <= asked[t] /\ ~task[t].notify
    /\ life[t] = "new" => ~task[t].exists /\ refreshOnceCounter[t] = 0

Lined(s) ==
  \A t \in Tasks :
    /\ \A i \in 1 .. Len(s) : IsRequest(s[i], t) => /\ task[t].request < s[i].value
                                                    /\ s[i].value <= asked[t]
    /\ \A i, j \in 1 .. Len(s) :
         i < j /\ IsRequest(s[i], t) /\ IsRequest(s[j], t) => s[i].value < s[j].value
    /\ \A i \in 1 .. Len(s) :
         IsAdd(s[i], t) => /\ ~task[t].exists /\ refreshOnceCounter[t] = 0 /\ life[t] # "new"
                           /\ \A j \in 1 .. Len(s) : IsAdd(s[j], t) => i = j

IInv == /\ Types
        /\ updatePc # "messages" => buffer = << >>
        /\ Counts
        /\ Lined(Sent)

LEMMA InitHasIInv == Init => IInv
<1> SUFFICES ASSUME Init PROVE IInv
  OBVIOUS
<1>1. /\ buffer = << >> /\ queue = << >>
      /\ task = [t \in Tasks |-> IF t \in Existing THEN ExistingTask(t) ELSE NoTask]
      /\ refreshOnceCounter = [t \in Tasks |-> 0] /\ asked = [t \in Tasks |-> 0]
      /\ life = [t \in Tasks |-> IF t \in Existing THEN "listed" ELSE "new"]
  BY DEF Init
<1>2. ASSUME NEW t \in Tasks
      PROVE  /\ task[t] \in Task /\ task[t].counter = 0 /\ task[t].request = 0 /\ ~task[t].notify
             /\ task[t].state = "CONTINUOUSLY" /\ (task[t].exists <=> t \in Existing)
  <2> DEFINE e == ExistingTask(t)
  <2>1. /\ e \in Task /\ e.counter = 0 /\ e.request = 0 /\ ~e.notify
        /\ e.state = "CONTINUOUSLY" /\ e.exists
    <3>1. PICK b \in BOOLEAN : b <=> t \in requiresSync
      OBVIOUS
    <3>2. e = [NewTask EXCEPT !.active = TRUE, !.requiresSync = b]
      BY ONLY <3>1 DEF ExistingTask
    <3> HIDE DEF e
    <3>3. /\ NewTask \in Task /\ NewTask.counter = 0 /\ NewTask.request = 0 /\ ~NewTask.notify
          /\ NewTask.state = "CONTINUOUSLY" /\ NewTask.exists
      BY ONLY TRUE DEF NewTask, Task, States
    <3> QED
      BY ONLY <3>1, <3>2, <3>3 DEF Task, States
  <2>2. /\ NoTask \in Task /\ NoTask.counter = 0 /\ NoTask.request = 0 /\ ~NoTask.notify
        /\ NoTask.state = "CONTINUOUSLY" /\ ~NoTask.exists
    BY ONLY TRUE DEF NoTask, NewTask, Task, States
  <2>3. task[t] = IF t \in Existing THEN e ELSE NoTask
    BY <1>1
  <2> QED
    BY ONLY <2>1, <2>2, <2>3
<1>3. Types
  BY <1>1, <1>2 DEF Types
<1>4. ASSUME NEW t \in Tasks PROVE Outstanding(task[t]) = 0
  BY ONLY <1>2 DEF Outstanding, Number
<1>5. Counts
  <2> SUFFICES ASSUME NEW t \in Tasks
               PROVE  /\ task[t].exists =>
                           /\ task[t].counter + Outstanding(task[t]) <= task[t].request
                           /\ refreshOnceCounter[t] <= task[t].counter
                      /\ ~task[t].exists => task[t].counter = 0
                      /\ task[t].request <= asked[t] /\ ~task[t].notify
                      /\ life[t] = "new" => ~task[t].exists /\ refreshOnceCounter[t] = 0
    BY DEF Counts
  <2>1. refreshOnceCounter[t] = 0 /\ asked[t] = 0 /\ (life[t] = "new" => t \notin Existing)
    BY <1>1
  <2> QED
    BY ONLY <1>2, <1>4, <2>1
<1>6. Sent = << >> /\ Len(Sent) = 0
  BY <1>1 DEF Sent
<1>7. Lined(Sent)
  BY <1>6 DEF Lined
<1> QED
  BY <1>1, <1>3, <1>5, <1>7 DEF IInv

\* What a message does to a task, as far as the counters go: s becomes r.
Becomes(s, m, r) ==
  /\ ~s.notify => ~r.notify
  /\ m.op = "Add" => /\ r.exists /\ r.counter = 0 /\ r.request = 0
                     /\ r.state = "CONTINUOUSLY"
  /\ m.op = "Remove" => ~r.exists /\ r.counter = 0 /\ r.request = 0
  /\ m.op \notin {"Add", "Remove"} => (r.exists <=> s.exists) /\ r.counter = s.counter
  /\ m.op = "Refresh" /\ m.value > 0 => r.request = m.value
  /\ m.op \notin {"Add", "Remove"} /\ ~(m.op = "Refresh" /\ m.value > 0) =>
       r.request = s.request /\ r.state \in {s.state, "CONTINUOUSLY"}

LEMMA TaskAfterFacts ==
  ASSUME NEW s \in Task, NEW m \in Messages
  PROVE  TaskAfter(s, m) \in Task /\ Becomes(s, m, TaskAfter(s, m))
<1> DEFINE r == TaskAfter(s, m)
<1>1. m.value \in Nat /\ m.op \in {"Add", "Connect", "Refresh", "Sync", "Keep", "Clear", "Remove"}
  BY DEF Messages
<1>2. ASSUME m.op = "Add" PROVE r \in Task /\ Becomes(s, m, r)
  <2>1. r = [NewTask EXCEPT !.active = (m.value = 1)]
    BY <1>2 DEF TaskAfter
  <2> HIDE DEF r
  <2> QED
    BY <1>2, <2>1 DEF Becomes, NewTask, Task, States
<1>3. ASSUME m.op = "Remove" PROVE r \in Task /\ Becomes(s, m, r)
  <2>1. r = NoTask
    BY <1>3 DEF TaskAfter
  <2> HIDE DEF r
  <2> QED
    BY <1>3, <2>1 DEF Becomes, NoTask, NewTask, Task, States
<1>4. ASSUME m.op = "Refresh" PROVE r \in Task /\ Becomes(s, m, r)
  <2>1. r = Refreshed(s, m.value)
    BY <1>4 DEF TaskAfter
  <2> HIDE DEF r
  <2>2. CASE m.value = 0
    BY <1>4, <2>1, <2>2 DEF Becomes, Refreshed, Task, States
  <2>3. CASE m.value > 0
    <3>1. PICK n \in Nat : n = m.value /\ n > 0
      BY <1>1, <2>3
    <3>2. r = [s EXCEPT !.state = "WAITING_FOR_RESOURCES", !.waiting = TRUE, !.notify = FALSE,
                        !.request = n]
      BY <2>1, <3>1 DEF Refreshed
    <3>3. /\ r \in Task /\ ~r.notify /\ (r.exists <=> s.exists) /\ r.counter = s.counter
          /\ r.request = n
      BY ONLY <3>1, <3>2, s \in Task DEF Task, States
    <3> QED
      BY <1>4, <3>1, <3>3 DEF Becomes
  <2> QED
    BY <1>1, <2>2, <2>3
<1>5. ASSUME m.op = "Connect" PROVE r \in Task /\ Becomes(s, m, r)
  <2>1. r = [s EXCEPT !.active = (m.value = 1)]
    BY <1>5 DEF TaskAfter
  <2> HIDE DEF r
  <2> QED
    BY <1>5, <2>1 DEF Becomes, Task, States
<1>6. ASSUME m.op = "Sync" PROVE r \in Task /\ Becomes(s, m, r)
  <2>1. r = [s EXCEPT !.requiresSync = (m.value = 1)]
    BY <1>6 DEF TaskAfter
  <2> HIDE DEF r
  <2> QED
    BY <1>6, <2>1 DEF Becomes, Task, States
<1>7. ASSUME m.op \in {"Keep", "Clear"} PROVE r \in Task /\ Becomes(s, m, r)
  <2>1. r = s
    BY <1>7 DEF TaskAfter
  <2> HIDE DEF r
  <2> QED
    BY <1>7, <2>1 DEF Becomes, Task, States
<1> QED
  BY <1>1, <1>2, <1>3, <1>4, <1>5, <1>6, <1>7 DEF r

\* The call of the application puts messages at the end.
LEMMA SendAllFacts ==
  ASSUME Types, NEW list \in Seq(Messages), queue' = queue \o list, buffer' = buffer
  PROVE  /\ queue' \in Seq(Messages) /\ Sent' \in Seq(Messages) /\ Sent \in Seq(Messages)
         /\ Len(Sent) \in Nat /\ Len(Sent') = Len(Sent) + Len(list)
         /\ \A i \in 1 .. Len(Sent) : Sent'[i] = Sent[i]
         /\ \A i \in 1 .. Len(Sent) + Len(list) : i > Len(Sent) => Sent'[i] = list[i - Len(Sent)]
<1>1. Sent' = Sent \o list /\ queue' = queue \o list
  BY ConcatAssociative DEF Types, Sent
<1>2. Sent \in Seq(Messages)
  BY DEF Types, Sent
<1> QED
  BY <1>1, <1>2, ConcatProperties DEF Types

\* A call that makes no request and adds nothing changes no counter, and sends
\* one message.
LEMMA OtherCallStep ==
  ASSUME IInv, NEW t \in Tasks,
         \/ RefreshAlways(t) \/ KeepRenderResult(t) \/ ClearRenderResult(t) \/ RemoveTask(t)
         \/ \E b \in BOOLEAN : Connect(t, b) \/ SetSyncRequired(t, b)
  PROVE  IInv'
<1>1. /\ UNCHANGED <<buffer, updatePc, task, refreshOnceCounter, asked>>
      /\ life' = life \/ (life[t] = "listed" /\ life' = [life EXCEPT ![t] = "removed"])
      /\ \E m \in Messages : /\ SendAll(<< m >>)
                             /\ m.op # "Add" /\ ~(m.op = "Refresh" /\ m.value > 0)
  <2> USE DEF Call, Send, Message, Number, Messages, notifyVars, frameVars
  <2>1. CASE RefreshAlways(t)
    BY <2>1 DEF RefreshAlways
  <2>2. CASE KeepRenderResult(t)
    BY <2>2 DEF KeepRenderResult
  <2>3. CASE ClearRenderResult(t)
    BY <2>3 DEF ClearRenderResult
  <2>4. CASE RemoveTask(t)
    BY <2>4 DEF RemoveTask
  <2>5. CASE \E b \in BOOLEAN : Connect(t, b)
    BY <2>5 DEF Connect
  <2>6. CASE \E b \in BOOLEAN : SetSyncRequired(t, b)
    BY <2>6 DEF SetSyncRequired
  <2> QED
    BY <2>1, <2>2, <2>3, <2>4, <2>5, <2>6
<1>2. PICK m \in Messages : SendAll(<< m >>) /\ m.op # "Add" /\ ~(m.op = "Refresh" /\ m.value > 0)
  BY <1>1
<1>3. /\ queue' \in Seq(Messages) /\ Len(Sent) \in Nat /\ Len(Sent') = Len(Sent) + 1
      /\ \A i \in 1 .. Len(Sent) : Sent'[i] = Sent[i]
      /\ Sent'[Len(Sent) + 1] = m
  <2> DEFINE list == << m >>
  <2>1. list \in Seq(Messages) /\ Len(list) = 1 /\ list[1] = m
    OBVIOUS
  <2>2. Types /\ queue' = queue \o list /\ buffer' = buffer
    BY <1>1, <1>2 DEF IInv, SendAll
  <2> HIDE DEF list
  <2>3. /\ queue' \in Seq(Messages) /\ Len(Sent) \in Nat /\ Len(Sent') = Len(Sent) + Len(list)
        /\ \A i \in 1 .. Len(Sent) : Sent'[i] = Sent[i]
        /\ \A i \in 1 .. Len(Sent) + Len(list) : i > Len(Sent) => Sent'[i] = list[i - Len(Sent)]
    BY <2>1, <2>2, SendAllFacts
  <2>4. /\ Len(Sent) + 1 \in 1 .. Len(Sent) + Len(list) /\ Len(Sent) + 1 > Len(Sent)
        /\ (Len(Sent) + 1) - Len(Sent) = 1
    BY <2>1, <2>2, <2>3
  <2> QED
    BY <2>1, <2>2, <2>3, <2>4
<1>4. Types' /\ Counts' /\ (updatePc' # "messages" => buffer' = << >>)
  BY <1>1, <1>3 DEF IInv, Types, Counts, Outstanding, Number
<1>5. \A i \in 1 .. Len(Sent') : \A u \in Tasks :
        IsRequest(Sent'[i], u) \/ IsAdd(Sent'[i], u) => i \in 1 .. Len(Sent) /\ Sent'[i] = Sent[i]
  BY <1>2, <1>3 DEF IsRequest, IsAdd
<1>6. \A u \in Tasks : life[u] # "new" => life'[u] # "new"
  BY <1>1 DEF IInv, Types
<1>7. Lined(Sent)'
  BY <1>1, <1>5, <1>6 DEF IInv, Lined
<1> QED
  BY <1>4, <1>7 DEF IInv

\* A request is newer than all that were made before it.
LEMMA RequestStep ==
  ASSUME IInv, NEW t \in Tasks, RefreshOnce(t)
  PROVE  IInv'
<1> DEFINE n == asked[t] + 1
           list == Request(t, n)
<1>1. /\ UNCHANGED <<buffer, updatePc, task, refreshOnceCounter, life>>
      /\ asked' = [asked EXCEPT ![t] = n] /\ SendAll(list) /\ n \in Nat
  BY DEF RefreshOnce, Call, IInv, Types, notifyVars, frameVars
<1>2. /\ list \in Seq(Messages) /\ Len(list) = 2
      /\ list[1].op = "Clear" /\ list[2].op = "Refresh" /\ list[2].to = t /\ list[2].value = n
  BY <1>1 DEF Request, Message, Messages
<1>3. /\ queue' \in Seq(Messages) /\ Len(Sent) \in Nat /\ Len(Sent') = Len(Sent) + 2
      /\ \A i \in 1 .. Len(Sent) : Sent'[i] = Sent[i]
      /\ Sent'[Len(Sent) + 1] = list[1] /\ Sent'[Len(Sent) + 2] = list[2]
  <2>1. Types /\ queue' = queue \o list /\ buffer' = buffer
    BY <1>1 DEF IInv, SendAll
  <2> HIDE DEF list
  <2>2. /\ queue' \in Seq(Messages) /\ Len(Sent) \in Nat /\ Len(Sent') = Len(Sent) + Len(list)
        /\ \A i \in 1 .. Len(Sent) : Sent'[i] = Sent[i]
        /\ \A i \in 1 .. Len(Sent) + Len(list) : i > Len(Sent) => Sent'[i] = list[i - Len(Sent)]
    BY <1>2, <2>1, SendAllFacts
  <2>3. \A k \in {1, 2} : /\ Len(Sent) + k \in 1 .. Len(Sent) + Len(list) /\ Len(Sent) + k > Len(Sent)
                           /\ (Len(Sent) + k) - Len(Sent) = k
    BY <1>2, <2>2
  <2> QED
    BY <1>2, <2>2, <2>3
<1>4. \A u \in Tasks : asked[u] \in Nat /\ asked'[u] = IF u = t THEN n ELSE asked[u]
  BY <1>1 DEF IInv, Types
<1>5. Types' /\ (updatePc' # "messages" => buffer' = << >>)
  BY <1>1, <1>3 DEF IInv, Types
<1>6. Counts'
  BY <1>1, <1>4 DEF IInv, Types, Task, Counts, Outstanding, Number
<1> HIDE DEF n, list
<1>7. \A i \in 1 .. Len(Sent') : \A u \in Tasks :
        /\ IsAdd(Sent'[i], u) => i \in 1 .. Len(Sent) /\ Sent'[i] = Sent[i]
        /\ IsRequest(Sent'[i], u) =>
             \/ i \in 1 .. Len(Sent) /\ Sent'[i] = Sent[i]
             \/ i = Len(Sent) + 2 /\ u = t /\ Sent'[i].value = n
  BY <1>2, <1>3 DEF IsRequest, IsAdd
<1>8. \A u \in Tasks : task[u].request \in Nat /\ task[u].request <= asked[u]
  BY DEF IInv, Counts, Types, Task
<1>9. n = asked[t] + 1
  BY DEF n
<1>10. \A i \in 1 .. Len(Sent) : Sent[i].value \in Nat
  <2>1. Sent \in Seq(Messages)
    BY DEF IInv, Types, Sent
  <2>2. \A i \in 1 .. Len(Sent) : Sent[i] \in Messages
    BY <2>1, ElementOfSeq
  <2> QED
    BY <2>2 DEF Messages
<1>11. \A u \in Tasks : \A i \in 1 .. Len(Sent') :
         IsRequest(Sent'[i], u) => task[u].request < Sent'[i].value /\ Sent'[i].value <= asked'[u]
  BY <1>4, <1>7, <1>8, <1>9, <1>10 DEF IInv, Lined
<1>12. \A u \in Tasks : \A i, j \in 1 .. Len(Sent') :
         i < j /\ IsRequest(Sent'[i], u) /\ IsRequest(Sent'[j], u) => Sent'[i].value < Sent'[j].value
  BY <1>3, <1>4, <1>7, <1>9, <1>10, SMTT(30) DEF IInv, Lined
<1>13. Lined(Sent)'
  BY <1>1, <1>7, <1>11, <1>12 DEF IInv, Lined
<1> QED
  BY <1>5, <1>6, <1>13 DEF IInv

\* A task is added once.
LEMMA CreateStep ==
  ASSUME IInv, NEW t \in Tasks, NEW b \in BOOLEAN, CreateTask(t, b)
  PROVE  IInv'
<1> DEFINE m == Message("Add", t, Number(b))
<1>1. /\ UNCHANGED <<buffer, updatePc, task, refreshOnceCounter, asked>>
      /\ life[t] = "new" /\ life' = [life EXCEPT ![t] = "listed"] /\ SendAll(<< m >>)
  BY DEF CreateTask, Send, notifyVars, frameVars, historyVars
<1>2. m \in Messages /\ m.op = "Add" /\ m.to = t
  BY DEF Message, Messages, Number
<1>3. << m >> \in Seq(Messages) /\ Len(<< m >>) = 1 /\ << m >>[1] = m
  BY <1>2
<1> HIDE DEF m
<1>4. /\ queue' \in Seq(Messages) /\ Len(Sent) \in Nat /\ Len(Sent') = Len(Sent) + 1
      /\ \A i \in 1 .. Len(Sent) : Sent'[i] = Sent[i]
      /\ Sent'[Len(Sent) + 1] = m
  <2> DEFINE list == << m >>
  <2>1. Types /\ queue' = queue \o list /\ buffer' = buffer
    BY <1>1 DEF IInv, SendAll
  <2>2. list \in Seq(Messages) /\ Len(list) = 1 /\ list[1] = m
    BY <1>3
  <2> HIDE DEF list
  <2>3. /\ queue' \in Seq(Messages) /\ Len(Sent) \in Nat /\ Len(Sent') = Len(Sent) + Len(list)
        /\ \A i \in 1 .. Len(Sent) : Sent'[i] = Sent[i]
        /\ \A i \in 1 .. Len(Sent) + Len(list) : i > Len(Sent) => Sent'[i] = list[i - Len(Sent)]
    BY <2>1, <2>2, SendAllFacts
  <2>4. /\ Len(Sent) + 1 \in 1 .. Len(Sent) + Len(list) /\ Len(Sent) + 1 > Len(Sent)
        /\ (Len(Sent) + 1) - Len(Sent) = 1
    BY <2>1, <2>2, <2>3
  <2> QED
    BY <2>1, <2>2, <2>3, <2>4
<1>5. Types' /\ (updatePc' # "messages" => buffer' = << >>)
  BY <1>1, <1>4 DEF IInv, Types
<1>6. Counts'
  BY <1>1 DEF IInv, Types, Counts, Outstanding, Number
<1>7. \A i \in 1 .. Len(Sent') : \A u \in Tasks :
        /\ IsRequest(Sent'[i], u) => i \in 1 .. Len(Sent) /\ Sent'[i] = Sent[i]
        /\ IsAdd(Sent'[i], u) => \/ i \in 1 .. Len(Sent) /\ Sent'[i] = Sent[i] /\ u # t
                                 \/ i = Len(Sent) + 1 /\ u = t
  <2>1. \A i \in 1 .. Len(Sent) : ~IsAdd(Sent[i], t)
    BY <1>1 DEF IInv, Lined
  <2> QED
    BY <1>2, <1>4, <2>1 DEF IsRequest, IsAdd
<1>8. ~task[t].exists /\ refreshOnceCounter[t] = 0 /\ life'[t] # "new"
  BY <1>1 DEF IInv, Counts, Types
<1>9. \A u \in Tasks : life[u] # "new" => life'[u] # "new"
  BY <1>1 DEF IInv, Types
<1>10. \A u \in Tasks : \A i \in 1 .. Len(Sent') : IsAdd(Sent'[i], u) =>
         /\ ~task[u].exists /\ refreshOnceCounter[u] = 0 /\ life'[u] # "new"
         /\ \A j \in 1 .. Len(Sent') : IsAdd(Sent'[j], u) => i = j
  BY <1>7, <1>8, <1>9 DEF IInv, Lined
<1>11. Lined(Sent)'
  BY <1>1, <1>7, <1>10 DEF IInv, Lined
<1> QED
  BY <1>5, <1>6, <1>11 DEF IInv

\* The update thread takes over the queue, or processes the first message of
\* the buffer.
LEMMA BeginStep == ASSUME IInv, UpdateBegin PROVE IInv'
<1>1. /\ buffer = << >> /\ buffer' = queue /\ queue' = << >> /\ updatePc' = "messages"
      /\ UNCHANGED <<task, refreshOnceCounter, asked, life>>
  BY DEF UpdateBegin, IInv, apiVars, notifyVars, historyVars
<1>2. Sent' = Sent
  BY <1>1, ConcatEmptySeq DEF IInv, Types, Sent
<1> QED
  BY <1>1, <1>2 DEF IInv, Types, Counts, Lined, Outstanding

LEMMA MessageStep == ASSUME IInv, ProcessMessage PROVE IInv'
<1> DEFINE m == Head(buffer)
<1>1. /\ updatePc = "messages" /\ updatePc' = updatePc /\ buffer # << >>
      /\ task' = [task EXCEPT ![m.to] = TaskAfter(task[m.to], m)]
      /\ buffer' = Tail(buffer) /\ UNCHANGED <<queue, refreshOnceCounter, asked, life>>
  BY DEF ProcessMessage, apiVars, notifyVars, historyVars
<1>2. /\ Sent \in Seq(Messages) /\ Sent # << >> /\ Sent' = Tail(Sent) /\ m = Sent[1]
      /\ m \in Messages /\ buffer' \in Seq(Messages)
  BY <1>1, ConcatProperties, ConcatSimplifications, HeadTailProperties DEF IInv, Types, Sent
<1>3. /\ Len(Sent) \in Nat \ {0} /\ Len(Sent') = Len(Sent) - 1
      /\ \A i \in 1 .. Len(Sent') : i + 1 \in 1 .. Len(Sent) /\ Sent'[i] = Sent[i + 1]
  BY <1>2, HeadTailProperties
<1> HIDE DEF m
<1>4. PICK t \in Tasks : m.to = t
  BY <1>2 DEF Messages
<1>5. TaskAfter(task[t], m) \in Task /\ task[t] \in Task
  <2>1. task[t] \in Task
    BY DEF IInv, Types
  <2> QED
    BY <2>1, <1>2, TaskAfterFacts
<1>6. task' \in [Tasks -> Task] /\ \A u \in Tasks : task'[u] = IF u = t THEN TaskAfter(task[t], m)
                                                                  ELSE task[u]
  BY <1>1, <1>4, <1>5 DEF IInv, Types
<1>7. Types' /\ (updatePc' # "messages" => buffer' = << >>)
  BY <1>1, <1>2, <1>6 DEF IInv, Types
<1>8. /\ IsAdd(m, t) => ~task[t].exists /\ refreshOnceCounter[t] = 0 /\ life[t] # "new"
      /\ IsRequest(m, t) => task[t].request < m.value /\ m.value <= asked[t]
  BY <1>2, <1>3 DEF IInv, Lined
<1>9. /\ m.op = "Add" => IsAdd(m, t)
      /\ m.op = "Refresh" /\ m.value > 0 => IsRequest(m, t)
      /\ m.value \in Nat /\ asked[t] \in Nat /\ refreshOnceCounter[t] \in Nat
  BY <1>2, <1>4 DEF IsAdd, IsRequest, Messages, IInv, Types
<1>9a. Becomes(task[t], m, task'[t]) /\ task'[t] \in Task
  BY <1>2, <1>5, <1>6, TaskAfterFacts
<1>10. Counts'
  <2>1. /\ task[t].counter \in Nat /\ task[t].request \in Nat
        /\ task[t].exists => /\ task[t].counter + Outstanding(task[t]) <= task[t].request
                             /\ refreshOnceCounter[t] <= task[t].counter
        /\ ~task[t].exists => task[t].counter = 0
        /\ task[t].request <= asked[t] /\ ~task[t].notify
        /\ life[t] = "new" => ~task[t].exists /\ refreshOnceCounter[t] = 0
    BY <1>5 DEF IInv, Counts, Task
  <2> DEFINE r == task'[t]
  <2>0. r \in Task /\ ~r.notify
    BY <2>1, <1>9a DEF Becomes
  <2>2. /\ r.exists => /\ r.counter + Outstanding(r) <= r.request
                       /\ refreshOnceCounter[t] <= r.counter
        /\ ~r.exists => r.counter = 0
        /\ r.request <= asked[t] /\ ~r.notify
        /\ life[t] = "new" => ~r.exists
    <3>1. CASE m.op = "Add"
      <4>1. r.exists /\ r.counter = 0 /\ r.request = 0 /\ r.state = "CONTINUOUSLY"
        BY <1>9a, <3>1 DEF Becomes
      <4> HIDE DEF r
      <4> QED
        BY <2>0, <4>1, <3>1, <1>8, <1>9 DEF Outstanding, Number
    <3>2. CASE m.op = "Remove"
      <4>1. ~r.exists /\ r.counter = 0 /\ r.request = 0
        BY <1>9a, <3>2 DEF Becomes
      <4> HIDE DEF r
      <4> QED
        BY <2>0, <4>1, <1>9
    <3>3. CASE m.op = "Refresh" /\ m.value > 0
      <4>1. (r.exists <=> task[t].exists) /\ r.counter = task[t].counter /\ r.request = m.value
        BY <1>9a, <3>3 DEF Becomes
      <4> HIDE DEF r
      <4>2. Outstanding(r) \in {0, 1} /\ Outstanding(task[t]) \in {0, 1}
        BY DEF Outstanding, Number
      <4> QED
        BY <2>0, <4>1, <4>2, <3>3, <2>1, <1>8, <1>9
    <3>4. CASE m.op \notin {"Add", "Remove"} /\ ~(m.op = "Refresh" /\ m.value > 0)
      <4>1. /\ (r.exists <=> task[t].exists) /\ r.counter = task[t].counter
            /\ r.request = task[t].request /\ r.state \in {task[t].state, "CONTINUOUSLY"}
        BY <1>9a, <3>4 DEF Becomes
      <4> HIDE DEF r
      <4>2. /\ Outstanding(r) \in {0, 1} /\ Outstanding(task[t]) \in {0, 1}
            /\ Outstanding(r) <= Outstanding(task[t])
        BY <4>1 DEF Outstanding, Number
      <4> QED
        BY <2>0, <4>1, <4>2, <2>1
    <3> QED
      BY <3>1, <3>2, <3>3, <3>4
  <2> HIDE DEF r
  <2>3. task'[t] = r /\ \A u \in Tasks : u # t => task'[u] = task[u]
    BY <1>6 DEF r
  <2>4. SUFFICES ASSUME NEW u \in Tasks
                 PROVE  /\ task'[u].exists =>
                             /\ task'[u].counter + Outstanding(task'[u]) <= task'[u].request
                             /\ refreshOnceCounter[u] <= task'[u].counter
                        /\ ~task'[u].exists => task'[u].counter = 0
                        /\ task'[u].request <= asked[u] /\ ~task'[u].notify
                        /\ life[u] = "new" => ~task'[u].exists /\ refreshOnceCounter[u] = 0
    BY <1>1 DEF Counts, Outstanding
  <2>5. CASE u = t
    BY <2>1, <2>2, <2>3, <2>5
  <2>6. CASE u # t
    BY <2>3, <2>6 DEF IInv, Counts
  <2> QED
    BY <2>5, <2>6
<1>11. \A u \in Tasks : \A i \in 1 .. Len(Sent') :
         IsRequest(Sent'[i], u) => task'[u].request < Sent'[i].value
  <2> SUFFICES ASSUME NEW u \in Tasks, NEW i \in 1 .. Len(Sent'), IsRequest(Sent'[i], u)
               PROVE  task'[u].request < Sent'[i].value
    OBVIOUS
  <2>1. i + 1 \in 1 .. Len(Sent) /\ Sent'[i] = Sent[i + 1] /\ 1 \in 1 .. Len(Sent) /\ 1 < i + 1
    BY <1>3
  <2>2. task[u].request < Sent'[i].value
    BY <2>1 DEF IInv, Lined
  <2>3. IsRequest(m, u) => m.value < Sent'[i].value
    BY <2>1, <1>2 DEF IInv, Lined
  <2>4. Sent'[i].value > 0
    BY DEF IsRequest
  <2>5. CASE u # t
    BY <2>5, <2>2, <1>6
  <2>6. CASE u = t
    <3>1. task'[u].request \in {0, task[u].request}
            \/ (IsRequest(m, u) /\ task'[u].request = m.value)
      BY <2>6, <1>5, <1>9, <1>9a DEF Becomes
    <3> QED
      BY <3>1, <2>2, <2>3, <2>4
  <2> QED
    BY <2>5, <2>6
<1>12. \A u \in Tasks : \A i \in 1 .. Len(Sent') : IsAdd(Sent'[i], u) => ~task'[u].exists
  <2> SUFFICES ASSUME NEW u \in Tasks, NEW i \in 1 .. Len(Sent'), IsAdd(Sent'[i], u)
               PROVE  ~task'[u].exists
    OBVIOUS
  <2>1. i + 1 \in 1 .. Len(Sent) /\ Sent'[i] = Sent[i + 1] /\ 1 \in 1 .. Len(Sent) /\ 1 # i + 1
    BY <1>3
  <2>2. ~task[u].exists /\ ~IsAdd(m, u)
    BY <2>1, <1>2 DEF IInv, Lined
  <2>3. CASE u # t
    BY <2>2, <2>3, <1>6
  <2>4. CASE u = t
    BY <2>2, <2>4, <1>9, <1>9a DEF Becomes
  <2> QED
    BY <2>3, <2>4
<1>13. Lined(Sent)'
  <2>1. \A i \in 1 .. Len(Sent') : i + 1 \in 1 .. Len(Sent) /\ Sent'[i] = Sent[i + 1]
    BY <1>3
  <2>2. Lined(Sent)
    BY DEF IInv
  <2>3. ASSUME NEW u \in Tasks, NEW i \in 1 .. Len(Sent'), IsRequest(Sent'[i], u)
        PROVE  task'[u].request < Sent'[i].value /\ Sent'[i].value <= asked[u]
    BY <2>1, <2>2, <2>3, <1>11 DEF Lined
  <2>4. ASSUME NEW u \in Tasks, NEW i \in 1 .. Len(Sent'), NEW j \in 1 .. Len(Sent'),
               i < j, IsRequest(Sent'[i], u), IsRequest(Sent'[j], u)
        PROVE  Sent'[i].value < Sent'[j].value
    <3>1. i + 1 < j + 1
      BY <2>4
    <3> QED
      BY <3>1, <2>1, <2>2, <2>4 DEF Lined
  <2>5. ASSUME NEW u \in Tasks, NEW i \in 1 .. Len(Sent'), IsAdd(Sent'[i], u)
        PROVE  ~task'[u].exists /\ refreshOnceCounter[u] = 0 /\ life[u] # "new"
    BY <2>1, <2>2, <2>5, <1>12 DEF Lined
  <2>6. ASSUME NEW u \in Tasks, NEW i \in 1 .. Len(Sent'), NEW j \in 1 .. Len(Sent'),
               IsAdd(Sent'[i], u), IsAdd(Sent'[j], u)
        PROVE  i = j
    <3>1. i + 1 = j + 1
      BY <2>1, <2>2, <2>6 DEF Lined
    <3> QED
      BY <3>1
  <2> QED
    BY <2>3, <2>4, <2>5, <2>6, <1>1 DEF Lined
<1> QED
  BY <1>7, <1>10, <1>13 DEF IInv

\* At the end of Update a request is counted when its task leaves the two
\* states in which it is outstanding.
LEMMA UpdateTasksStep == ASSUME IInv, UpdateTasks PROVE IInv'
<1>1. /\ updatePc = "tasks" /\ updatePc' = "complete"
      /\ task' = [t \in Tasks |-> IF task[t].exists THEN Counted(UpdatedState(t)) ELSE task[t]]
      /\ UNCHANGED <<buffer, queue, refreshOnceCounter, asked, life>>
  BY DEF UpdateTasks, apiVars, notifyVars, historyVars
<1>2. \A t \in Tasks :
        /\ task'[t] \in Task /\ (task'[t].exists <=> task[t].exists)
        /\ task'[t].request = task[t].request /\ ~task'[t].notify
        /\ task[t].exists => /\ task'[t].counter >= task[t].counter
                             /\ task'[t].counter + Outstanding(task'[t])
                                  <= task[t].counter + Outstanding(task[t])
        /\ ~task[t].exists => task'[t] = task[t]
  <2> TAKE t \in Tasks
  <2>1. task[t] \in Task /\ task'[t] = IF task[t].exists THEN Counted(UpdatedState(t)) ELSE task[t]
    BY <1>1 DEF IInv, Types
  <2> DEFINE s == UpdatedState(t)
             r == Counted(s)
  <2>2. /\ s \in Task /\ (s.exists <=> task[t].exists) /\ s.request = task[t].request
        /\ s.counter = task[t].counter /\ Outstanding(s) = Outstanding(task[t])
    BY <2>1 DEF UpdatedState, HasFinishedRendering, IsSynced, Task, States, Outstanding, Number
  <2>3. ~task[t].notify /\ (s.notify => s.state = "RENDERED_ONCE")
    BY <2>1 DEF UpdatedState, Task, IInv, Counts
  <2> HIDE DEF s
  <2>4. /\ r \in Task /\ (r.exists <=> s.exists) /\ r.request = s.request /\ ~r.notify
        /\ s.counter \in Nat /\ r.counter >= s.counter
        /\ r.counter + Outstanding(r) <= s.counter + Outstanding(s)
    <3>1. CASE s.notify
      <4>1. /\ r \in Task /\ (r.exists <=> s.exists) /\ r.request = s.request /\ ~r.notify
            /\ s.counter \in Nat /\ r.counter = s.counter + 1 /\ r.state = "ONCE_AND_NOTIFIED"
        <5>1. PICK n \in Nat : n = s.counter + 1
          BY <2>2 DEF Task
        <5>2. r = [s EXCEPT !.counter = n, !.notify = FALSE, !.state = "ONCE_AND_NOTIFIED"]
          BY <3>1, <5>1 DEF Counted
        <5> HIDE DEF r
        <5> QED
          BY ONLY <2>2, <5>1, <5>2 DEF Task, States
      <4>2. Outstanding(r) = 0 /\ Outstanding(s) = 1
        BY <4>1, <2>3, <3>1 DEF Outstanding, Number
      <4> QED
        BY <4>1, <4>2
    <3>2. CASE ~s.notify
      <4>1. r = s /\ s.counter \in Nat /\ Outstanding(s) \in {0, 1}
        BY <2>2, <3>2 DEF Counted, Task, Outstanding, Number
      <4> QED
        BY <4>1, <2>2, <3>2
    <3> QED
      BY <3>1, <3>2
  <2>5. CASE task[t].exists
    BY <2>1, <2>2, <2>4, <2>5 DEF s
  <2>6. CASE ~task[t].exists
    BY <2>1, <2>3, <2>6
  <2> QED
    BY <2>5, <2>6
<1>3. Types' /\ (updatePc' # "messages" => buffer' = << >>)
  BY <1>1, <1>2 DEF IInv, Types
<1>4. \A t \in Tasks : Outstanding(task'[t]) \in {0, 1} /\ Outstanding(task[t]) \in {0, 1}
  BY DEF Outstanding, Number
<1>5. \A t \in Tasks : /\ task[t].counter \in Nat /\ task'[t].counter \in Nat
                        /\ refreshOnceCounter[t] \in Nat /\ task[t].request \in Nat
  BY <1>2 DEF IInv, Types, Task
<1>6. Counts'
  <2> SUFFICES ASSUME NEW t \in Tasks
               PROVE  /\ task'[t].exists =>
                           /\ task'[t].counter + Outstanding(task'[t]) <= task'[t].request
                           /\ refreshOnceCounter[t] <= task'[t].counter
                      /\ ~task'[t].exists => task'[t].counter = 0
                      /\ task'[t].request <= asked[t] /\ ~task'[t].notify
                      /\ life[t] = "new" => ~task'[t].exists /\ refreshOnceCounter[t] = 0
    BY <1>1 DEF Counts, Outstanding
  <2> QED
    BY <1>2, <1>4, <1>5 DEF IInv, Counts
<1>7. Sent' = Sent
  BY <1>1 DEF Sent
<1>8. Lined(Sent)'
  BY <1>1, <1>2, <1>7 DEF IInv, Lined
<1> QED
  BY <1>3, <1>6, <1>8 DEF IInv

\* The event thread signals what was counted.
LEMMA NotifyStep == ASSUME IInv, NotifyCompleted PROVE IInv'
<1> DEFINE done == {t \in Head(completions) : HasFinished(t)}
<1>1. /\ refreshOnceCounter' = [t \in Tasks |-> IF t \in done THEN task[t].counter
                                                ELSE refreshOnceCounter[t]]
      /\ UNCHANGED <<buffer, queue, updatePc, task, asked, life>>
  BY DEF NotifyCompleted, apiVars, frameVars, historyVars
<1>2. \A t \in Tasks : t \in done => refreshOnceCounter[t] < task[t].counter
  BY DEF HasFinished
<1> HIDE DEF done
<1>3. \A t \in Tasks : task[t].counter \in Nat /\ refreshOnceCounter[t] \in Nat
  BY DEF IInv, Types, Task
<1>4. task \in [Tasks -> Task] /\ \A t \in Tasks : ~task[t].exists => task[t].counter = 0
  BY DEF IInv, Types, Counts
<1>5. Types' /\ (updatePc' # "messages" => buffer' = << >>)
  <2>1. refreshOnceCounter' \in [Tasks -> Nat]
    BY ONLY <1>1, <1>3
  <2> QED
    BY <1>1, <2>1 DEF IInv, Types
<1>6. \A t \in Tasks :
        \/ refreshOnceCounter'[t] = refreshOnceCounter[t]
        \/ refreshOnceCounter'[t] = task[t].counter /\ task[t].counter > 0
  BY ONLY <1>1, <1>2, <1>3
<1>7. Counts'
  BY <1>1, <1>6, <1>3 DEF IInv, Counts, Outstanding
<1>8. Sent' = Sent
  BY <1>1 DEF Sent
<1>9. \A t \in Tasks : ~task[t].exists => refreshOnceCounter'[t] = refreshOnceCounter[t]
  BY ONLY <1>3, <1>4, <1>6 DEF Task
<1>10. Lined(Sent)'
  BY <1>1, <1>8, <1>9 DEF IInv, Lined
<1> QED
  BY <1>5, <1>7, <1>10 DEF IInv

LEMMA IInvStep == IInv /\ [Next]_vars => IInv'
<1> SUFFICES ASSUME IInv, [Next]_vars PROVE IInv'
  OBVIOUS
<1>1. CASE \/ ProcessTasks \/ UpdateCompleted \/ RenderScene \/ PostRender \/ CallbackReturns
           \/ \E t \in Tasks : EmitSignalFinish(t) \/ Synced(t)
           \/ UNCHANGED vars
  <2>1. /\ UNCHANGED <<buffer, queue, task, refreshOnceCounter, asked, life>>
        /\ updatePc' # "messages" => updatePc # "messages" \/ buffer = << >>
    BY <1>1 DEF ProcessTasks, UpdateCompleted, RenderScene, PostRender, CallbackReturns,
                EmitSignalFinish, Synced, vars, apiVars, notifyVars, frameVars, historyVars
  <2>2. Sent' = Sent
    BY <2>1 DEF Sent
  <2> QED
    BY <2>1, <2>2 DEF IInv, Types, Counts, Lined, Outstanding
<1>2. CASE \E t \in Tasks : Calls(t)
  <2>1. PICK t \in Tasks : Calls(t)
    BY <1>2
  <2>2. CASE \E b \in BOOLEAN : CreateTask(t, b)
    BY <2>2, CreateStep
  <2>3. CASE RefreshOnce(t)
    BY <2>3, RequestStep
  <2>4. CASE \/ RefreshAlways(t) \/ KeepRenderResult(t) \/ ClearRenderResult(t) \/ RemoveTask(t)
             \/ \E b \in BOOLEAN : Connect(t, b) \/ SetSyncRequired(t, b)
    BY <2>4, OtherCallStep
  <2> QED
    BY <2>1, <2>2, <2>3, <2>4 DEF Calls
<1> QED
  BY <1>1, <1>2, BeginStep, MessageStep, UpdateTasksStep, NotifyStep DEF Next, UpdateRuns, EventRuns

\* However requests, frames and notifications meet, a task is never told to be
\* finished more often than it was asked for, and a request that is still to
\* be drawn has not been counted.
THEOREM FinishedOncePerRequestHolds == Spec => []FinishedOncePerRequest
<1>1. IInv => FinishedOncePerRequest
  BY DEF IInv, Counts, FinishedOncePerRequest, Outstanding
<1> QED
  BY <1>1, InitHasIInv, IInvStep, PTL DEF Spec

(***************************************************************************)
(* What was counted is announced: nothing waits in notifyRequired when     *)
(* Update looks for the tasks that are finished, so that none is           *)
(* overwritten, and a task whose completion is read has no count left for  *)
(* the later ones to announce.                                             *)
(***************************************************************************)
Announcing ==
  /\ completions \in Seq(SUBSET Tasks) /\ notifyRequired \subseteq Tasks
  /\ updatePc # "complete" => notifyRequired = {}
  /\ CompletionIsAnnounced

LEMMA AnnouncingInit == Init => Announcing
<1> SUFFICES ASSUME Init PROVE Announcing
  OBVIOUS
<1>1. completions = << >> /\ notifyRequired = {} /\ asked = [t \in Tasks |-> 0]
  BY DEF Init
<1>2. IInv
  BY InitHasIInv
<1>3. ASSUME NEW t \in Tasks PROVE ~HasFinished(t)
  <2>1. /\ task[t].counter \in Nat /\ task[t].request \in Nat /\ refreshOnceCounter[t] \in Nat
        /\ asked[t] = 0 /\ Outstanding(task[t]) \in {0, 1}
    BY <1>1, <1>2 DEF IInv, Types, Task, Outstanding, Number
  <2>2. task[t].counter = 0
    BY <1>2, <2>1 DEF IInv, Counts
  <2> QED
    BY <2>1, <2>2 DEF HasFinished
<1> QED
  BY <1>1, <1>3 DEF Announcing, CompletionIsAnnounced

\* A step that neither counts nor takes a completion has nothing to announce.
LEMMA StillAnnounced ==
  ASSUME Announcing, UNCHANGED <<completions, notifyRequired>>,
         updatePc' # "complete" => notifyRequired = {},
         \A t \in Tasks : HasFinished(t)' => HasFinished(t)
  PROVE  Announcing'
<1>1. ASSUME NEW t \in Tasks, HasFinished(t)'
      PROVE  t \in notifyRequired' \/ \E i \in DOMAIN completions' : t \in completions'[i]
  BY <1>1 DEF Announcing, CompletionIsAnnounced
<1>2. CompletionIsAnnounced'
  BY <1>1 DEF CompletionIsAnnounced
<1> QED
  BY <1>2 DEF Announcing

LEMMA UpdateTasksAnnounces == ASSUME IInv, Announcing, UpdateTasks PROVE Announcing'
<1>1. /\ updatePc = "tasks" /\ updatePc' = "complete" /\ notifyRequired' = Notified
      /\ task' = [t \in Tasks |-> IF task[t].exists THEN Counted(UpdatedState(t)) ELSE task[t]]
      /\ UNCHANGED <<completions, life, refreshOnceCounter>>
  BY DEF UpdateTasks, apiVars, notifyVars
<1>2. \A t \in Tasks : t \notin Notified => task'[t].counter = task[t].counter
  <2> SUFFICES ASSUME NEW t \in Tasks, t \notin Notified, task[t].exists
               PROVE  task'[t].counter = task[t].counter
    BY <1>1
  <2> DEFINE s == UpdatedState(t)
  <2>1. s.counter = task[t].counter
    BY DEF UpdatedState, IInv, Types, Task
  <2>2. ~s.notify
    BY DEF Notified
  <2> HIDE DEF s
  <2>3. Counted(s) = s
    BY <2>2 DEF Counted
  <2> QED
    BY <1>1, <2>1, <2>3 DEF s
<1>3. ASSUME NEW t \in Tasks, HasFinished(t)'
      PROVE  t \in notifyRequired' \/ \E i \in DOMAIN completions' : t \in completions'[i]
  <2>1. CASE t \in Notified
    BY <1>1, <2>1
  <2>2. CASE t \notin Notified
    <3>1. HasFinished(t)
      BY <1>1, <1>2, <1>3, <2>2 DEF HasFinished
    <3> QED
      BY <1>1, <3>1 DEF Announcing, CompletionIsAnnounced
  <2> QED
    BY <2>1, <2>2
<1>4. Notified \subseteq Tasks
  BY DEF Notified
<1> QED
  BY <1>1, <1>3, <1>4 DEF Announcing, CompletionIsAnnounced

LEMMA UpdateCompletedAnnounces == ASSUME Announcing, UpdateCompleted PROVE Announcing'
<1>1. /\ completions' = IF notifyRequired = {} THEN completions ELSE Append(completions, notifyRequired)
      /\ notifyRequired' = {} /\ UNCHANGED <<life, refreshOnceCounter, task>>
  BY DEF UpdateCompleted, apiVars, notifyVars
<1>2. completions \in Seq(SUBSET Tasks) /\ notifyRequired \in SUBSET Tasks
  BY DEF Announcing
<1>3. completions' \in Seq(SUBSET Tasks)
  BY <1>1, <1>2
<1>4. ASSUME NEW t \in Tasks, HasFinished(t)'
      PROVE  \E i \in DOMAIN completions' : t \in completions'[i]
  <2>1. HasFinished(t)
    BY <1>1, <1>4 DEF HasFinished
  <2>2. t \in notifyRequired \/ \E i \in DOMAIN completions : t \in completions[i]
    BY <2>1 DEF Announcing, CompletionIsAnnounced
  <2>3. CASE notifyRequired = {}
    BY <1>1, <2>2, <2>3
  <2>4. CASE notifyRequired # {}
    <3>1. /\ Len(completions) \in Nat /\ Len(completions') = Len(completions) + 1
          /\ DOMAIN completions = 1 .. Len(completions)
          /\ DOMAIN completions' = 1 .. Len(completions')
          /\ \A i \in 1 .. Len(completions) : completions'[i] = completions[i]
          /\ completions'[Len(completions) + 1] = notifyRequired
      BY <1>1, <1>2, <2>4
    <3> QED
      BY <2>2, <3>1
  <2> QED
    BY <2>3, <2>4
<1> QED
  BY <1>1, <1>3, <1>4 DEF Announcing, CompletionIsAnnounced

LEMMA NotifyAnnounces == ASSUME IInv, Announcing, NotifyCompleted PROVE Announcing'
<1> DEFINE done == {t \in Head(completions) : HasFinished(t)}
<1>1. /\ completions # << >> /\ completions' = Tail(completions)
      /\ refreshOnceCounter' = [t \in Tasks |-> IF t \in done THEN task[t].counter
                                                ELSE refreshOnceCounter[t]]
      /\ UNCHANGED <<life, task, notifyRequired, updatePc>>
  BY DEF NotifyCompleted, apiVars, frameVars
<1>2. /\ Len(completions) \in Nat \ {0} /\ completions' \in Seq(SUBSET Tasks)
      /\ Len(completions') = Len(completions) - 1
      /\ \A i \in 1 .. Len(completions) - 1 : completions'[i] = completions[i + 1]
      /\ Head(completions) = completions[1]
      /\ DOMAIN completions = 1 .. Len(completions)
      /\ DOMAIN completions' = 1 .. Len(completions) - 1
  BY <1>1, HeadTailProperties DEF Announcing
<1>3. ASSUME NEW t \in Tasks, HasFinished(t)'
      PROVE  t \in notifyRequired' \/ \E i \in DOMAIN completions' : t \in completions'[i]
  <2>1. /\ task[t].counter \in Nat /\ life[t] = "listed"
        /\ refreshOnceCounter'[t] < task[t].counter
    BY <1>1, <1>3 DEF HasFinished, IInv, Types, Task
  <2>2. t \notin done
    BY <1>1, <2>1
  <2>3. HasFinished(t)
    BY <1>1, <2>1, <2>2 DEF HasFinished
  <2>4. t \notin completions[1]
    BY <1>2, <2>2, <2>3
  <2>5. t \in notifyRequired \/ \E i \in DOMAIN completions : t \in completions[i]
    BY <2>3 DEF Announcing, CompletionIsAnnounced
  <2>6. CASE \E i \in DOMAIN completions : t \in completions[i]
    <3>1. PICK i \in 1 .. Len(completions) : t \in completions[i]
      BY <1>2, <2>6
    <3>2. i - 1 \in 1 .. Len(completions) - 1 /\ (i - 1) + 1 = i
      BY <1>2, <2>4, <3>1
    <3> QED
      BY <1>2, <3>1, <3>2
  <2> QED
    BY <1>1, <2>5, <2>6
<1> QED
  BY <1>1, <1>2, <1>3 DEF Announcing, CompletionIsAnnounced

LEMMA AnnouncingStep == IInv /\ Announcing /\ [Next]_vars => Announcing'
<1> SUFFICES ASSUME IInv, Announcing, [Next]_vars PROVE Announcing'
  OBVIOUS
<1>1. CASE \/ UpdateBegin \/ ProcessTasks \/ RenderScene \/ PostRender \/ CallbackReturns
           \/ \E t \in Tasks : EmitSignalFinish(t) \/ Synced(t)
           \/ UNCHANGED vars
  <2>1. /\ UNCHANGED <<completions, notifyRequired, refreshOnceCounter, task, life>>
        /\ updatePc' # "complete" => updatePc # "complete"
    <3> USE DEF apiVars, notifyVars, frameVars
    <3>1. CASE UpdateBegin \/ ProcessTasks
      BY <3>1 DEF UpdateBegin, ProcessTasks
    <3>2. CASE RenderScene
      BY <3>2 DEF RenderScene
    <3>2a. CASE PostRender
      BY <3>2a, Zenon DEF PostRender
    <3>3. CASE CallbackReturns \/ \E t \in Tasks : EmitSignalFinish(t)
      BY <3>3 DEF CallbackReturns, EmitSignalFinish
    <3>4. CASE \E t \in Tasks : Synced(t)
      BY <3>4 DEF Synced
    <3>5. CASE UNCHANGED vars
      BY <3>5 DEF vars
    <3> QED
      BY <1>1, <3>1, <3>2, <3>2a, <3>3, <3>4, <3>5
  <2>2. \A t \in Tasks : HasFinished(t)' => HasFinished(t)
    BY <2>1 DEF HasFinished
  <2> QED
    BY <2>1, <2>2, StillAnnounced DEF Announcing
<1>2. CASE \E t \in Tasks : Calls(t)
  <2>1. PICK t \in Tasks : Calls(t)
    BY <1>2
  <2>2. /\ UNCHANGED <<completions, notifyRequired, refreshOnceCounter, task, updatePc>>
        /\ \A u \in Tasks : life'[u] = "listed" => life[u] \in {"new", "listed"}
    <3> USE DEF Call, notifyVars, frameVars
    <3>1. life \in [Tasks -> {"new", "listed", "removed"}]
      BY DEF IInv, Types
    <3>2. CASE \E b \in BOOLEAN : CreateTask(t, b)
      BY <3>1, <3>2 DEF CreateTask
    <3>3. CASE RefreshOnce(t) \/ RefreshAlways(t)
      BY <3>1, <3>3 DEF RefreshOnce, RefreshAlways
    <3>4. CASE KeepRenderResult(t) \/ ClearRenderResult(t)
      BY <3>1, <3>4 DEF KeepRenderResult, ClearRenderResult
    <3>5. CASE RemoveTask(t)
      BY <3>1, <3>5 DEF RemoveTask
    <3>6. CASE \E b \in BOOLEAN : Connect(t, b) \/ SetSyncRequired(t, b)
      BY <3>1, <3>6 DEF Connect, SetSyncRequired
    <3> QED
      BY <2>1, <3>2, <3>3, <3>4, <3>5, <3>6 DEF Calls
  <2>3. \A u \in Tasks : HasFinished(u)' => HasFinished(u)
    <3>1. \A u \in Tasks : life[u] = "new" => ~(refreshOnceCounter[u] < task[u].counter)
      BY DEF IInv, Counts
    <3> QED
      BY <2>2, <3>1 DEF HasFinished
  <2> QED
    BY <2>2, <2>3, StillAnnounced DEF Announcing
<1>3. CASE ProcessMessage
  <2>1. /\ UNCHANGED <<completions, notifyRequired, refreshOnceCounter, life, updatePc>>
        /\ \A t \in Tasks : task'[t].counter \in {0, task[t].counter}
    <3> DEFINE m == Head(buffer)
    <3>1. /\ task' = [task EXCEPT ![m.to] = TaskAfter(task[m.to], m)]
          /\ m \in Messages /\ buffer # << >>
          /\ UNCHANGED <<completions, notifyRequired, refreshOnceCounter, life, updatePc>>
      BY <1>3, HeadTailProperties DEF ProcessMessage, IInv, Types, apiVars, notifyVars
    <3> HIDE DEF m
    <3>2. m.to \in Tasks /\ task \in [Tasks -> Task]
      BY <3>1 DEF Messages, IInv, Types
    <3>3. Becomes(task[m.to], m, TaskAfter(task[m.to], m))
      BY <3>1, <3>2, TaskAfterFacts
    <3>4. TaskAfter(task[m.to], m).counter \in {0, task[m.to].counter}
      BY <3>3 DEF Becomes
    <3> QED
      BY <3>1, <3>2, <3>4
  <2>2. \A t \in Tasks : refreshOnceCounter[t] \in Nat
    BY DEF IInv, Types
  <2>3. \A t \in Tasks : HasFinished(t)' => HasFinished(t)
    BY <2>1, <2>2 DEF HasFinished
  <2> QED
    BY <2>1, <2>3, StillAnnounced DEF Announcing
<1> QED
  BY <1>1, <1>2, <1>3, UpdateTasksAnnounces, UpdateCompletedAnnounces, NotifyAnnounces
  DEF Next, UpdateRuns, EventRuns

\* A request that was counted is on its way to the event thread until it is
\* signalled.
THEOREM CompletionIsAnnouncedHolds == Spec => []CompletionIsAnnounced
<1>1. Announcing => CompletionIsAnnounced
  BY DEF Announcing
<1> QED
  BY <1>1, InitHasIInv, IInvStep, AnnouncingInit, AnnouncingStep, PTL DEF Spec

(***************************************************************************)
(* The GPU and the state of a request.  A sync object belongs to a tracker *)
(* of a task with a frame buffer, and the tracker of a pass that is still  *)
(* to be recorded in this frame is there already: with a tracker a request *)
(* is finished by the trigger alone, which is down while a pass is drawn.  *)
(***************************************************************************)
HasTracker(t) ==
  tracker[t].object # "none" => t \in Offscreen /\ tracker[t].exists

InThisFrame(t) ==
  /\ updatePc \in {"tasks", "complete", "render"} /\ t \in instructions
  /\ task[t].state \in {"WAITING_FOR_RESOURCES", "RENDERED_ONCE"}
  /\ task[t].requiresSync

GpuFirst(t) ==
  tracker[t].object # "none" => /\ ~tracker[t].trigger
                                /\ task[t].request = drawn[t] =>
                                     task[t].state # "ONCE_AND_NOTIFIED"

Tracking ==
  /\ tracker \in [Tasks -> Tracker]
  /\ \A t \in Tasks : HasTracker(t) /\ (InThisFrame(t) => tracker[t].exists) /\ GpuFirst(t)

LEMMA TrackingInit == Init => Tracking
<1> SUFFICES ASSUME Init PROVE Tracking
  OBVIOUS
<1>1. tracker = [t \in Tasks |-> NoTracker] /\ updatePc = "idle"
  BY DEF Init
<1>2. NoTracker \in Tracker /\ NoTracker.object = "none"
  BY DEF NoTracker, Tracker
<1>3. tracker \in [Tasks -> Tracker] /\ \A t \in Tasks : tracker[t].object = "none"
  BY <1>1, <1>2
<1> QED
  BY <1>1, <1>3 DEF Tracking, HasTracker, InThisFrame, GpuFirst

\* The trackers stay, and no request is finished.
LEMMA StillTracking ==
  ASSUME Tracking, UNCHANGED <<tracker, drawn>>,
         \A t \in Tasks : InThisFrame(t)' => InThisFrame(t),
         \A t \in Tasks : task'[t].state = "ONCE_AND_NOTIFIED" =>
                            task[t].state = "ONCE_AND_NOTIFIED" /\ task'[t].request = task[t].request
  PROVE  Tracking'
BY DEF Tracking, HasTracker, GpuFirst

\* A message makes a request that is not finished, or leaves the request as
\* it is.
LEMMA MessageTracks == ASSUME IInv, Tracking, ProcessMessage PROVE Tracking'
<1> DEFINE m == Head(buffer)
<1>1. /\ updatePc' = "messages" /\ UNCHANGED drawn
      /\ task' = [task EXCEPT ![m.to] = TaskAfter(task[m.to], m)]
      /\ tracker' = IF m.op = "Remove" THEN [tracker EXCEPT ![m.to] = NoTracker] ELSE tracker
      /\ m \in Messages
  BY HeadTailProperties DEF ProcessMessage, IInv, Types, historyVars
<1> HIDE DEF m
<1>2. NoTracker \in Tracker /\ NoTracker.object = "none"
  BY DEF NoTracker, Tracker
<1>3. m.to \in Tasks /\ task \in [Tasks -> Task] /\ tracker \in [Tasks -> Tracker]
  BY <1>1 DEF Messages, IInv, Types, Tracking
<1>4. /\ tracker' \in [Tasks -> Tracker]
      /\ \A t \in Tasks : tracker'[t] = tracker[t] \/ tracker'[t].object = "none"
  BY <1>1, <1>2, <1>3
<1>5. LET r == TaskAfter(task[m.to], m)
      IN  r.state = "ONCE_AND_NOTIFIED" =>
            r.request = task[m.to].request /\ task[m.to].state = "ONCE_AND_NOTIFIED"
  <2> DEFINE r == TaskAfter(task[m.to], m)
  <2>1. Becomes(task[m.to], m, r)
    BY <1>1, <1>3, TaskAfterFacts
  <2>2. CASE m.op = "Refresh" /\ m.value > 0
    <3>1. r = Refreshed(task[m.to], m.value) /\ m.value # 0
      BY <2>2 DEF TaskAfter
    <3>2. r.state = "WAITING_FOR_RESOURCES"
      BY <1>3, <3>1 DEF Refreshed, Task
    <3> QED
      BY <3>2
  <2>3. CASE m.op = "Add"
    BY <2>1, <2>3 DEF Becomes
  <2>4. CASE m.op = "Remove"
    BY <2>4 DEF TaskAfter, NoTask, NewTask
  <2>5. CASE m.op \notin {"Add", "Remove"} /\ ~(m.op = "Refresh" /\ m.value > 0)
    BY <2>1, <2>5 DEF Becomes
  <2> QED
    BY <2>2, <2>3, <2>4, <2>5
<1>6. \A t \in Tasks : task'[t].state = "ONCE_AND_NOTIFIED" =>
        task'[t].request = task[t].request /\ task[t].state = "ONCE_AND_NOTIFIED"
  BY <1>1, <1>3, <1>5
<1> QED
  BY <1>1, <1>4, <1>6 DEF Tracking, HasTracker, InThisFrame, GpuFirst

\* A request that is drawn once has an instruction only in a frame in which
\* the tasks are processed, which makes the tracker.
LEMMA ProcessTasksTracks == ASSUME Tracking, ProcessTasks PROVE Tracking'
<1>1. PICK processed \in BOOLEAN :
        /\ instructions' \in SUBSET (IF processed THEN Required ELSE Required \ Once(Required))
        /\ tracker' = [t \in Tasks |->
                         IF processed /\ t \in Once(Required) /\ task[t].requiresSync
                         THEN [tracker[t] EXCEPT !.exists = TRUE] ELSE tracker[t]]
  BY DEF ProcessTasks
<1>2. UNCHANGED <<task, drawn>>
  BY DEF ProcessTasks, historyVars
<1>3. tracker \in [Tasks -> Tracker]
  BY DEF Tracking
<1>4. \A t \in Tasks :
        /\ tracker'[t] \in Tracker /\ tracker'[t].object = tracker[t].object
        /\ tracker'[t].trigger = tracker[t].trigger
        /\ tracker[t].exists => tracker'[t].exists
        /\ processed /\ t \in Once(Required) /\ task[t].requiresSync => tracker'[t].exists
  BY <1>1, <1>3 DEF Tracker
<1>5. tracker' \in [Tasks -> Tracker]
  BY <1>1, <1>4
<1>6. ASSUME NEW t \in Tasks, InThisFrame(t)' PROVE tracker'[t].exists
  <2>1. t \in Required /\ (~processed => t \notin Once(Required)) /\ task[t].requiresSync
    BY <1>1, <1>2, <1>6 DEF InThisFrame
  <2>2. task[t].state = "WAITING_FOR_RESOURCES"
    BY <1>2, <1>6, <2>1 DEF Required, InThisFrame
  <2> QED
    BY <1>4, <2>1, <2>2 DEF Once
<1>7. ASSUME NEW t \in Tasks PROVE HasTracker(t)' /\ GpuFirst(t)'
  BY <1>2, <1>4 DEF Tracking, HasTracker, GpuFirst
<1> QED
  BY <1>5, <1>6, <1>7 DEF Tracking

\* While a pass is drawn no trigger is up, so that its request is not found
\* finished.
LEMMA UpdateTasksTracks == ASSUME IInv, Tracking, UpdateTasks PROVE Tracking'
<1>1. /\ updatePc = "tasks" /\ UNCHANGED <<drawn, instructions>>
      /\ task' = [t \in Tasks |-> IF task[t].exists THEN Counted(UpdatedState(t)) ELSE task[t]]
      /\ tracker' = [t \in Tasks |-> IF IsAsked(t) /\ tracker[t].exists
                                     THEN [tracker[t] EXCEPT !.trigger = FALSE] ELSE tracker[t]]
  BY DEF UpdateTasks, historyVars
<1>2. task \in [Tasks -> Task] /\ tracker \in [Tasks -> Tracker]
  BY DEF IInv, Types, Tracking
<1>3. \A t \in Tasks :
        /\ tracker'[t] \in Tracker /\ tracker'[t].object = tracker[t].object
        /\ tracker'[t].trigger => tracker[t].trigger
        /\ tracker'[t].exists = tracker[t].exists
  BY <1>1, <1>2 DEF Tracker
<1>4. tracker' \in [Tasks -> Tracker]
  BY <1>1, <1>3
<1>5. ASSUME NEW t \in Tasks
      PROVE  /\ task'[t].request = task[t].request /\ task'[t].requiresSync = task[t].requiresSync
             /\ task'[t].state \in {"WAITING_FOR_RESOURCES", "RENDERED_ONCE"} =>
                  task[t].state \in {"WAITING_FOR_RESOURCES", "RENDERED_ONCE"}
             /\ task'[t].state = "ONCE_AND_NOTIFIED" =>
                  \/ task[t].state = "ONCE_AND_NOTIFIED"
                  \/ HasFinishedRendering(t)
  <2> DEFINE s == UpdatedState(t)
             r == Counted(s)
  <2>0. task[t] \in Task /\ task'[t] = IF task[t].exists THEN r ELSE task[t]
    BY <1>1, <1>2
  <2>1. /\ s \in Task /\ s.request = task[t].request /\ s.requiresSync = task[t].requiresSync
        /\ s.state \in {"WAITING_FOR_RESOURCES", "RENDERED_ONCE"} =>
             task[t].state \in {"WAITING_FOR_RESOURCES", "RENDERED_ONCE"}
        /\ s.state = "ONCE_AND_NOTIFIED" => task[t].state = "ONCE_AND_NOTIFIED"
    BY <2>0 DEF UpdatedState, HasFinishedRendering, IsSynced, Task, States
  <2>2. s.notify => HasFinishedRendering(t)
    BY <2>0 DEF UpdatedState, Task, IInv, Counts
  <2> HIDE DEF s
  <2>3. /\ r.request = s.request /\ r.requiresSync = s.requiresSync
        /\ r.state \in {"WAITING_FOR_RESOURCES", "RENDERED_ONCE"} =>
             s.state \in {"WAITING_FOR_RESOURCES", "RENDERED_ONCE"}
        /\ r.state = "ONCE_AND_NOTIFIED" => s.state = "ONCE_AND_NOTIFIED" \/ s.notify
    BY <2>1 DEF Counted, Task, States
  <2> QED
    BY <2>0, <2>1, <2>2, <2>3
<1>6. ASSUME NEW t \in Tasks, InThisFrame(t)' PROVE tracker'[t].exists
  <2>1. InThisFrame(t)
    BY <1>1, <1>5, <1>6 DEF InThisFrame
  <2> QED
    BY <1>3, <2>1 DEF Tracking
<1>7. ASSUME NEW t \in Tasks PROVE HasTracker(t)'
  BY <1>3 DEF Tracking, HasTracker
<1>8. ASSUME NEW t \in Tasks PROVE GpuFirst(t)'
  <2>1. SUFFICES ASSUME tracker[t].object # "none"
                 PROVE  /\ ~tracker'[t].trigger
                        /\ task[t].request = drawn[t] => task'[t].state # "ONCE_AND_NOTIFIED"
    BY <1>1, <1>3, <1>5 DEF GpuFirst
  <2>2. /\ t \in Offscreen /\ tracker[t].exists /\ ~tracker[t].trigger
        /\ task[t].request = drawn[t] => task[t].state # "ONCE_AND_NOTIFIED"
    BY <2>1 DEF Tracking, HasTracker, GpuFirst
  <2>3. ~HasFinishedRendering(t)
    BY <2>2 DEF HasFinishedRendering, IsSynced
  <2> QED
    BY <1>3, <1>5, <2>2, <2>3
<1> QED
  BY <1>4, <1>6, <1>7, <1>8 DEF Tracking

\* A new pass takes back the trigger, and its request is not finished.
LEMMA RenderSceneTracks == ASSUME IInv, Tracking, RenderScene PROVE Tracking'
<1>1. /\ updatePc = "render" /\ updatePc' = "post" /\ UNCHANGED task
      /\ tracker' = [t \in Tasks |->
                       IF t \in DrawnOnce \cap Offscreen /\ task[t].requiresSync
                       THEN SyncCreated(tracker[t]) ELSE tracker[t]]
      /\ drawn' = [t \in Tasks |-> IF t \in DrawnOnce THEN task[t].request ELSE drawn[t]]
  BY DEF RenderScene
<1>2. tracker \in [Tasks -> Tracker]
  BY DEF Tracking
<1>3. ASSUME NEW t \in Tasks
      PROVE  tracker'[t] \in Tracker /\ HasTracker(t)' /\ GpuFirst(t)'
  <2>0. tracker[t] \in Tracker /\ HasTracker(t) /\ GpuFirst(t)
    BY <1>2 DEF Tracking
  <2>1. CASE t \in DrawnOnce \cap Offscreen /\ task[t].requiresSync
    <3>1. /\ tracker'[t] = SyncCreated(tracker[t]) /\ t \in Offscreen
          /\ task'[t].state = "RENDERED_ONCE"
      BY <1>1, <2>1 DEF DrawnOnce
    <3>2. tracker[t].exists
      BY <1>1, <2>1 DEF DrawnOnce, InThisFrame, Tracking
    <3>3. /\ tracker'[t] \in Tracker /\ tracker'[t].exists /\ ~tracker'[t].trigger
      BY <2>0, <3>1, <3>2 DEF SyncCreated, Tracker
    <3> QED
      BY <3>1, <3>3 DEF HasTracker, GpuFirst
  <2>2. CASE ~(t \in DrawnOnce \cap Offscreen /\ task[t].requiresSync)
    <3>1. /\ tracker'[t] = tracker[t]
          /\ drawn'[t] = drawn[t] \/ task'[t].state = "RENDERED_ONCE"
      BY <1>1, <2>2 DEF DrawnOnce
    <3> QED
      BY <1>1, <2>0, <3>1 DEF HasTracker, GpuFirst
  <2> QED
    BY <2>1, <2>2
<1>4. tracker' \in [Tasks -> Tracker]
  BY <1>1, <1>3
<1>5. \A t \in Tasks : ~InThisFrame(t)'
  BY <1>1 DEF InThisFrame
<1> QED
  BY <1>3, <1>4, <1>5 DEF Tracking

\* The trigger goes up when the sync object is given back.
LEMMA GpuTracks ==
  ASSUME Tracking, PostRender \/ \E t \in Tasks : Synced(t)
  PROVE  Tracking'
<1>1. tracker \in [Tasks -> Tracker]
  BY DEF Tracking
<1>2. /\ UNCHANGED <<task, drawn>>
      /\ \A t \in Tasks : InThisFrame(t)' => InThisFrame(t)
      /\ tracker' \in [Tasks -> Tracker]
      /\ \A t \in Tasks :
           /\ tracker'[t].exists = tracker[t].exists
           /\ tracker'[t].object # "none" => /\ tracker[t].object # "none"
                                             /\ tracker'[t].trigger = tracker[t].trigger
  <2>1. CASE PostRender
    <3>1. UNCHANGED <<task, historyVars>> /\ updatePc' = "idle"
      BY <2>1, Zenon DEF PostRender
    <3>2. tracker' = [t \in Tasks |->
                        IF tracker[t].object = "synced"
                        THEN [tracker[t] EXCEPT !.object = "none", !.trigger = TRUE] ELSE tracker[t]]
      BY <2>1, Zenon DEF PostRender
    <3>3. ASSUME NEW t \in Tasks
          PROVE  /\ tracker'[t] \in Tracker /\ tracker'[t].exists = tracker[t].exists
                 /\ tracker'[t].object # "none" => tracker'[t] = tracker[t]
      <4>0. tracker[t] \in Tracker
        BY <1>1
      <4>1. CASE tracker[t].object = "synced"
        <5>1. tracker'[t] = [tracker[t] EXCEPT !.object = "none", !.trigger = TRUE]
          BY <3>2, <4>1, Zenon
        <5> QED
          BY ONLY <4>0, <5>1 DEF Tracker
      <4>2. CASE tracker[t].object # "synced"
        <5>1. tracker'[t] = tracker[t]
          BY <3>2, <4>2, Zenon
        <5> QED
          BY <4>0, <5>1
      <4> QED
        BY <4>1, <4>2
    <3>4. tracker' \in [Tasks -> Tracker]
      BY <3>2, <3>3, Zenon
    <3>5. UNCHANGED <<task, drawn>> /\ \A t \in Tasks : ~InThisFrame(t)'
      BY <3>1 DEF InThisFrame, historyVars
    <3> QED
      BY <3>3, <3>4, <3>5
  <2>2. CASE \E t \in Tasks : Synced(t)
    <3>1. PICK u \in Tasks : /\ tracker[u].object = "inflight"
                             /\ tracker' = [tracker EXCEPT ![u].object = "synced"]
                             /\ UNCHANGED <<task, frameVars, historyVars>>
      BY <2>2 DEF Synced
    <3>2. /\ tracker' \in [Tasks -> Tracker]
          /\ \A t \in Tasks : t # u => tracker'[t] = tracker[t]
          /\ tracker'[u].exists = tracker[u].exists /\ tracker'[u].trigger = tracker[u].trigger
      BY <1>1, <3>1 DEF Tracker
    <3> QED
      BY <3>1, <3>2 DEF InThisFrame, frameVars, historyVars
  <2> QED
    BY <2>1, <2>2
<1>3. ASSUME NEW t \in Tasks
      PROVE  HasTracker(t)' /\ (InThisFrame(t)' => tracker'[t].exists) /\ GpuFirst(t)'
  <2>1. HasTracker(t) /\ (InThisFrame(t) => tracker[t].exists) /\ GpuFirst(t)
    BY DEF Tracking
  <2> QED
    BY <1>2, <2>1 DEF HasTracker, GpuFirst
<1> QED
  BY <1>2, <1>3 DEF Tracking

LEMMA TrackingStep == IInv /\ Tracking /\ [Next]_vars => Tracking'
<1> SUFFICES ASSUME IInv, Tracking, [Next]_vars PROVE Tracking'
  OBVIOUS
<1>1. CASE \/ UpdateBegin \/ UpdateCompleted \/ EventRuns \/ UNCHANGED vars
           \/ \E t \in Tasks : Calls(t)
  <2>1. /\ UNCHANGED <<tracker, drawn, task, instructions>>
        /\ updatePc' = updatePc \/ updatePc' = "messages"
             \/ (updatePc = "complete" /\ updatePc' = "render")
    <3> USE DEF apiVars, notifyVars, frameVars, renderVars, historyVars, Call
    <3>1. CASE UpdateBegin
      BY <3>1 DEF UpdateBegin
    <3>2. CASE UpdateCompleted
      BY <3>2 DEF UpdateCompleted
    <3>3. CASE NotifyCompleted
      BY <3>3 DEF NotifyCompleted
    <3>4. CASE CallbackReturns \/ \E t \in Tasks : EmitSignalFinish(t)
      BY <3>4 DEF CallbackReturns, EmitSignalFinish
    <3>5. CASE UNCHANGED vars
      BY <3>5 DEF vars
    <3>6. CASE \E t \in Tasks : RefreshOnce(t) \/ RefreshAlways(t)
      BY <3>6 DEF RefreshOnce, RefreshAlways
    <3>7. CASE \E t \in Tasks : KeepRenderResult(t) \/ ClearRenderResult(t) \/ RemoveTask(t)
      BY <3>7 DEF KeepRenderResult, ClearRenderResult, RemoveTask
    <3>8. CASE \E t \in Tasks, b \in BOOLEAN : CreateTask(t, b)
      BY <3>8 DEF CreateTask
    <3>9. CASE \E t \in Tasks, b \in BOOLEAN : Connect(t, b) \/ SetSyncRequired(t, b)
      BY <3>9 DEF Connect, SetSyncRequired
    <3> QED
      BY <1>1, <3>1, <3>2, <3>3, <3>4, <3>5, <3>6, <3>7, <3>8, <3>9 DEF EventRuns, Calls
  <2>2. \A t \in Tasks : InThisFrame(t)' => InThisFrame(t)
    BY <2>1 DEF InThisFrame
  <2> QED
    BY <2>1, <2>2, StillTracking
<1> QED
  BY <1>1, MessageTracks, ProcessTasksTracks, UpdateTasksTracks, RenderSceneTracks, GpuTracks
  DEF Next, UpdateRuns

\* No task that requires a sync is finished while the GPU draws its request.
THEOREM NotBeforeTheGpuHolds == Spec => []NotBeforeTheGpu
<1>1. Tracking => NotBeforeTheGpu
  BY DEF Tracking, GpuFirst, NotBeforeTheGpu
<1> QED
  BY <1>1, InitHasIInv, IInvStep, TrackingInit, TrackingStep, PTL DEF Spec

(***************************************************************************)
(* The result of a request.  The message of a request follows the one that *)
(* clears the result, and both are in the same buffer, so that nothing is  *)
(* read back between them; a task that is still to be added has kept       *)
(* nothing, and nothing is kept for it before it is added.                 *)
(***************************************************************************)
IsKeep(m, t) == m.op = "Keep" /\ m.to = t
IsClear(m, t) == m.op = "Clear" /\ m.to = t

Fresh(s) ==
  \A t \in Tasks :
    /\ life[t] = "new" => /\ frameBuffer[t] = NoResult
                          /\ \A i \in 1 .. Len(s) : ~IsKeep(s[i], t)
    /\ \A i \in 1 .. Len(s) :
         IsAdd(s[i], t) => /\ frameBuffer[t] = NoResult
                           /\ \A j \in 1 .. Len(s) : IsKeep(s[j], t) => i < j

Paired ==
  \A t \in Tasks :
    /\ \A i \in 1 .. Len(queue) : IsRequest(queue[i], t) => i > 1 /\ IsClear(queue[i - 1], t)
    /\ \A i \in 1 .. Len(buffer) :
         IsRequest(buffer[i], t) => \/ i > 1 /\ IsClear(buffer[i - 1], t)
                                    \/ i = 1 /\ frameBuffer[t] = NoResult

Current(t) == task[t].exists => RenderResult(t) \in {0, task[t].request}

Resulting ==
  /\ frameBuffer \in [Tasks -> FrameBuffer]
  /\ Fresh(Sent) /\ Paired
  /\ \A t \in Tasks : Current(t)

LEMMA NoResultFacts ==
  /\ NoResult \in FrameBuffer /\ ~NoResult.keeping /\ ~NoResult.buffer
  /\ \A t \in Tasks : frameBuffer[t] = NoResult => RenderResult(t) = 0
BY DEF NoResult, FrameBuffer, RenderResult

LEMMA ResultingInit == Init => Resulting
<1> SUFFICES ASSUME Init PROVE Resulting
  OBVIOUS
<1>1. frameBuffer = [t \in Tasks |-> NoResult] /\ buffer = << >> /\ queue = << >>
  BY DEF Init
<1>2. Sent = << >> /\ Len(Sent) = 0
  BY <1>1 DEF Sent
<1> QED
  BY <1>1, <1>2, NoResultFacts DEF Resulting, Fresh, Paired, Current

LEMMA StillResulting ==
  ASSUME Resulting, UNCHANGED <<frameBuffer, life, buffer, queue>>,
         \A t \in Tasks : task'[t].request = task[t].request /\ task'[t].exists = task[t].exists
  PROVE  Resulting'
<1>1. Sent' = Sent /\ \A t \in Tasks : RenderResult(t)' = RenderResult(t)
  BY DEF Sent, RenderResult
<1> QED
  BY <1>1 DEF Resulting, Fresh, Paired, Current

\* What a call sends, and that it may be sent.
Proper(list) ==
  \A t \in Tasks :
    /\ life'[t] = "new" => life[t] = "new" /\ \A i \in 1 .. Len(list) : ~IsKeep(list[i], t)
    /\ \A i \in 1 .. Len(list) :
         IsAdd(list[i], t) => life[t] = "new" /\ \A j \in 1 .. Len(list) : ~IsKeep(list[j], t)
    /\ \A i \in 1 .. Len(list) : IsRequest(list[i], t) => i > 1 /\ IsClear(list[i - 1], t)

LEMMA SendingResults ==
  ASSUME IInv, Resulting, NEW list \in Seq(Messages), queue' = queue \o list,
         UNCHANGED <<frameBuffer, buffer, task>>, Proper(list)
  PROVE  Resulting'
<1> DEFINE n == Len(Sent)
           k == Len(queue)
           l == Len(list)
<1>1. /\ n \in Nat /\ l \in Nat /\ Len(Sent') = n + l
      /\ \A i \in 1 .. n : Sent'[i] = Sent[i]
      /\ \A i \in 1 .. n + l : i > n => Sent'[i] = list[i - n]
  <2>1. Types /\ Len(list) \in Nat
    BY DEF IInv
  <2> QED
    BY <2>1, SendAllFacts
<1>2. /\ k \in Nat /\ Len(queue') = k + l
      /\ \A i \in 1 .. k : queue'[i] = queue[i]
      /\ \A i \in 1 .. k + l : i > k => queue'[i] = list[i - k]
  BY ConcatProperties DEF IInv, Types
<1>3. \A i \in 1 .. n + l : i > n => i - n \in 1 .. l
  BY <1>1
<1>4. \A i \in 1 .. k + l : i > k => i - k \in 1 .. l
  BY <1>1, <1>2
<1> HIDE DEF n, k, l
<1>5. Fresh(Sent)'
  <2> SUFFICES ASSUME NEW t \in Tasks
               PROVE  /\ life'[t] = "new" => /\ frameBuffer[t] = NoResult
                                             /\ \A i \in 1 .. n + l : ~IsKeep(Sent'[i], t)
                      /\ \A i \in 1 .. n + l :
                           IsAdd(Sent'[i], t) =>
                             /\ frameBuffer[t] = NoResult
                             /\ \A j \in 1 .. n + l : IsKeep(Sent'[j], t) => i < j
    BY <1>1 DEF Fresh
  <2>0. /\ life[t] = "new" => frameBuffer[t] = NoResult /\ \A i \in 1 .. n : ~IsKeep(Sent[i], t)
        /\ \A i \in 1 .. n : IsAdd(Sent[i], t) =>
             frameBuffer[t] = NoResult /\ \A j \in 1 .. n : IsKeep(Sent[j], t) => i < j
    BY DEF Resulting, Fresh, n
  <2>1. \A i \in 1 .. n + l : i \in 1 .. n \/ i > n
    BY <1>1
  <2>2. ASSUME life'[t] = "new"
        PROVE  frameBuffer[t] = NoResult /\ \A i \in 1 .. n + l : ~IsKeep(Sent'[i], t)
    BY <1>1, <1>3, <2>0, <2>1, <2>2 DEF Proper, l
  <2>3. ASSUME NEW i \in 1 .. n + l, IsAdd(Sent'[i], t)
        PROVE  frameBuffer[t] = NoResult
    <3>1. CASE i \in 1 .. n
      BY <1>1, <2>0, <2>3, <3>1
    <3>2. CASE i > n
      BY <1>1, <1>3, <2>0, <2>3, <3>2 DEF Proper, l
    <3> QED
      BY <2>1, <3>1, <3>2
  <2>4. ASSUME NEW i \in 1 .. n + l, IsAdd(Sent'[i], t), NEW j \in 1 .. n + l, IsKeep(Sent'[j], t)
        PROVE  i < j
    <3>1. CASE i \in 1 .. n /\ j \in 1 .. n
      BY <1>1, <2>0, <2>4, <3>1
    <3>2. CASE i \in 1 .. n /\ j > n
      BY <1>1, <3>2
    <3>3. CASE i > n
      <4>1. life[t] = "new" /\ \A h \in 1 .. l : ~IsKeep(list[h], t)
        BY <1>1, <1>3, <2>4, <3>3 DEF Proper, l
      <4> QED
        BY <1>1, <1>3, <2>0, <2>1, <2>4, <4>1
    <3> QED
      BY <2>1, <3>1, <3>2, <3>3
  <2> QED
    BY <2>2, <2>3, <2>4
<1>6. ASSUME NEW t \in Tasks, NEW i \in 1 .. Len(queue'), IsRequest(queue'[i], t)
      PROVE  i > 1 /\ IsClear(queue'[i - 1], t)
  <2>0. i \in 1 .. k + l
    BY <1>2
  <2>1. CASE i \in 1 .. k
    <3>1. i > 1 /\ IsClear(queue[i - 1], t)
      BY <1>2, <1>6, <2>1 DEF Resulting, Paired, k
    <3>2. i - 1 \in 1 .. k
      BY <1>2, <2>1, <3>1
    <3> QED
      BY <1>2, <3>1, <3>2
  <2>2. CASE i > k
    <3>1. i - k \in 1 .. l /\ IsRequest(list[i - k], t)
      BY <1>2, <1>4, <1>6, <2>2
    <3>2. i - k > 1 /\ IsClear(list[(i - k) - 1], t)
      BY <3>1 DEF Proper, l
    <3>3. i - 1 \in 1 .. k + l /\ i - 1 > k /\ (i - 1) - k = (i - k) - 1
      BY <1>1, <1>2, <2>0, <3>2
    <3>4. queue'[i - 1] = list[(i - k) - 1]
      BY <1>2, <3>3
    <3>5. i > 1
      BY <1>1, <1>2, <2>0, <3>2
    <3> QED
      BY <3>2, <3>4, <3>5
  <2>3. i \in 1 .. k \/ i > k
    BY <1>2, <2>0
  <2> QED
    BY <2>1, <2>2, <2>3
<1>7. Paired'
  BY <1>6 DEF Paired, Resulting
<1>8. \A t \in Tasks : RenderResult(t)' = RenderResult(t)
  BY DEF RenderResult
<1> QED
  BY <1>5, <1>7, <1>8 DEF Resulting, Current

LEMMA CallsResult == ASSUME IInv, Resulting, NEW t \in Tasks, Calls(t) PROVE Resulting'
<1>0. life \in [Tasks -> {"new", "listed", "removed"}]
  BY DEF IInv, Types
<1>1. CASE RefreshOnce(t)
  <2> DEFINE c == Message("Clear", t, 0)
             m == Message("Refresh", t, asked[t] + 1)
             list == << c, m >>
  <2>1. /\ queue' = queue \o list /\ UNCHANGED <<frameBuffer, buffer, task, life>>
        /\ asked[t] + 1 \in Nat
    BY <1>1 DEF RefreshOnce, Request, SendAll, Call, frameVars, renderVars, IInv, Types
  <2>2. c \in Messages /\ m \in Messages /\ c.op = "Clear" /\ c.to = t /\ m.op = "Refresh" /\ m.to = t
    BY <2>1 DEF Message, Messages
  <2>3. list \in Seq(Messages) /\ Len(list) = 2 /\ list[1] = c /\ list[2] = m
    BY <2>2
  <2> HIDE DEF c, m, list
  <2>4. Proper(list)
    BY <2>1, <2>2, <2>3 DEF Proper, IsKeep, IsAdd, IsRequest, IsClear
  <2> QED
    BY <2>1, <2>3, <2>4, SendingResults
<1>2. ASSUME NEW m \in Messages, SendAll(<< m >>), UNCHANGED <<frameBuffer, buffer, task>>,
             m.to = t, \A u \in Tasks : life'[u] = "new" => life[u] = "new",
             m.op = "Add" => life[t] = "new", m.op = "Keep" => life'[t] # "new",
             ~(m.op = "Refresh" /\ m.value > 0)
      PROVE  Resulting'
  <2> DEFINE list == << m >>
  <2>1. list \in Seq(Messages) /\ Len(list) = 1 /\ list[1] = m /\ queue' = queue \o list
    BY <1>2 DEF SendAll
  <2> HIDE DEF list
  <2>2. Proper(list)
    BY <1>2, <2>1 DEF Proper, IsKeep, IsAdd, IsRequest
  <2> QED
    BY <1>2, <2>1, <2>2, SendingResults
<1>3. ASSUME \/ RefreshAlways(t) \/ KeepRenderResult(t) \/ ClearRenderResult(t) \/ RemoveTask(t)
             \/ \E b \in BOOLEAN : CreateTask(t, b) \/ Connect(t, b) \/ SetSyncRequired(t, b)
      PROVE  /\ UNCHANGED <<frameBuffer, buffer, task>>
             /\ \A u \in Tasks : life'[u] = "new" => life[u] = "new"
             /\ \E m \in Messages : /\ SendAll(<< m >>) /\ m.to = t
                                    /\ m.op = "Add" => life[t] = "new"
                                    /\ m.op = "Keep" => life'[t] # "new"
                                    /\ ~(m.op = "Refresh" /\ m.value > 0)
  <2> USE <1>0 DEF Call, Send, Message, Number, Messages, frameVars, renderVars
  <2>1. CASE RefreshAlways(t)
    <3>1. SendAll(<< Message("Refresh", t, 0) >>) /\ UNCHANGED <<frameBuffer, buffer, task, life>>
      BY <2>1 DEF RefreshAlways
    <3>2. LET m == Message("Refresh", t, 0)
          IN  m \in Messages /\ m.op = "Refresh" /\ m.to = t /\ m.value = 0
      OBVIOUS
    <3> QED
      BY <3>1, <3>2
  <2>2. CASE KeepRenderResult(t)
    BY <2>2 DEF KeepRenderResult
  <2>3. CASE ClearRenderResult(t)
    BY <2>3 DEF ClearRenderResult
  <2>4. CASE RemoveTask(t)
    BY <2>4 DEF RemoveTask
  <2>5. CASE \E b \in BOOLEAN : Connect(t, b)
    BY <2>5 DEF Connect
  <2>6. CASE \E b \in BOOLEAN : SetSyncRequired(t, b)
    BY <2>6 DEF SetSyncRequired
  <2>7. CASE \E b \in BOOLEAN : CreateTask(t, b)
    BY <2>7 DEF CreateTask
  <2> QED
    BY <1>3, <2>1, <2>2, <2>3, <2>4, <2>5, <2>6, <2>7
<1> QED
  BY <1>1, <1>2, <1>3 DEF Calls

\* The first message of the buffer is processed.
LEMMA MessageResults == ASSUME IInv, Resulting, ProcessMessage PROVE Resulting'
<1> DEFINE m == Head(buffer)
<1>1. /\ buffer # << >> /\ buffer' = Tail(buffer) /\ UNCHANGED <<queue, life>>
      /\ task' = [task EXCEPT ![m.to] = TaskAfter(task[m.to], m)]
      /\ frameBuffer' = [frameBuffer EXCEPT ![m.to] = ResultAfter(frameBuffer[m.to], m)]
  BY DEF ProcessMessage, apiVars
<1>2. /\ Sent \in Seq(Messages) /\ Sent # << >> /\ Sent' = Tail(Sent) /\ m = Sent[1]
      /\ m = buffer[1] /\ m \in Messages /\ buffer \in Seq(Messages)
  BY <1>1, ConcatProperties, ConcatSimplifications, HeadTailProperties DEF IInv, Types, Sent
<1>3. /\ Len(Sent) \in Nat \ {0}
      /\ \A i \in 1 .. Len(Sent') : i + 1 \in 1 .. Len(Sent) /\ Sent'[i] = Sent[i + 1]
  BY <1>2, HeadTailProperties
<1>4. /\ Len(buffer) \in Nat \ {0}
      /\ \A i \in 1 .. Len(buffer') : i + 1 \in 1 .. Len(buffer) /\ buffer'[i] = buffer[i + 1]
  BY <1>1, <1>2, HeadTailProperties
<1> HIDE DEF m
<1>5. PICK t \in Tasks : m.to = t
  BY <1>2 DEF Messages
<1>6. /\ task \in [Tasks -> Task] /\ frameBuffer \in [Tasks -> FrameBuffer]
      /\ frameBuffer[t] \in FrameBuffer
  BY DEF IInv, Types, Resulting
<1>7. /\ task'[t] = TaskAfter(task[t], m) /\ frameBuffer'[t] = ResultAfter(frameBuffer[t], m)
      /\ \A u \in Tasks : u # t => task'[u] = task[u] /\ frameBuffer'[u] = frameBuffer[u]
  BY <1>1, <1>5, <1>6
<1>8. /\ m.op = "Keep" => frameBuffer'[t] = [frameBuffer[t] EXCEPT !.keeping = TRUE]
      /\ m.op = "Clear" => frameBuffer'[t] = NoResult
      /\ m.op \notin {"Keep", "Clear"} => frameBuffer'[t] = frameBuffer[t]
  BY <1>7 DEF ResultAfter
<1>9. frameBuffer'[t] \in FrameBuffer /\ (m.op = "Keep" => frameBuffer'[t].keeping)
  <2>1. CASE m.op = "Keep"
    <3>1. frameBuffer'[t] = [frameBuffer[t] EXCEPT !.keeping = TRUE]
      BY <1>8, <2>1
    <3> QED
      BY ONLY <1>6, <3>1 DEF FrameBuffer
  <2>2. CASE m.op # "Keep"
    BY <1>6, <1>8, <2>2, NoResultFacts
  <2> QED
    BY <2>1, <2>2
<1>10. frameBuffer' \in [Tasks -> FrameBuffer]
  BY <1>1, <1>5, <1>6, <1>7, <1>9
<1>11. 1 \in 1 .. Len(Sent) /\ (m.op = "Keep" => IsKeep(Sent[1], t))
  BY <1>2, <1>3, <1>5 DEF IsKeep
<1>12. ASSUME NEW u \in Tasks, frameBuffer[u] = NoResult, ~(m.op = "Keep" /\ u = t)
       PROVE  frameBuffer'[u] = NoResult
  BY <1>7, <1>8, <1>12
<1>13. Fresh(Sent)'
  <2>1. ASSUME NEW u \in Tasks, life[u] = "new"
        PROVE  /\ frameBuffer'[u] = NoResult
               /\ \A i \in 1 .. Len(Sent') : ~IsKeep(Sent'[i], u)
    <3>1. frameBuffer[u] = NoResult /\ \A i \in 1 .. Len(Sent) : ~IsKeep(Sent[i], u)
      BY <2>1 DEF Resulting, Fresh
    <3> QED
      BY <1>3, <1>11, <1>12, <3>1
  <2>2. ASSUME NEW u \in Tasks, NEW i \in 1 .. Len(Sent'), IsAdd(Sent'[i], u)
        PROVE  /\ frameBuffer'[u] = NoResult
               /\ \A j \in 1 .. Len(Sent') : IsKeep(Sent'[j], u) => i < j
    <3>1. i + 1 \in 1 .. Len(Sent) /\ IsAdd(Sent[i + 1], u)
      BY <1>3, <2>2
    <3>2. /\ frameBuffer[u] = NoResult
          /\ \A j \in 1 .. Len(Sent) : IsKeep(Sent[j], u) => i + 1 < j
      BY <3>1 DEF Resulting, Fresh
    <3>3. ~(m.op = "Keep" /\ u = t)
      BY <1>11, <2>2, <3>2
    <3>4. \A j \in 1 .. Len(Sent') : IsKeep(Sent'[j], u) => i + 1 < j + 1
      BY <1>3, <3>2
    <3> QED
      BY <1>12, <3>2, <3>3, <3>4
  <2> QED
    BY <1>1, <2>1, <2>2 DEF Fresh
<1>14. ASSUME NEW u \in Tasks, NEW i \in 1 .. Len(buffer'), IsRequest(buffer'[i], u)
       PROVE  \/ i > 1 /\ IsClear(buffer'[i - 1], u)
              \/ i = 1 /\ frameBuffer'[u] = NoResult
  <2>1. i + 1 \in 1 .. Len(buffer) /\ IsRequest(buffer[i + 1], u) /\ i + 1 > 1
    BY <1>4, <1>14
  <2>2. IsClear(buffer[(i + 1) - 1], u)
    BY <2>1 DEF Resulting, Paired
  <2>3. IsClear(buffer[i], u)
    BY <2>2
  <2>4. CASE i = 1
    <3>1. m.op = "Clear" /\ u = t
      BY <1>2, <1>5, <2>3, <2>4 DEF IsClear
    <3> QED
      BY <1>8, <2>4, <3>1
  <2>5. CASE i > 1
    <3>1. i - 1 \in 1 .. Len(buffer') /\ (i - 1) + 1 = i
      BY <2>5
    <3> QED
      BY <1>4, <2>3, <2>5, <3>1
  <2> QED
    BY <2>4, <2>5
<1>15. Paired'
  <2>1. \A u \in Tasks : \A i \in 1 .. Len(queue) :
          IsRequest(queue[i], u) => i > 1 /\ IsClear(queue[i - 1], u)
    BY DEF Resulting, Paired
  <2> QED
    BY <1>1, <1>14, <2>1 DEF Paired
<1>16. ASSUME task'[t].exists
       PROVE  RenderResult(t)' \in {0, task'[t].request}
  <2>1. Becomes(task[t], m, task'[t])
    BY <1>2, <1>6, <1>7, TaskAfterFacts
  <2>2. frameBuffer'[t] = NoResult => RenderResult(t)' = 0
    BY DEF RenderResult, NoResult
  <2>3. CASE m.op = "Keep"
    BY <1>9, <2>3 DEF RenderResult
  <2>4. CASE m.op = "Clear"
    BY <1>8, <2>2, <2>4
  <2>5. CASE m.op = "Add"
    <3>1. IsAdd(Sent[1], t)
      BY <1>2, <1>5, <2>5 DEF IsAdd
    <3>2. frameBuffer[t] = NoResult
      BY <1>11, <3>1 DEF Resulting, Fresh
    <3> QED
      BY <1>12, <2>2, <2>5, <3>2
  <2>6. CASE m.op = "Remove"
    BY <1>16, <2>1, <2>6 DEF Becomes
  <2>7. CASE m.op = "Refresh" /\ m.value > 0
    <3>1. IsRequest(buffer[1], t) /\ 1 \in 1 .. Len(buffer)
      BY <1>2, <1>4, <1>5, <2>7 DEF IsRequest
    <3>2. frameBuffer[t] = NoResult
      BY <3>1 DEF Resulting, Paired
    <3> QED
      BY <1>12, <2>2, <2>7, <3>2
  <2>8. CASE m.op \notin {"Keep", "Clear", "Add", "Remove"} /\ ~(m.op = "Refresh" /\ m.value > 0)
    <3>1. task[t].exists /\ task'[t].request = task[t].request
      BY <1>16, <2>1, <2>8 DEF Becomes
    <3>2. RenderResult(t) \in {0, task[t].request}
      BY <3>1 DEF Resulting, Current
    <3> QED
      BY <1>8, <2>8, <3>1, <3>2 DEF RenderResult
  <2> QED
    BY <2>3, <2>4, <2>5, <2>6, <2>7, <2>8
<1>17. ASSUME NEW u \in Tasks PROVE Current(u)'
  <2>1. CASE u = t
    BY <1>16, <2>1 DEF Current
  <2>2. CASE u # t
    <3>1. task'[u] = task[u] /\ RenderResult(u)' = RenderResult(u)
      BY <1>7, <2>2 DEF RenderResult
    <3> QED
      BY <3>1 DEF Resulting, Current
  <2> QED
    BY <2>1, <2>2
<1> QED
  BY <1>10, <1>13, <1>15, <1>17 DEF Resulting

\* The update thread takes the queue as it is.
LEMMA BeginResults == ASSUME IInv, Resulting, UpdateBegin PROVE Resulting'
<1>1. /\ buffer = << >> /\ buffer' = queue /\ queue' = << >>
      /\ UNCHANGED <<task, life, frameBuffer>>
  BY DEF UpdateBegin, IInv, apiVars, renderVars
<1>2. Sent' = Sent
  BY <1>1, ConcatEmptySeq DEF IInv, Types, Sent
<1>3. Paired'
  BY <1>1 DEF Resulting, Paired
<1>4. Fresh(Sent)'
  BY <1>1, <1>2 DEF Resulting, Fresh
<1>5. \A t \in Tasks : Current(t)'
  BY <1>1 DEF Resulting, Current, RenderResult
<1> QED
  BY <1>1, <1>3, <1>4, <1>5 DEF Resulting

\* What is read back in this frame is that of the request of its task.
LEMMA ReadBackResults ==
  ASSUME IInv, Resulting, RenderScene \/ PostRender
  PROVE  Resulting'
<1>1. /\ UNCHANGED <<task, life, queue, buffer>> /\ buffer = << >>
      /\ frameBuffer' \in [Tasks -> FrameBuffer]
      /\ \A t \in Tasks : /\ frameBuffer[t] = NoResult => frameBuffer'[t] = NoResult
                          /\ RenderResult(t)' \in {RenderResult(t), task[t].request}
  <2>0. frameBuffer \in [Tasks -> FrameBuffer]
    BY DEF Resulting
  <2>1. CASE RenderScene
    <3>1. /\ UNCHANGED <<task, life, queue, buffer>> /\ updatePc = "render"
          /\ frameBuffer' = [t \in Tasks |->
                               IF t \in instructions \cap Offscreen /\ frameBuffer[t].keeping
                               THEN [frameBuffer[t] EXCEPT !.buffer = TRUE] ELSE frameBuffer[t]]
      BY <2>1 DEF RenderScene, apiVars
    <3>2. ASSUME NEW t \in Tasks
          PROVE  /\ frameBuffer'[t] \in FrameBuffer
                 /\ frameBuffer[t] = NoResult => frameBuffer'[t] = NoResult
                 /\ RenderResult(t)' = RenderResult(t)
      <4>0. frameBuffer[t] \in FrameBuffer
        BY <2>0
      <4>1. CASE frameBuffer'[t] = frameBuffer[t]
        BY <4>0, <4>1 DEF RenderResult
      <4>2. CASE /\ frameBuffer[t].keeping
                 /\ frameBuffer'[t] = [frameBuffer[t] EXCEPT !.buffer = TRUE]
        <5>1. frameBuffer'[t] \in FrameBuffer /\ frameBuffer'[t].keeping
          BY ONLY <4>0, <4>2 DEF FrameBuffer
        <5>2. frameBuffer[t] # NoResult
          BY <4>2, NoResultFacts
        <5> QED
          BY <4>2, <5>1, <5>2 DEF RenderResult
      <4> QED
        BY <3>1, <4>1, <4>2
    <3>3. frameBuffer' \in [Tasks -> FrameBuffer]
      BY <3>1, <3>2
    <3> QED
      BY <3>1, <3>2, <3>3 DEF IInv
  <2>2. CASE PostRender
    <3>1. UNCHANGED <<apiVars, task, queue, buffer>> /\ updatePc = "post"
      BY <2>2, Zenon DEF PostRender
    <3>2. frameBuffer' = [t \in Tasks |->
                            IF frameBuffer[t].buffer
                            THEN [keeping |-> FALSE, buffer |-> FALSE, pixels |-> task[t].request]
                            ELSE frameBuffer[t]]
      BY <2>2, Zenon DEF PostRender
    <3>3. ASSUME NEW t \in Tasks
          PROVE  /\ frameBuffer'[t] \in FrameBuffer
                 /\ frameBuffer[t] = NoResult => frameBuffer'[t] = NoResult
                 /\ RenderResult(t)' \in {RenderResult(t), task[t].request}
      <4>0. frameBuffer[t] \in FrameBuffer /\ task[t].request \in Nat
        BY <2>0 DEF IInv, Types, Task
      <4>1. CASE ~frameBuffer[t].buffer
        <5>1. frameBuffer'[t] = frameBuffer[t]
          BY <3>2, <4>1, Zenon
        <5> QED
          BY <4>0, <5>1 DEF RenderResult
      <4>2. CASE frameBuffer[t].buffer
        <5>1. frameBuffer'[t] = [keeping |-> FALSE, buffer |-> FALSE, pixels |-> task[t].request]
          BY <3>2, <4>2, Zenon
        <5>2. /\ frameBuffer'[t] \in FrameBuffer /\ ~frameBuffer'[t].keeping
              /\ frameBuffer'[t].pixels = task[t].request
          BY ONLY <4>0, <5>1 DEF FrameBuffer
        <5>3. frameBuffer[t] # NoResult
          BY <4>2, NoResultFacts
        <5> QED
          BY <5>2, <5>3 DEF RenderResult
      <4> QED
        BY <4>1, <4>2
    <3>4. frameBuffer' \in [Tasks -> FrameBuffer]
      BY <3>2, <3>3, Zenon
    <3> QED
      BY <3>1, <3>3, <3>4 DEF IInv, apiVars
  <2> QED
    BY <2>1, <2>2
<1>2. Sent' = Sent
  BY <1>1 DEF Sent
<1>3. Fresh(Sent)'
  BY <1>1, <1>2 DEF Resulting, Fresh
<1>4. Paired'
  BY <1>1 DEF Resulting, Paired
<1>5. \A t \in Tasks : Current(t)'
  BY <1>1 DEF Resulting, Current
<1> QED
  BY <1>1, <1>3, <1>4, <1>5 DEF Resulting

LEMMA ResultingStep == IInv /\ Resulting /\ [Next]_vars => Resulting'
<1> SUFFICES ASSUME IInv, Resulting, [Next]_vars PROVE Resulting'
  OBVIOUS
<1>1. CASE \/ ProcessTasks \/ UpdateCompleted \/ EventRuns \/ UNCHANGED vars
           \/ \E t \in Tasks : Synced(t)
  <2>1. UNCHANGED <<frameBuffer, life, buffer, queue, task>>
    <3> USE DEF apiVars, frameVars, renderVars
    <3>1. CASE ProcessTasks
      BY <3>1 DEF ProcessTasks
    <3>2. CASE UpdateCompleted
      BY <3>2 DEF UpdateCompleted
    <3>3. CASE NotifyCompleted
      BY <3>3 DEF NotifyCompleted
    <3>4. CASE CallbackReturns \/ \E t \in Tasks : EmitSignalFinish(t)
      BY <3>4 DEF CallbackReturns, EmitSignalFinish
    <3>5. CASE UNCHANGED vars
      BY <3>5 DEF vars
    <3>6. CASE \E t \in Tasks : Synced(t)
      BY <3>6 DEF Synced
    <3> QED
      BY <1>1, <3>1, <3>2, <3>3, <3>4, <3>5, <3>6 DEF EventRuns
  <2> QED
    BY <2>1, StillResulting
<1>2. CASE UpdateTasks
  <2>1. /\ UNCHANGED <<frameBuffer, life, buffer, queue>>
        /\ task' = [t \in Tasks |-> IF task[t].exists THEN Counted(UpdatedState(t)) ELSE task[t]]
    BY <1>2 DEF UpdateTasks, apiVars
  <2>2. ASSUME NEW t \in Tasks
        PROVE  task'[t].request = task[t].request /\ task'[t].exists = task[t].exists
    <3> DEFINE s == UpdatedState(t)
    <3>1. task[t] \in Task
      BY DEF IInv, Types
    <3>2. s \in Task /\ s.request = task[t].request /\ s.exists = task[t].exists
      BY <3>1 DEF UpdatedState, HasFinishedRendering, IsSynced, Task, States
    <3> HIDE DEF s
    <3>3. Counted(s).request = s.request /\ Counted(s).exists = s.exists
      BY <3>2 DEF Counted, Task
    <3> QED
      BY <2>1, <3>2, <3>3 DEF s
  <2> QED
    BY <2>1, <2>2, StillResulting
<1> QED
  BY <1>1, <1>2, MessageResults, BeginResults, ReadBackResults, CallsResult DEF Next, UpdateRuns

\* The result that is handed out is that of the request the update thread
\* knows of.
THEOREM ResultIsCurrentHolds == Spec => []ResultIsCurrent
<1>1. Resulting => ResultIsCurrent
  BY DEF Resulting, Current, ResultIsCurrent
<1> QED
  BY <1>1, InitHasIInv, IInvStep, ResultingInit, ResultingStep, PTL DEF Spec
=============================================================================
