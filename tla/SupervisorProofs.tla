--------------------------- MODULE SupervisorProofs ---------------------------
(***************************************************************************)
(* Theorems about Supervisor, for every finite set of tasks and any number *)
(* of slots.                                                               *)
(***************************************************************************)
EXTENDS Supervisor, FiniteSetTheorems, TLAPS

LoopingTasks == {t \in Tasks : Looping(t)}

\* A task has one coroutine at most: its place in the queue is its only one,
\* and it is not in the agent loop as well.
OnePlace == \A i, j \in DOMAIN queue : queue[i] = queue[j] => i = j
NotBoth  == \A t \in Tasks : loops[t] = 0 \/ (loops[t] = 1 /\ ~Queued(t))

\* A coroutine is there to do the work its row speaks of.
LiveIsDue ==
  \A t \in Tasks :
    /\ Queued(t) => row[t] \in {"pending", "running"}
    /\ Looping(t) => row[t] = "running"

\* A process that is down has no coroutines and no free slots to lose.
DownIsEmpty ==
  ~up => queue = <<>> /\ LoopingTasks = {}

Accounted ==
  \A t \in Tasks : row[t] \in {"pending", "running"} => Live(t) \/ t \in dropped

Inv ==
  /\ SupervisorTypeOK
  /\ OnePlace
  /\ NotBoth
  /\ LiveIsDue
  /\ DownIsEmpty
  /\ SlotsReturned
  /\ Accounted
-----------------------------------------------------------------------------
\* _launch puts a task that has no coroutine at the end of the line.
LEMMA LaunchQueues ==
  ASSUME SupervisorTypeOK, OnePlace, NEW t \in Tasks, Launch(t)
  PROVE  /\ queue' \in Seq(Tasks)
         /\ OnePlace'
         /\ \A u \in Tasks : Queued(u)' <=> Queued(u) \/ (u = t /\ ~Live(t))
<1>1. CASE Live(t)
  BY <1>1 DEF Launch, SupervisorTypeOK, OnePlace, Queued
<1>2. CASE ~Live(t)
  <2>1. /\ queue' = Append(queue, t)
        /\ queue \in Seq(Tasks)
        /\ Len(queue) \in Nat
    BY <1>2 DEF Launch, SupervisorTypeOK
  <2>2. /\ queue' \in Seq(Tasks)
        /\ DOMAIN queue = 1..Len(queue)
        /\ DOMAIN queue' = 1..(Len(queue) + 1)
        /\ queue'[Len(queue) + 1] = t
        /\ \A i \in DOMAIN queue : queue'[i] = queue[i]
    BY <2>1
  <2>3. \A i \in DOMAIN queue : queue[i] # t
    BY <1>2 DEF Live, Queued
  <2>4. OnePlace'
    BY <2>1, <2>2, <2>3 DEF OnePlace
  <2>5. \A u \in Tasks : Queued(u)' <=> Queued(u) \/ u = t
    BY <2>1, <2>2 DEF Queued
  <2> QED
    BY <1>2, <2>2, <2>4, <2>5
<1> QED
  BY <1>1, <1>2

\* A coroutine that leaves the line leaves the others in it, in their order.
LEMMA LeavingTheLine ==
  ASSUME SupervisorTypeOK, OnePlace, NEW i \in DOMAIN queue, queue' = WithoutPlace(i)
  PROVE  /\ queue' \in Seq(Tasks)
         /\ OnePlace'
         /\ \A u \in Tasks : Queued(u)' <=> Queued(u) /\ u # queue[i]
<1> DEFINE place(j) == IF j < i THEN j ELSE j + 1
<1>1. /\ DOMAIN queue = 1..Len(queue)
      /\ Len(queue) \in Nat \ {0}
      /\ i \in 1..Len(queue)
      /\ \A j \in 1..Len(queue) : queue[j] \in Tasks
  BY DEF SupervisorTypeOK
<1>2. queue' = [j \in 1..(Len(queue) - 1) |-> queue[place(j)]]
  BY DEF WithoutPlace
<1>3. \A j \in 1..(Len(queue) - 1) : place(j) \in 1..Len(queue) /\ place(j) # i
  BY <1>1
<1>4. \A j, k \in 1..(Len(queue) - 1) : place(j) = place(k) => j = k
  BY <1>1
<1> HIDE DEF place
<1>5. queue' \in [1..(Len(queue) - 1) -> Tasks]
  BY <1>1, <1>2, <1>3
<1>6. queue' \in Seq(Tasks)
  BY <1>1, <1>5, Len(queue) - 1 \in Nat
<1>7. DOMAIN queue' = 1..(Len(queue) - 1)
  BY <1>2
<1>8. OnePlace'
  BY <1>1, <1>2, <1>3, <1>4, <1>7 DEF OnePlace
<1>9. ASSUME NEW u \in Tasks PROVE Queued(u)' <=> Queued(u) /\ u # queue[i]
  <2>1. ASSUME Queued(u)' PROVE Queued(u) /\ u # queue[i]
    <3>1. PICK j \in 1..(Len(queue) - 1) : queue'[j] = u
      BY <1>7, <2>1 DEF Queued
    <3>2. queue[place(j)] = u /\ place(j) \in DOMAIN queue /\ place(j) # i
      BY <1>1, <1>2, <1>3, <3>1
    <3> QED
      BY <3>2 DEF OnePlace, Queued
  <2>2. ASSUME Queued(u), u # queue[i] PROVE Queued(u)'
    <3>1. PICK j \in 1..Len(queue) : queue[j] = u
      BY <1>1, <2>2 DEF Queued
    <3>2. j # i
      BY <2>2, <3>1
    <3>3. PICK k \in 1..(Len(queue) - 1) : place(k) = j
      <4>1. CASE j < i
        BY <1>1, <3>2, <4>1 DEF place
      <4>2. CASE j > i
        <5>1. j - 1 \in 1..(Len(queue) - 1) /\ place(j - 1) = j
          BY <1>1, <4>2 DEF place
        <5> QED
          BY <5>1
      <4> QED
        BY <1>1, <3>2, <4>1, <4>2
    <3>4. queue'[k] = u
      BY <1>2, <3>1, <3>3
    <3> QED
      BY <1>7, <3>4 DEF Queued
  <2> QED
    BY <2>1, <2>2
<1> QED
  BY <1>6, <1>8, <1>9
-----------------------------------------------------------------------------
\* The tasks in the agent loop can be counted.
LEMMA LoopingIsFinite ==
  IsFiniteSet(LoopingTasks) /\ Cardinality(LoopingTasks) \in Nat
<1>1. LoopingTasks \subseteq Tasks
  BY DEF LoopingTasks
<1>2. IsFiniteSet(LoopingTasks)
  BY <1>1, FS_Subset, SupervisorAssumption
<1> QED
  BY <1>2, FS_CardinalityType

\* So can those of the next state.
LEMMA LoopingIsFiniteAfter ==
  IsFiniteSet(LoopingTasks') /\ Cardinality(LoopingTasks') \in Nat
<1>1. LoopingTasks' \subseteq Tasks
  BY DEF LoopingTasks
<1>2. IsFiniteSet(LoopingTasks')
  BY <1>1, FS_Subset, SupervisorAssumption
<1> QED
  BY <1>2, FS_CardinalityType

\* The slot a coroutine takes is the one it is counted for.
LEMMA SlotTaken ==
  ASSUME SupervisorTypeOK, SlotsReturned, NEW t \in Tasks, loops[t] = 0, slots > 0,
         loops' = [loops EXCEPT ![t] = @ + 1], slots' = slots - 1
  PROVE  /\ loops' \in [Tasks -> Nat]
         /\ slots' \in 0..MaxParallel
         /\ SlotsReturned'
<1>1. loops' \in [Tasks -> Nat]
  BY DEF SupervisorTypeOK
<1>2. LoopingTasks' = LoopingTasks \cup {t}
  BY DEF SupervisorTypeOK, LoopingTasks, Looping
<1>3. t \notin LoopingTasks
  BY DEF LoopingTasks, Looping
<1>4. Cardinality(LoopingTasks') = Cardinality(LoopingTasks) + 1
  BY <1>2, <1>3, LoopingIsFinite, FS_AddElement
<1>5. slots + Cardinality(LoopingTasks) = MaxParallel
  BY DEF SlotsReturned, LoopingTasks
<1>6. slots' + Cardinality(LoopingTasks') = MaxParallel
  BY <1>4, <1>5, LoopingIsFinite DEF SupervisorTypeOK
<1>7. SlotsReturned'
  BY <1>6 DEF SlotsReturned, LoopingTasks
<1>8. slots' \in 0..MaxParallel
  BY SupervisorAssumption DEF SupervisorTypeOK
<1> QED
  BY <1>1, <1>7, <1>8

\* The slot a coroutine gives back is the one it was counted for.
LEMMA SlotGivenBack ==
  ASSUME SupervisorTypeOK, NotBoth, SlotsReturned, NEW t \in Tasks, Looping(t), Leave(t)
  PROVE  /\ loops' \in [Tasks -> Nat]
         /\ slots' \in 0..MaxParallel
         /\ SlotsReturned'
         /\ loops' = [loops EXCEPT ![t] = 0]
<1>1. loops[t] = 1
  BY DEF NotBoth, Looping
<1>2. loops' = [loops EXCEPT ![t] = 0] /\ loops' \in [Tasks -> Nat]
  BY <1>1 DEF Leave, SupervisorTypeOK
<1>3. LoopingTasks' = LoopingTasks \ {t}
  BY <1>2 DEF SupervisorTypeOK, LoopingTasks, Looping
<1>4. t \in LoopingTasks
  BY DEF LoopingTasks
<1>5. Cardinality(LoopingTasks') = Cardinality(LoopingTasks) - 1
  BY <1>3, <1>4, LoopingIsFinite, FS_RemoveElement
<1>6. slots + Cardinality(LoopingTasks) = MaxParallel
  BY DEF SlotsReturned, LoopingTasks
<1>7. slots' + Cardinality(LoopingTasks') = MaxParallel
  BY <1>5, <1>6, LoopingIsFinite DEF SupervisorTypeOK, Leave
<1>8. SlotsReturned'
  BY <1>7 DEF SlotsReturned, LoopingTasks
<1>9. slots' \in 0..MaxParallel
  BY <1>7, LoopingIsFiniteAfter, SupervisorAssumption DEF SupervisorTypeOK, Leave
<1> QED
  BY <1>2, <1>8, <1>9

\* A process that starts on an empty database has all its slots and no task.
LEMMA InitInv == SupervisorInit => Inv
<1> SUFFICES ASSUME SupervisorInit PROVE Inv
  OBVIOUS
<1>1. SupervisorTypeOK
  BY SupervisorAssumption DEF SupervisorInit, SupervisorTypeOK, Rows, Active, Terminal
<1>2. LoopingTasks = {}
  BY DEF SupervisorInit, LoopingTasks, Looping
<1>3. SlotsReturned
  <2>1. Cardinality(LoopingTasks) = 0
    BY <1>2, FS_EmptySet
  <2>2. slots + Cardinality(LoopingTasks) = MaxParallel
    BY <2>1, SupervisorAssumption DEF SupervisorInit
  <2> QED
    BY <2>2 DEF SlotsReturned, LoopingTasks
<1>4. \A t \in Tasks : ~Queued(t) /\ ~Looping(t)
  BY DEF SupervisorInit, Queued, Looping
<1>5. OnePlace /\ NotBoth /\ DownIsEmpty
  BY <1>4 DEF SupervisorInit, OnePlace, NotBoth, DownIsEmpty
<1>6. LiveIsDue /\ Accounted
  BY <1>4 DEF SupervisorInit, LiveIsDue, Accounted
<1> QED
  BY <1>1, <1>3, <1>5, <1>6 DEF Inv
-----------------------------------------------------------------------------
\* submit() and resume(): an idle task is queued, as "pending".
LEMMA AcceptedInv ==
  ASSUME Inv, NEW t \in Tasks,
         row' = [row EXCEPT ![t] = "pending"], ~Looping(t), Launch(t),
         UNCHANGED <<up, loops, slots, cancelling, asked>>, up
  PROVE  Inv'
<1> USE DEF Inv
<1>1. /\ queue' \in Seq(Tasks)
      /\ OnePlace'
      /\ \A u \in Tasks : Queued(u)' <=> Queued(u) \/ (u = t /\ ~Live(t))
  BY LaunchQueues
<1>2. \A u \in Tasks : Looping(u)' <=> Looping(u)
  BY DEF Looping
<1>3. SupervisorTypeOK'
  BY <1>1 DEF SupervisorTypeOK, Launch, Rows, Active
<1>4. NotBoth'
  BY <1>1 DEF NotBoth, Looping, SupervisorTypeOK
<1>5. LiveIsDue'
  BY <1>1, <1>2 DEF LiveIsDue, SupervisorTypeOK
<1>6. DownIsEmpty' /\ SlotsReturned'
  BY DEF DownIsEmpty, SlotsReturned, LoopingTasks, Looping
<1>7. Accounted'
  BY <1>1, <1>2 DEF Accounted, Live, Launch, SupervisorTypeOK
<1> QED
  BY <1>1, <1>3, <1>4, <1>5, <1>6, <1>7

\* A coroutine leaves the agent loop, and only Raise keeps silent about it.
LEMMA LeftTheLoopInv ==
  ASSUME Inv, NEW t \in Tasks, up, Looping(t), Leave(t), UNCHANGED <<up, queue>>,
         cancelling' \in SUBSET Tasks, asked' = asked,
         NEW s \in Rows, row' = [row EXCEPT ![t] = s],
         dropped' \in SUBSET Tasks, dropped \subseteq dropped',
         s \in {"pending", "running"} => t \in dropped'
  PROVE  Inv'
<1> USE DEF Inv
<1>1. /\ loops' \in [Tasks -> Nat]
      /\ slots' \in 0..MaxParallel
      /\ SlotsReturned'
      /\ loops' = [loops EXCEPT ![t] = 0]
  BY SlotGivenBack
<1>2. \A u \in Tasks : Queued(u)' <=> Queued(u)
  BY DEF Queued
<1>3. \A u \in Tasks : Looping(u)' <=> Looping(u) /\ u # t
  BY <1>1 DEF Looping, SupervisorTypeOK
<1>4. ~Queued(t)
  BY DEF NotBoth, Looping
<1>5. SupervisorTypeOK'
  BY <1>1 DEF SupervisorTypeOK
<1>6. OnePlace' /\ DownIsEmpty'
  BY DEF OnePlace, DownIsEmpty
<1>7. NotBoth'
  BY <1>1, <1>2 DEF NotBoth, SupervisorTypeOK
<1>8. LiveIsDue'
  BY <1>2, <1>3, <1>4 DEF LiveIsDue, SupervisorTypeOK
<1>9. Accounted'
  BY <1>2, <1>3 DEF Accounted, Live, SupervisorTypeOK
<1> QED
  BY <1>1, <1>5, <1>6, <1>7, <1>8, <1>9

\* stop() moves no coroutine: it marks it, or writes a row that has none.
LEMMA StopInv ==
  ASSUME Inv, NEW t \in Tasks, Stop(t)
  PROVE  Inv'
<1> USE DEF Inv
<1>1. UNCHANGED <<up, queue, loops, slots, dropped>>
  BY DEF Stop
<1>2. \A u \in Tasks : (Queued(u)' <=> Queued(u)) /\ (Looping(u)' <=> Looping(u))
  BY <1>1 DEF Queued, Looping
<1>3. OnePlace' /\ NotBoth' /\ DownIsEmpty' /\ SlotsReturned'
  BY <1>1 DEF OnePlace, NotBoth, DownIsEmpty, SlotsReturned, LoopingTasks, Looping, Queued
<1>4. CASE CancelCoroutine(t)
  <2>1. SupervisorTypeOK'
    BY <1>1, <1>4 DEF Stop, CancelCoroutine, SupervisorTypeOK
  <2>2. LiveIsDue' /\ Accounted'
    BY <1>1, <1>2, <1>4 DEF CancelCoroutine, LiveIsDue, Accounted, Live
  <2> QED
    BY <1>3, <2>1, <2>2
<1>5. CASE WriteStopped(t)
  <2>1. SupervisorTypeOK'
    BY <1>1, <1>5 DEF Stop, WriteStopped, SupervisorTypeOK, Rows, Terminal
  <2>2. LiveIsDue' /\ Accounted'
    BY <1>1, <1>2, <1>5 DEF WriteStopped, LiveIsDue, Accounted, Live, SupervisorTypeOK
  <2> QED
    BY <1>3, <2>1, <2>2
<1> QED
  BY <1>4, <1>5 DEF Stop

\* _run, with a slot at last: from the line into the agent loop.
LEMMA StartInv ==
  ASSUME Inv, NEW t \in Tasks, Start(t)
  PROVE  Inv'
<1> USE DEF Inv
<1> DEFINE i == NextInLine
<1>1. /\ up /\ slots > 0 /\ i \in DOMAIN queue /\ queue[i] = t
      /\ row' = [row EXCEPT ![t] = "running"]
      /\ queue' = WithoutPlace(i)
      /\ loops' = [loops EXCEPT ![t] = @ + 1]
      /\ slots' = slots - 1
      /\ UNCHANGED <<up, cancelling, asked, dropped>>
  BY DEF Start, SupervisorTypeOK, NextInLine
<1> HIDE DEF i
<1>2. /\ queue' \in Seq(Tasks)
      /\ OnePlace'
      /\ \A u \in Tasks : Queued(u)' <=> Queued(u) /\ u # t
  BY <1>1, LeavingTheLine
<1>3. Queued(t)
  BY <1>1 DEF Queued
<1>4. loops[t] = 0
  BY <1>3 DEF NotBoth
<1>5. /\ loops' \in [Tasks -> Nat]
      /\ slots' \in 0..MaxParallel
      /\ SlotsReturned'
  BY <1>1, <1>4, SlotTaken
<1>6. loops' = [loops EXCEPT ![t] = 1]
  BY <1>1, <1>4 DEF SupervisorTypeOK
<1>7. \A u \in Tasks : Looping(u)' <=> Looping(u) \/ u = t
  BY <1>6 DEF Looping, SupervisorTypeOK
<1>8. SupervisorTypeOK'
  BY <1>1, <1>2, <1>5 DEF SupervisorTypeOK, Rows, Active
<1>9. NotBoth'
  BY <1>2, <1>6 DEF NotBoth, SupervisorTypeOK
<1>10. LiveIsDue' /\ DownIsEmpty'
  BY <1>1, <1>2, <1>7 DEF LiveIsDue, DownIsEmpty, SupervisorTypeOK
<1>11. Accounted'
  BY <1>1, <1>2, <1>7 DEF Accounted, Live, SupervisorTypeOK
<1> QED
  BY <1>2, <1>5, <1>8, <1>9, <1>10, <1>11

\* A coroutine cancelled while it waited leaves the line, and its row behind.
LEMMA CancelledInQueueInv ==
  ASSUME Inv, NEW t \in Tasks, CancelledInQueue(t)
  PROVE  Inv'
<1> USE DEF Inv
<1>1. PICK i \in DOMAIN queue : queue[i] = t /\ queue' = WithoutPlace(i)
  BY DEF CancelledInQueue
<1>2. /\ up /\ cancelling' = cancelling \ {t} /\ dropped' = dropped \cup {t}
      /\ UNCHANGED <<up, row, loops, slots, asked>>
  BY DEF CancelledInQueue
<1>3. /\ queue' \in Seq(Tasks)
      /\ OnePlace'
      /\ \A u \in Tasks : Queued(u)' <=> Queued(u) /\ u # t
  BY <1>1, LeavingTheLine
<1>4. \A u \in Tasks : Looping(u)' <=> Looping(u)
  BY <1>2 DEF Looping
<1>5. SupervisorTypeOK'
  BY <1>2, <1>3 DEF SupervisorTypeOK
<1>6. NotBoth' /\ LiveIsDue' /\ DownIsEmpty'
  BY <1>2, <1>3, <1>4 DEF NotBoth, LiveIsDue, DownIsEmpty
<1>7. SlotsReturned'
  BY <1>2 DEF SlotsReturned, Looping
<1>8. Accounted'
  BY <1>2, <1>3, <1>4 DEF Accounted, Live
<1> QED
  BY <1>3, <1>5, <1>6, <1>7, <1>8

\* The process ends, and no row is left to a coroutine that is gone but of a
\* task that is counted as dropped.
LEMMA DownInv ==
  ASSUME Inv, Down, NEW T \in SUBSET {t \in Tasks : Looping(t)},
         row' = [t \in Tasks |-> IF t \in T THEN "stopped" ELSE row[t]]
  PROVE  Inv'
<1> USE DEF Inv
<1>1. /\ up' = FALSE /\ queue' = <<>> /\ loops' = [t \in Tasks |-> 0]
      /\ slots' = MaxParallel /\ cancelling' = {} /\ asked' = asked
      /\ dropped' = dropped \cup {t \in Tasks : Live(t)}
  BY DEF Down
<1>2. \A u \in Tasks : ~Queued(u)' /\ ~Looping(u)'
  BY <1>1 DEF Queued, Looping
<1>3. SupervisorTypeOK'
  <2>1. row' \in [Tasks -> Rows]
    BY DEF SupervisorTypeOK, Rows, Terminal
  <2>2. queue' \in Seq(Tasks)
    BY <1>1
  <2>3. loops' \in [Tasks -> Nat]
    BY <1>1
  <2>4. slots' \in 0..MaxParallel
    BY <1>1, SupervisorAssumption
  <2>5. dropped' \in SUBSET Tasks
    BY <1>1 DEF SupervisorTypeOK
  <2> QED
    BY <1>1, <2>1, <2>2, <2>3, <2>4, <2>5 DEF SupervisorTypeOK
<1>4. LoopingTasks' = {}
  BY <1>2 DEF LoopingTasks
<1>5. SlotsReturned'
  <2>1. Cardinality(LoopingTasks') = 0
    BY <1>4, FS_EmptySet
  <2>2. slots' + Cardinality(LoopingTasks') = MaxParallel
    BY <1>1, <2>1, SupervisorAssumption
  <2> QED
    BY <2>2 DEF SlotsReturned, LoopingTasks
<1>6. OnePlace' /\ NotBoth' /\ DownIsEmpty'
  BY <1>1, <1>4 DEF OnePlace, NotBoth, DownIsEmpty
<1>7. LiveIsDue'
  BY <1>2 DEF LiveIsDue
<1>8. Accounted'
  BY <1>1 DEF Accounted
<1> QED
  BY <1>3, <1>5, <1>6, <1>7, <1>8

\* recover() queues what was left running, each row once.
LEMMA RecoverInv ==
  ASSUME Inv, Recover
  PROVE  Inv'
<1> USE DEF Inv
<1>1. PICK q \in Orders(LeftRunning) : queue' = q
  BY DEF Recover
<1>2. /\ up' = TRUE /\ ~up /\ dropped' = dropped \ LeftRunning
      /\ UNCHANGED <<row, loops, slots, cancelling, asked>>
  BY DEF Recover
<1>3. IsFiniteSet(LeftRunning) /\ Cardinality(LeftRunning) \in Nat
  <2>1. LeftRunning \subseteq Tasks
    BY DEF LeftRunning
  <2>2. IsFiniteSet(LeftRunning)
    BY <2>1, FS_Subset, SupervisorAssumption
  <2> QED
    BY <2>2, FS_CardinalityType
<1>4. /\ queue' \in [1..Cardinality(LeftRunning) -> LeftRunning]
      /\ \A i, j \in DOMAIN queue' : queue'[i] = queue'[j] => i = j
      /\ \A u \in LeftRunning : \E i \in DOMAIN queue' : queue'[i] = u
  BY <1>1 DEF Orders, Bijection, Injection, Surjection, IsInjective
<1>5. queue' \in Seq(Tasks)
  BY <1>3, <1>4 DEF LeftRunning
<1>6. \A u \in Tasks : Queued(u)' <=> u \in LeftRunning
  BY <1>4 DEF Queued
<1>7. \A u \in Tasks : ~Looping(u) /\ ~Queued(u)
  BY <1>2 DEF DownIsEmpty, LoopingTasks, Queued
<1>8. \A u \in Tasks : ~Looping(u)'
  BY <1>2, <1>7 DEF Looping
<1>9. SupervisorTypeOK'
  BY <1>2, <1>5 DEF SupervisorTypeOK
<1>10. OnePlace' /\ DownIsEmpty'
  BY <1>2, <1>4 DEF OnePlace, DownIsEmpty
<1>11. NotBoth'
  BY <1>2, <1>7 DEF NotBoth, Looping, SupervisorTypeOK
<1>12. LiveIsDue'
  BY <1>2, <1>6, <1>8 DEF LiveIsDue, LeftRunning
<1>13. SlotsReturned'
  BY <1>2 DEF SlotsReturned, Looping
<1>14. Accounted'
  BY <1>2, <1>6, <1>7 DEF Accounted, Live
<1> QED
  BY <1>9, <1>10, <1>11, <1>12, <1>13, <1>14
-----------------------------------------------------------------------------
\* Every step keeps the invariant.
LEMMA NextInv == Inv /\ [SupervisorNext]_supervisorVars => Inv'
<1> SUFFICES ASSUME Inv, [SupervisorNext]_supervisorVars PROVE Inv'
  OBVIOUS
<1>1. ASSUME NEW t \in Tasks, Submit(t) PROVE Inv'
  <2>1. ~Looping(t)
    BY <1>1 DEF Submit, Inv, LiveIsDue
  <2> QED
    BY <1>1, <2>1, AcceptedInv DEF Submit
<1>2. ASSUME NEW t \in Tasks, Resume(t) PROVE Inv'
  <2>1. ~Looping(t)
    BY <1>2 DEF Resume, Resumable, Inv, LiveIsDue
  <2> QED
    BY <1>2, <2>1, AcceptedInv DEF Resume
<1>3. ASSUME NEW t \in Tasks, Stop(t) PROVE Inv'
  BY <1>3, StopInv
<1>4. ASSUME NEW t \in Tasks, Start(t) PROVE Inv'
  BY <1>4, StartInv
<1>5. ASSUME NEW t \in Tasks, Outcome(t) PROVE Inv'
  <2>1. PICK s \in {"blocked", "finished", "failed"} : row' = [row EXCEPT ![t] = s]
    BY <1>5 DEF Outcome
  <2>2. s \in Rows /\ s \notin {"pending", "running"}
    BY DEF Rows, Active, Terminal
  <2>3. /\ up /\ Looping(t) /\ Leave(t) /\ UNCHANGED <<up, queue>>
        /\ cancelling' \in SUBSET Tasks /\ asked' = asked
        /\ dropped' \in SUBSET Tasks /\ dropped \subseteq dropped'
    BY <1>5 DEF Outcome, InLoop, Inv, SupervisorTypeOK
  <2> QED
    BY <2>1, <2>2, <2>3, LeftTheLoopInv
<1>6. ASSUME NEW t \in Tasks, Raise(t) PROVE Inv'
  <2>1. /\ up /\ Looping(t) /\ Leave(t) /\ UNCHANGED <<up, queue>>
        /\ cancelling' \in SUBSET Tasks /\ asked' = asked
        /\ dropped' \in SUBSET Tasks /\ dropped \subseteq dropped'
        /\ t \in dropped'
        /\ row[t] \in Rows /\ row' = [row EXCEPT ![t] = row[t]]
    BY <1>6 DEF Raise, InLoop, Inv, SupervisorTypeOK
  <2> QED
    BY <2>1, LeftTheLoopInv
<1>7. ASSUME NEW t \in Tasks, CancelledInLoop(t) PROVE Inv'
  <2>1. /\ up /\ Looping(t) /\ Leave(t) /\ UNCHANGED <<up, queue>>
        /\ cancelling' \in SUBSET Tasks /\ asked' = asked
        /\ dropped' \in SUBSET Tasks /\ dropped \subseteq dropped'
        /\ row' = [row EXCEPT ![t] = "stopped"]
    BY <1>7 DEF CancelledInLoop, Inv, SupervisorTypeOK
  <2>2. "stopped" \in Rows /\ "stopped" \notin {"pending", "running"}
    BY DEF Rows, Terminal
  <2> QED
    BY <2>1, <2>2, LeftTheLoopInv
<1>8. ASSUME NEW t \in Tasks, CancelledInQueue(t) PROVE Inv'
  BY <1>8, CancelledInQueueInv
<1>9. CASE Crash
  <2>1. row' = [t \in Tasks |-> IF t \in {} THEN "stopped" ELSE row[t]]
    BY <1>9 DEF Crash, Inv, SupervisorTypeOK
  <2>2. {} \in SUBSET {t \in Tasks : Looping(t)}
    OBVIOUS
  <2> QED
    BY <1>9, <2>1, <2>2, DownInv DEF Crash
<1>10. CASE Shutdown
  BY <1>10, DownInv DEF Shutdown
<1>11. CASE Recover
  BY <1>11, RecoverInv
<1>12. CASE UNCHANGED supervisorVars
  BY <1>12
     DEF supervisorVars, Inv, SupervisorTypeOK, OnePlace, NotBoth, LiveIsDue, DownIsEmpty, LoopingTasks,
         SlotsReturned, Accounted, Live, Looping, Queued
<1> QED
  BY <1>1, <1>2, <1>3, <1>4, <1>5, <1>6, <1>7, <1>8, <1>9, <1>10, <1>11, <1>12
     DEF SupervisorNext

\* The inductive invariant holds throughout.
LEMMA Invariance == SupervisorSpec => []Inv
  BY InitInv, NextInv, PTL DEF SupervisorSpec
-----------------------------------------------------------------------------
\* The rows, the line, the loops and the slots have their types: no number of
\* submits, stops and restarts gives back a slot that was not taken.
THEOREM TypeCorrect == SupervisorSpec => []SupervisorTypeOK
<1>1. Inv => SupervisorTypeOK
  BY DEF Inv
<1> QED
  BY <1>1, Invariance, PTL

\* _launch, which looks at the task's coroutine only, and recovery, which looks
\* at the rows only, never let a task run twice at once.
THEOREM TasksRunOnce == SupervisorSpec => []OneCoroutine
<1>1. Inv => OneCoroutine
  <2> SUFFICES ASSUME Inv, NEW t \in Tasks PROVE loops[t] + Waits(t) <= 1
    BY DEF OneCoroutine
  <2> DEFINE places == {i \in DOMAIN queue : queue[i] = t}
  <2>1. CASE Queued(t)
    <3>1. PICK i \in DOMAIN queue : queue[i] = t
      BY <2>1 DEF Queued
    <3>2. places = {i}
      BY <3>1 DEF Inv, OnePlace
    <3>3. Cardinality(places) = 1
      BY <3>2, FS_Singleton
    <3>4. loops[t] = 0
      BY <2>1 DEF Inv, NotBoth
    <3> QED
      BY <3>3, <3>4 DEF Waits
  <2>2. CASE ~Queued(t)
    <3>1. places = {}
      BY <2>2 DEF Queued
    <3>2. Cardinality(places) = 0
      BY <3>1, FS_EmptySet
    <3>3. loops[t] \in {0, 1}
      BY DEF Inv, NotBoth
    <3> QED
      BY <3>2, <3>3 DEF Waits
  <2> QED
    BY <2>1, <2>2
<1> QED
  BY <1>1, Invariance, PTL

\* "async with semaphore": whichever way a coroutine leaves the agent loop, its
\* slot comes back, once, and a restart starts with all of them.
THEOREM SlotsComeBack == SupervisorSpec => []SlotsReturned
<1>1. Inv => SlotsReturned
  BY DEF Inv
<1> QED
  BY <1>1, Invariance, PTL

\* resume() of a blocked task always launches it: _launch finds no coroutine of
\* the task that could make it return early.
THEOREM BlockedTasksAreIdle == SupervisorSpec => []BlockedIsIdle
<1>1. Inv => BlockedIsIdle
  BY DEF Inv, LiveIsDue, BlockedIsIdle, Live
<1> QED
  BY <1>1, Invariance, PTL

\* A task that reads as pending or running has its coroutine, or lost it in one
\* of the three ways that write nothing.
THEOREM OthersAreNotLost == SupervisorSpec => []OnlyDroppedIsLost
<1>1. Inv => OnlyDroppedIsLost
  BY DEF Inv, Accounted, OnlyDroppedIsLost
<1> QED
  BY <1>1, Invariance, PTL

\* No coroutine, call or restart rewrites the row of a task that ended.
THEOREM EndsAreFinal == SupervisorSpec => TerminalIsFinal
<1> DEFINE Keeps == \A t \in Tasks : row[t] \in Terminal => row'[t] = row[t]
<1>1. Inv /\ [SupervisorNext]_supervisorVars => [Keeps]_supervisorVars
  <2> SUFFICES ASSUME Inv, SupervisorNext, NEW u \in Tasks, row[u] \in Terminal
               PROVE  row'[u] = row[u]
    BY DEF Keeps
  <2>1. ~Live(u)
    BY DEF Inv, LiveIsDue, Live, Terminal
  <2>2. ASSUME NEW t \in Tasks, Submit(t) PROVE row'[u] = row[u]
    BY <2>2 DEF Submit, Terminal, Inv, SupervisorTypeOK
  <2>3. ASSUME NEW t \in Tasks, Resume(t) PROVE row'[u] = row[u]
    BY <2>3 DEF Resume, Resumable, Terminal, Inv, SupervisorTypeOK
  <2>4. ASSUME NEW t \in Tasks, Stop(t) PROVE row'[u] = row[u]
    BY <2>4 DEF Stop, CancelCoroutine, WriteStopped, Active, Terminal, Inv, SupervisorTypeOK
  <2>5. ASSUME NEW t \in Tasks, Start(t) PROVE row'[u] = row[u]
    <3>1. 1 \in DOMAIN queue /\ queue[1] = t
      BY <2>5 DEF Start, NextInLine, Inv, SupervisorTypeOK
    <3>2. u # t
      BY <2>1, <3>1 DEF Live, Queued
    <3> QED
      BY <2>5, <3>2 DEF Start, Inv, SupervisorTypeOK
  <2>6. ASSUME NEW t \in Tasks, Outcome(t) PROVE row'[u] = row[u]
    BY <2>1, <2>6 DEF Outcome, InLoop, Live, Inv, SupervisorTypeOK
  <2>7. ASSUME NEW t \in Tasks, CancelledInLoop(t) PROVE row'[u] = row[u]
    BY <2>1, <2>7 DEF CancelledInLoop, Live, Inv, SupervisorTypeOK
  <2>8. ASSUME NEW t \in Tasks, Raise(t) \/ CancelledInQueue(t) PROVE row'[u] = row[u]
    BY <2>8 DEF Raise, CancelledInQueue
  <2>9. CASE Crash \/ Recover
    BY <2>9 DEF Crash, Recover
  <2>10. CASE Shutdown
    BY <2>1, <2>10 DEF Shutdown, Live
  <2> QED
    BY <2>2, <2>3, <2>4, <2>5, <2>6, <2>7, <2>8, <2>9, <2>10 DEF SupervisorNext
<1> QED
  BY <1>1, Invariance, PTL DEF SupervisorSpec, TerminalIsFinal
=============================================================================
