-------------------------- MODULE TaskEngineProofs --------------------------
(***************************************************************************)
(* Proofs about TaskEngine, for every set of tasks, keys and handlers.     *)
(*                                                                         *)
(* The inductive invariant adds two facts to the properties: a handler     *)
(* that is in flight names an allocated task (HandlersNameTasks), and the  *)
(* index entry of a live task's key is that task (IndexNamesLiveTask).     *)
(* The second is why create_dry_run may look at the index alone.  The      *)
(* audit log and the events have an invariant each (AuditInv, Announced).  *)
(***************************************************************************)
EXTENDS TaskEngine, TLAPS

\* What a handler in flight remembers: an allocated task, and for a handler
\* that has not broadcast yet the state it will broadcast.  An executing
\* handler's task has not gone back to the queue.
HandlersNameTasks ==
    \A c \in Calls :
        /\ call[c].at # "idle" => call[c].task \in Tasks
        /\ call[c].at = "audit" => call[c].action \in Action
        /\ call[c].at \in {"audit", "send"} => call[c].state \in TaskState
        /\ call[c].at = "executing" =>
              inner[call[c].task].state \in {"Running"} \cup Terminal

\* by_idempotency answers with the live task of a key, whenever there is one.
IndexNamesLiveTask ==
    \A t \in Tasks :
        Live(t) => inner[t].key \in Keys /\ by_idempotency[inner[t].key] = t

IInv ==
    /\ TypeOK
    /\ HandlersNameTasks
    /\ IndexNamesLiveTask
    /\ NoWriteWithoutApproval
    /\ OneExecutorPerTask
    /\ ReceiptMeansFinished

-----------------------------------------------------------------------------
\* Every legal transition ends in a state that is not Draft, and none leaves a
\* terminal state or an unallocated id.
LEMMA TransitionFacts ==
    ASSUME NEW a, NEW b, <<a, b>> \in can_transition_to
    PROVE  /\ a \in TaskState \ Terminal
           /\ b \in TaskState
           /\ b = "Running" => a = "Queued"
           /\ b = "Succeeded" => a = "Running"
           /\ b = "Failed" => a = "Running"
BY DEF can_transition_to, TaskState, Terminal

\* The records the actions build have their types.
LEMMA RecordTypes ==
    /\ Idle \in Call
    /\ \A t \in Tasks : Executing(t) \in Call
    /\ \A t \in Tasks, a \in Action, s \in TaskState : Owes(t, a, s) \in Call
BY DEF Idle, Executing, Owes, Call, Action, TaskState

\* Broadcasting an allocated task's state keeps the event log well typed.
LEMMA BroadcastType ==
    ASSUME NEW t \in Tasks, NEW s \in TaskState,
           events \in Seq(TaskEvent), Broadcast(t, s)
    PROVE  events' \in Seq(TaskEvent)
BY DEF Broadcast, TaskEvent

-----------------------------------------------------------------------------
\* The initial state satisfies the inductive invariant: the store is empty and
\* no handler is in flight.
LEMMA InitIInv == Init => IInv
<1> SUFFICES ASSUME Init PROVE IInv
    OBVIOUS
<1>1. TypeOK
    BY RecordTypes DEF Init, TypeOK, Task, Absent, AuditEvent, TaskEvent
<1>2. HandlersNameTasks
    BY DEF Init, HandlersNameTasks, Idle
<1>3. IndexNamesLiveTask
    BY DEF Init, IndexNamesLiveTask, Live, Absent, TaskState
<1>4. NoWriteWithoutApproval /\ ReceiptMeansFinished
    BY DEF Init, NoWriteWithoutApproval, ReceiptMeansFinished, Absent
<1>5. OneExecutorPerTask
    BY DEF Init, OneExecutorPerTask, Idle
<1> QED
    BY <1>1, <1>2, <1>3, <1>4, <1>5 DEF IInv

\* create_dry_run preserves the inductive invariant.  The only live task of
\* key k would be the one the index names, and the guard says it is not live.
LEMMA CreateStep ==
    ASSUME IInv, NEW c \in Calls, NEW t \in Tasks, NEW k \in Keys,
           NEW kind \in {"read", "write"}, create_dry_run(c, t, k, kind)
    PROVE  IInv'
<1> DEFINE s == IF kind = "write" THEN "PendingApproval" ELSE "Queued"
           new == [state |-> s, key |-> k, kind |-> kind,
                   approval |-> "None", receipt |-> "None"]
<1>1. /\ inner' = [inner EXCEPT ![t] = new]
      /\ call' = [call EXCEPT ![c] = Owes(t, "task.created", s)]
      /\ by_idempotency' = [by_idempotency EXCEPT ![k] = t]
      /\ UNCHANGED <<audit, events, dropped>>
      /\ inner[t].state = "Absent"
      /\ by_idempotency[k] # NoTask => ~ Existing(by_idempotency[k])
      /\ new \in Task
      /\ s \in TaskState \ Terminal
      /\ s # "Running"
      /\ (kind = "write" => s = "PendingApproval")
    BY DEF create_dry_run, Task, TaskState, Terminal
<1>2. Owes(t, "task.created", s) \in Call
    BY <1>1, RecordTypes DEF Action
<1>3. inner \in [Tasks -> Task] /\ call \in [Calls -> Call]
      /\ by_idempotency \in [Keys -> Tasks \cup {NoTask}]
    BY DEF IInv, TypeOK
<1>4. \A u \in Tasks : Live(u) => u # t /\ inner[u].key # k
    <2> SUFFICES ASSUME NEW u \in Tasks, Live(u), inner[u].key = k PROVE FALSE
        BY <1>1 DEF Live, TaskState
    <2>1. by_idempotency[k] = u
        BY DEF IInv, IndexNamesLiveTask
    <2>2. Existing(u)
        BY DEF Live, Existing, is_terminal, TaskState
    <2> QED
        BY <1>1, <2>1, <2>2, NoTaskAssumption
<1>5. TypeOK'
    BY <1>1, <1>2, <1>3 DEF IInv, TypeOK
<1>6. HandlersNameTasks'
    BY <1>1, <1>3 DEF IInv, HandlersNameTasks, Owes, Action, TaskState, Terminal
<1>7. IndexNamesLiveTask'
    BY <1>1, <1>3, <1>4 DEF IInv, IndexNamesLiveTask, Live
<1>8. NoWriteWithoutApproval'
    BY <1>1, <1>3 DEF IInv, NoWriteWithoutApproval
<1>9. OneExecutorPerTask'
    BY <1>1, <1>3 DEF IInv, OneExecutorPerTask, Owes
<1>10. ReceiptMeansFinished'
    BY <1>1, <1>3 DEF IInv, ReceiptMeansFinished, Terminal
<1> QED
    BY <1>5, <1>6, <1>7, <1>8, <1>9, <1>10 DEF IInv

\* What a store operation leaves alone when it moves task t along the table.
OnlyTaskMoves(t) ==
    /\ inner' \in [Tasks -> Task]
    /\ inner'[t].key = inner[t].key
    /\ inner'[t].kind = inner[t].kind
    /\ \A u \in Tasks : u # t => inner'[u] = inner[u]
    /\ UNCHANGED by_idempotency

\* Moving a live task keeps the index exact: a task that is live afterwards
\* was live before, and its key and its index entry are the same.
LEMMA TransitionKeepsIndex ==
    ASSUME IInv, NEW t \in Tasks, Live(t), OnlyTaskMoves(t)
    PROVE  IndexNamesLiveTask'
BY DEF IInv, TypeOK, IndexNamesLiveTask, Live, OnlyTaskMoves

\* approve preserves the inductive invariant: the task it queues gets its
\* approval record in the same step.
LEMMA ApproveStep ==
    ASSUME IInv, NEW c \in Calls, NEW t \in Tasks, approve(c, t)
    PROVE  IInv'
<1> DEFINE r == [inner[t] EXCEPT !.state = "Queued", !.approval = "Some"]
<1>1. /\ inner \in [Tasks -> Task] /\ call \in [Calls -> Call]
      /\ MayBecome(t, "Queued")
      /\ inner' = [inner EXCEPT ![t] = r]
      /\ call' = [call EXCEPT ![c] = Owes(t, "task.approved", "Queued")]
      /\ UNCHANGED <<by_idempotency, audit, events, dropped>>
    BY DEF IInv, TypeOK, approve
<1>2. /\ r \in Task
      /\ r.state = "Queued" /\ r.approval = "Some"
      /\ r.key = inner[t].key /\ r.kind = inner[t].kind
      /\ r.receipt = inner[t].receipt
    BY <1>1 DEF Task, TaskState
<1>3. inner[t].state \in TaskState \ Terminal /\ inner[t].state # "Running"
    BY <1>1 DEF MayBecome, can_transition_to, TaskState, Terminal
<1>4. TypeOK'
    BY <1>1, <1>2, RecordTypes DEF IInv, TypeOK, Action, TaskState
<1>5. HandlersNameTasks'
    BY <1>1, <1>2, <1>3 DEF IInv, HandlersNameTasks, Owes, Action, TaskState, Terminal
<1>6. IndexNamesLiveTask'
    BY <1>1, <1>2, <1>3, TransitionKeepsIndex DEF Live, OnlyTaskMoves, TaskState, Terminal
<1>7. NoWriteWithoutApproval'
    BY <1>1, <1>2 DEF IInv, NoWriteWithoutApproval
<1>8. OneExecutorPerTask'
    BY <1>1 DEF IInv, OneExecutorPerTask, Owes
<1>9. ReceiptMeansFinished'
    BY <1>1, <1>2, <1>3 DEF IInv, ReceiptMeansFinished, Terminal
<1> QED
    BY <1>4, <1>5, <1>6, <1>7, <1>8, <1>9 DEF IInv

\* cancel preserves the inductive invariant: it may overtake an execute
\* handler, whose task is then Cancelled.
LEMMA CancelStep ==
    ASSUME IInv, NEW c \in Calls, NEW t \in Tasks, cancel(c, t)
    PROVE  IInv'
<1> DEFINE r == [inner[t] EXCEPT !.state = "Cancelled"]
<1>1. /\ inner \in [Tasks -> Task] /\ call \in [Calls -> Call]
      /\ MayBecome(t, "Cancelled")
      /\ inner' = [inner EXCEPT ![t] = r]
      /\ call' = [call EXCEPT ![c] = Owes(t, "task.cancelled", "Cancelled")]
      /\ UNCHANGED <<by_idempotency, audit, events, dropped>>
    BY DEF IInv, TypeOK, cancel
<1>2. /\ r \in Task /\ r.state = "Cancelled"
      /\ r.key = inner[t].key /\ r.kind = inner[t].kind
      /\ r.receipt = inner[t].receipt
    BY <1>1 DEF Task, TaskState
<1>3. inner[t].state \in TaskState \ Terminal
    BY <1>1, TransitionFacts DEF MayBecome
<1>4. TypeOK'
    BY <1>1, <1>2, RecordTypes DEF IInv, TypeOK, Action, TaskState
<1>5. HandlersNameTasks'
    BY <1>1, <1>2 DEF IInv, HandlersNameTasks, Owes, Action, TaskState, Terminal
<1>6. IndexNamesLiveTask'
    BY <1>1, <1>2, <1>3, TransitionKeepsIndex DEF Live, OnlyTaskMoves, TaskState, Terminal
<1>7. NoWriteWithoutApproval'
    BY <1>1, <1>2 DEF IInv, NoWriteWithoutApproval
<1>8. OneExecutorPerTask'
    BY <1>1 DEF IInv, OneExecutorPerTask, Owes
<1>9. ReceiptMeansFinished'
    BY <1>1, <1>2, <1>3 DEF IInv, ReceiptMeansFinished, Terminal
<1> QED
    BY <1>4, <1>5, <1>6, <1>7, <1>8, <1>9 DEF IInv

\* mark_running preserves the inductive invariant: a queued task has no
\* executing handler yet, so the new one is the only one.
LEMMA RunningStep ==
    ASSUME IInv, NEW c \in Calls, NEW t \in Tasks, mark_running(c, t)
    PROVE  IInv'
<1> DEFINE r == [inner[t] EXCEPT !.state = "Running"]
<1>1. /\ inner \in [Tasks -> Task] /\ call \in [Calls -> Call]
      /\ MayBecome(t, "Running")
      /\ inner[t].kind = "write" => inner[t].approval # "None"
      /\ inner' = [inner EXCEPT ![t] = r]
      /\ call' = [call EXCEPT ![c] = Executing(t)]
      /\ Broadcast(t, "Running")
      /\ UNCHANGED <<by_idempotency, audit, dropped>>
    BY DEF IInv, TypeOK, mark_running
<1>2. /\ r \in Task /\ r.state = "Running" /\ r.kind = inner[t].kind
      /\ r.approval = inner[t].approval
      /\ r.key = inner[t].key /\ r.receipt = inner[t].receipt
    BY <1>1 DEF Task, TaskState
<1>3. inner[t].state = "Queued"
    BY <1>1, TransitionFacts DEF MayBecome
<1>4. TypeOK'
    BY <1>1, <1>2, RecordTypes, BroadcastType DEF IInv, TypeOK, TaskState
<1>5. HandlersNameTasks'
    BY <1>1, <1>2 DEF IInv, HandlersNameTasks, Executing
<1>6. IndexNamesLiveTask'
    BY <1>1, <1>2, <1>3, TransitionKeepsIndex DEF Live, OnlyTaskMoves, TaskState, Terminal
<1>7. NoWriteWithoutApproval'
    BY <1>1, <1>2 DEF IInv, NoWriteWithoutApproval, Task
<1>8. OneExecutorPerTask'
    <2>1. \A d \in Calls : call[d].at = "executing" => call[d].task # t
        BY <1>3 DEF IInv, HandlersNameTasks, Terminal
    <2> QED
        BY <1>1, <2>1 DEF IInv, OneExecutorPerTask, Executing
<1>9. ReceiptMeansFinished'
    BY <1>1, <1>2, <1>3 DEF IInv, ReceiptMeansFinished
<1> QED
    BY <1>4, <1>5, <1>6, <1>7, <1>8, <1>9 DEF IInv

\* Finishing an execution, with success or with a failure, preserves the parts
\* of the inductive invariant that speak of tasks only.
LEMMA FinishTask ==
    ASSUME IInv, NEW t \in Tasks, inner[t].state = "Running", OnlyTaskMoves(t),
           inner'[t].approval = inner[t].approval,
           \/ inner'[t].state = "Succeeded" /\ inner'[t].receipt = "Executed"
           \/ inner'[t].state = "Failed" /\ inner'[t].receipt = "Reason"
    PROVE  IndexNamesLiveTask' /\ NoWriteWithoutApproval' /\ ReceiptMeansFinished'
<1>1. IndexNamesLiveTask'
    BY TransitionKeepsIndex DEF Live, TaskState, Terminal
<1>2. NoWriteWithoutApproval'
    BY DEF IInv, NoWriteWithoutApproval, OnlyTaskMoves
<1>3. ReceiptMeansFinished'
    BY DEF IInv, ReceiptMeansFinished, OnlyTaskMoves
<1> QED
    BY <1>1, <1>2, <1>3

\* What mark_succeeded writes moves one task and keeps its approval.
LEMMA SucceededMoves ==
    ASSUME IInv, NEW t \in Tasks, UNCHANGED by_idempotency,
           inner' = [inner EXCEPT ![t].state = "Succeeded", ![t].receipt = "Executed"]
    PROVE  /\ OnlyTaskMoves(t)
           /\ inner'[t].approval = inner[t].approval
           /\ inner'[t].state = "Succeeded" /\ inner'[t].receipt = "Executed"
BY DEF IInv, TypeOK, OnlyTaskMoves, Task, TaskState

\* mark_succeeded preserves the inductive invariant.
LEMMA SucceededStep ==
    ASSUME IInv, NEW c \in Calls, mark_succeeded(c)
    PROVE  IInv'
<1>0. call[c].task \in Tasks
    BY DEF IInv, HandlersNameTasks, mark_succeeded
<1> PICK t \in Tasks : t = call[c].task
    BY <1>0
<1>1. /\ call \in [Calls -> Call]
      /\ call' = [call EXCEPT ![c] = Idle]
      /\ UNCHANGED <<by_idempotency, audit, dropped>>
    BY DEF IInv, TypeOK, HandlersNameTasks, mark_succeeded
<1>2. OneExecutorPerTask'
    BY <1>1 DEF IInv, OneExecutorPerTask, Idle
<1>3. CASE MayBecome(t, "Succeeded")
    <2>1. /\ inner' = [inner EXCEPT ![t].state = "Succeeded", ![t].receipt = "Executed"]
          /\ Broadcast(t, "Succeeded")
        BY <1>3 DEF mark_succeeded
    <2>2. inner[t].state = "Running"
        BY <1>3, TransitionFacts DEF MayBecome
    <2>3. /\ OnlyTaskMoves(t)
          /\ inner'[t].approval = inner[t].approval
          /\ inner'[t].state = "Succeeded" /\ inner'[t].receipt = "Executed"
        BY <1>1, <2>1, SucceededMoves
    <2>4. IndexNamesLiveTask' /\ NoWriteWithoutApproval' /\ ReceiptMeansFinished'
        BY <2>2, <2>3, FinishTask
    <2>5. TypeOK'
        BY <1>1, <2>1, <2>3, RecordTypes, BroadcastType
        DEF IInv, TypeOK, OnlyTaskMoves, TaskState
    <2>6. HandlersNameTasks'
        BY <1>1, <2>3 DEF IInv, HandlersNameTasks, Idle, OnlyTaskMoves, Terminal
    <2> QED
        BY <1>2, <2>4, <2>5, <2>6 DEF IInv
<1>4. CASE ~ MayBecome(t, "Succeeded")
    <2>1. UNCHANGED <<inner, events>>
        BY <1>4 DEF mark_succeeded
    <2>2. TypeOK'
        BY <1>1, <2>1, RecordTypes DEF IInv, TypeOK
    <2>3. HandlersNameTasks'
        BY <1>1, <2>1 DEF IInv, HandlersNameTasks, Idle
    <2>4. IndexNamesLiveTask' /\ NoWriteWithoutApproval' /\ ReceiptMeansFinished'
        BY <1>1, <2>1 DEF IInv, IndexNamesLiveTask, NoWriteWithoutApproval,
                          ReceiptMeansFinished, Live
    <2> QED
        BY <1>2, <2>2, <2>3, <2>4 DEF IInv
<1> QED
    BY <1>3, <1>4

\* mark_failed preserves the inductive invariant.
LEMMA FailedStep ==
    ASSUME IInv, NEW t \in Tasks, mark_failed(t)
    PROVE  IInv'
<1>1. /\ MayBecome(t, "Failed")
      /\ inner' = [inner EXCEPT ![t].state = "Failed", ![t].receipt = "Reason"]
      /\ Broadcast(t, "Failed")
      /\ UNCHANGED <<by_idempotency, audit, call, dropped>>
    BY DEF mark_failed
<1>2. inner[t].state = "Running"
    BY <1>1, TransitionFacts DEF MayBecome
<1>3. /\ OnlyTaskMoves(t)
      /\ inner'[t].approval = inner[t].approval
      /\ inner'[t].state = "Failed" /\ inner'[t].receipt = "Reason"
    BY <1>1 DEF IInv, TypeOK, OnlyTaskMoves, Task, TaskState
<1>4. IndexNamesLiveTask' /\ NoWriteWithoutApproval' /\ ReceiptMeansFinished'
    BY <1>2, <1>3, FinishTask
<1>5. TypeOK'
    BY <1>1, <1>3, BroadcastType DEF IInv, TypeOK, OnlyTaskMoves, TaskState
<1>6. HandlersNameTasks'
    BY <1>1, <1>3 DEF IInv, HandlersNameTasks, OnlyTaskMoves, Terminal
<1>7. OneExecutorPerTask'
    BY <1>1 DEF IInv, OneExecutorPerTask
<1> QED
    BY <1>4, <1>5, <1>6, <1>7 DEF IInv

\* The steps that leave the store alone and move one handler on preserve the
\* inductive invariant.
LEMMA HandlerStep ==
    ASSUME IInv, NEW c \in Calls,
           write_audit(c) \/ send_event(c) \/ drop_handler(c)
    PROVE  IInv'
<1>1. UNCHANGED <<inner, by_idempotency>>
    BY DEF write_audit, send_event, drop_handler
<1>2. IndexNamesLiveTask' /\ NoWriteWithoutApproval' /\ ReceiptMeansFinished'
    BY <1>1 DEF IInv, IndexNamesLiveTask, NoWriteWithoutApproval,
                ReceiptMeansFinished, Live
<1>3. CASE write_audit(c)
    <2> DEFINE r == [call[c] EXCEPT !.at = "send"]
    <2>1. /\ call \in [Calls -> Call] /\ call[c].at = "audit"
          /\ call' = [call EXCEPT ![c] = r]
        BY <1>3 DEF IInv, TypeOK, write_audit
    <2>2. /\ r \in Call /\ r.at = "send"
          /\ r.task = call[c].task /\ r.state = call[c].state
        BY <2>1 DEF Call
    <2>3. [target |-> call[c].task, action |-> call[c].action] \in AuditEvent
        BY <2>1 DEF IInv, HandlersNameTasks, AuditEvent
    <2>4. TypeOK'
        BY <1>1, <1>3, <2>1, <2>2, <2>3 DEF IInv, TypeOK, write_audit
    <2>5. HandlersNameTasks'
        BY <1>1, <2>1, <2>2 DEF IInv, HandlersNameTasks
    <2>6. OneExecutorPerTask'
        BY <2>1, <2>2 DEF IInv, OneExecutorPerTask
    <2> QED
        BY <1>2, <2>4, <2>5, <2>6 DEF IInv
<1>4. CASE send_event(c)
    <2>1. /\ call \in [Calls -> Call] /\ call[c].at = "send"
          /\ call' = [call EXCEPT ![c] = Idle]
          /\ Broadcast(call[c].task, call[c].state)
          /\ call[c].task \in Tasks /\ call[c].state \in TaskState
          /\ UNCHANGED <<audit, dropped>>
        BY <1>4 DEF IInv, TypeOK, HandlersNameTasks, send_event
    <2>2. TypeOK'
        BY <1>1, <2>1, RecordTypes, BroadcastType DEF IInv, TypeOK
    <2>3. HandlersNameTasks' /\ OneExecutorPerTask'
        BY <1>1, <2>1 DEF IInv, HandlersNameTasks, OneExecutorPerTask, Idle
    <2> QED
        BY <1>2, <2>2, <2>3 DEF IInv
<1>5. CASE drop_handler(c)
    <2>1. /\ call \in [Calls -> Call] /\ call[c] \in Call
          /\ call' = [call EXCEPT ![c] = Idle]
          /\ dropped' = dropped \cup {call[c]}
          /\ UNCHANGED <<audit, events>>
        BY <1>5 DEF IInv, TypeOK, drop_handler
    <2>2. TypeOK'
        BY <1>1, <2>1, RecordTypes DEF IInv, TypeOK
    <2>3. HandlersNameTasks' /\ OneExecutorPerTask'
        BY <1>1, <2>1 DEF IInv, HandlersNameTasks, OneExecutorPerTask, Idle
    <2> QED
        BY <1>2, <2>2, <2>3 DEF IInv
<1> QED
    BY <1>3, <1>4, <1>5

\* A stuttering step preserves the inductive invariant.
LEMMA StutterStep == IInv /\ UNCHANGED vars => IInv'
BY DEF IInv, vars, TypeOK, HandlersNameTasks, IndexNamesLiveTask, Live,
       NoWriteWithoutApproval, OneExecutorPerTask, ReceiptMeansFinished

\* Every step of the task engine preserves the inductive invariant.
LEMMA NextIInv == IInv /\ [Next]_vars => IInv'
<1> SUFFICES ASSUME IInv, [Next]_vars PROVE IInv'
    OBVIOUS
<1>1. CASE Next
    BY <1>1, CreateStep, ApproveStep, CancelStep, RunningStep, SucceededStep,
       FailedStep, HandlerStep DEF Next
<1>2. CASE UNCHANGED vars
    BY <1>2, StutterStep
<1> QED
    BY <1>1, <1>2

-----------------------------------------------------------------------------
\* The inductive invariant holds in every reachable state.
THEOREM Invariance == Spec => []IInv
BY InitIInv, NextIInv, PTL DEF Spec

\* The store and its handlers stay well typed, for any number of each.
THEOREM TypeCorrect == Spec => []TypeOK
<1>1. IInv => TypeOK
    BY DEF IInv
<1> QED
    BY <1>1, Invariance, PTL

\* No write is ever queued, run or finished without an approval record.
THEOREM WritesAreApproved == Spec => []NoWriteWithoutApproval
<1>1. IInv => NoWriteWithoutApproval
    BY DEF IInv
<1> QED
    BY <1>1, Invariance, PTL

\* Idempotency: a key never has two live tasks.  Both are what the index says.
THEOREM CreationIsIdempotent == Spec => []OneLiveTaskPerKey
<1>1. IInv => OneLiveTaskPerKey
    BY DEF IInv, IndexNamesLiveTask, OneLiveTaskPerKey
<1> QED
    BY <1>1, Invariance, PTL

\* A task never has two executing handlers.
THEOREM ExecutionIsExclusive == Spec => []OneExecutorPerTask
<1>1. IInv => OneExecutorPerTask
    BY DEF IInv
<1> QED
    BY <1>1, Invariance, PTL

\* A receipt says exactly that an execution succeeded or failed.
THEOREM ReceiptsAreSound == Spec => []ReceiptMeansFinished
<1>1. IInv => ReceiptMeansFinished
    BY DEF IInv
<1> QED
    BY <1>1, Invariance, PTL

\* No step changes a task in a terminal state, so a late answer of an overtaken
\* execute handler is lost for good.
THEOREM TerminalTasksAreFinal == Spec => TerminalIsFinal
<1> DEFINE Frozen == \A t \in Tasks : inner[t].state \in Terminal => inner'[t] = inner[t]
<1>1. IInv /\ [Next]_vars => [Frozen]_vars
    <2> SUFFICES ASSUME IInv, Next, NEW t \in Tasks, inner[t].state \in Terminal
                 PROVE  inner'[t] = inner[t]
        BY DEF vars
    <2>1. inner \in [Tasks -> Task] /\ call \in [Calls -> Call]
        BY DEF IInv, TypeOK
    <2>2. \A next : ~ MayBecome(t, next)
        BY TransitionFacts DEF MayBecome
    <2>3. inner[t].state # "Absent"
        BY DEF Terminal
    <2>4. ASSUME NEW c \in Calls, NEW u \in Tasks, NEW k \in Keys,
                 NEW kind \in {"read", "write"}, create_dry_run(c, u, k, kind)
          PROVE  inner'[t] = inner[t]
        BY <2>1, <2>3, <2>4 DEF create_dry_run
    <2>5. ASSUME NEW c \in Calls, NEW u \in Tasks,
                 approve(c, u) \/ cancel(c, u) \/ mark_running(c, u)
          PROVE  inner'[t] = inner[t]
        BY <2>1, <2>2, <2>5 DEF approve, cancel, mark_running
    <2>6. ASSUME NEW u \in Tasks, mark_failed(u)
          PROVE  inner'[t] = inner[t]
        BY <2>1, <2>2, <2>6 DEF mark_failed
    <2>7. ASSUME NEW c \in Calls, mark_succeeded(c)
          PROVE  inner'[t] = inner[t]
        <3>1. CASE MayBecome(call[c].task, "Succeeded")
            BY <2>1, <2>2, <2>7, <3>1 DEF mark_succeeded
        <3>2. CASE ~ MayBecome(call[c].task, "Succeeded")
            BY <2>7, <3>2 DEF mark_succeeded
        <3> QED
            BY <3>1, <3>2
    <2>8. ASSUME NEW c \in Calls, write_audit(c) \/ send_event(c) \/ drop_handler(c)
          PROVE  inner'[t] = inner[t]
        BY <2>8 DEF write_audit, send_event, drop_handler
    <2> QED
        BY <2>4, <2>5, <2>6, <2>7, <2>8 DEF Next
<1> QED
    BY <1>1, Invariance, PTL DEF Spec, TerminalIsFinal

-----------------------------------------------------------------------------
(* The audit log and the events.                                           *)

\* What a log holds after one more entry.
LEMMA AppendHolds ==
    ASSUME NEW S, NEW log \in Seq(S), NEW x \in S, NEW e
    PROVE  (\E i \in 1..Len(Append(log, x)) : Append(log, x)[i] = e)
              <=> (e = x \/ \E i \in 1..Len(log) : log[i] = e)
<1> DEFINE more == Append(log, x)
<1>1. /\ Len(log) \in Nat /\ Len(more) = Len(log) + 1 /\ more[Len(log) + 1] = x
      /\ \A i \in 1..Len(log) : more[i] = log[i]
  OBVIOUS
<1> HIDE DEF more
<1>2. ASSUME NEW i \in 1..Len(more), more[i] = e
      PROVE  e = x \/ \E j \in 1..Len(log) : log[j] = e
  <2>1. i \in 1..Len(log) \/ i = Len(log) + 1
    BY <1>1
  <2> QED BY <1>1, <1>2, <2>1
<1>3. ASSUME NEW j \in 1..Len(log), log[j] = e PROVE \E i \in 1..Len(more) : more[i] = e
  <2>1. j \in 1..Len(more)
    BY <1>1
  <2> QED BY <1>1, <1>3, <2>1
<1>4. e = x => \E i \in 1..Len(more) : more[i] = e
  <2>1. Len(log) + 1 \in 1..Len(more)
    BY <1>1
  <2> QED BY <1>1, <2>1
<1> QED BY <1>2, <1>3, <1>4 DEF more

\* The record of an action is owed by a handler, or was lost with one.
Pending(t, action) ==
    \E c \in Calls : call[c].at = "audit" /\ call[c].task = t /\ call[c].action = action
Lost(t, action) ==
    \E d \in dropped : d.at = "audit" /\ d.task = t /\ d.action = action

\* An action is recorded, owed or lost exactly when it happened; what is owed is
\* not recorded yet and is owed by one handler; no entry is there twice; and a
\* task that waits for its approval has none.
AuditInv ==
    /\ \A t \in Tasks, action \in Action :
          Happened(t, action) <=> Recorded(t, action) \/ Pending(t, action) \/ Lost(t, action)
    /\ \A t \in Tasks, action \in Action : ~ (Pending(t, action) /\ Recorded(t, action))
    /\ \A c, d \in Calls :
          /\ call[c].at = "audit" /\ call[d].at = "audit"
          /\ call[c].task = call[d].task /\ call[c].action = call[d].action
          => c = d
    /\ \A i, j \in 1..Len(audit) : audit[i] = audit[j] => i = j
    /\ \A t \in Tasks : inner[t].state \in {"Absent", "Draft", "PendingApproval"}
                          => inner[t].approval = "None"

LEMMA HappenedIs ==
    \A t : /\ Happened(t, "task.created") <=> inner[t].state # "Absent"
           /\ Happened(t, "task.approved") <=> inner[t].approval = "Some"
           /\ Happened(t, "task.cancelled") <=> inner[t].state = "Cancelled"
BY DEF Happened

\* A handler that makes a change which had not happened owes its record.
LEMMA ChangeIsOwed ==
    ASSUME IInv, AuditInv, NEW c \in Calls, NEW t \in Tasks, NEW action \in Action, NEW state,
           call[c].at = "idle", call' = [call EXCEPT ![c] = Owes(t, action, state)],
           UNCHANGED <<audit, dropped>>,
           ~ Happened(t, action), Happened(t, action)',
           \A u \in Tasks, b \in Action :
               u # t \/ b # action => (Happened(u, b)' <=> Happened(u, b)),
           \A u \in Tasks : inner'[u].state \in {"Absent", "Draft", "PendingApproval"}
                                => inner'[u].approval = "None"
    PROVE  AuditInv'
<1>1. /\ \A d \in Calls : d # c => call'[d] = call[d]
      /\ call'[c].at = "audit" /\ call'[c].task = t /\ call'[c].action = action
  BY DEF IInv, TypeOK, Owes
<1>2. ~ Recorded(t, action) /\ ~ Pending(t, action)
  BY DEF AuditInv
<1>3. \A u, b : Pending(u, b)' <=> Pending(u, b) \/ (u = t /\ b = action)
  BY <1>1 DEF Pending
<1>4. \A u, b : /\ Recorded(u, b)' <=> Recorded(u, b)
                /\ Lost(u, b)' <=> Lost(u, b)
  BY DEF Recorded, Lost
<1>5. \A u \in Tasks, b \in Action :
        /\ Happened(u, b)' <=> Recorded(u, b)' \/ Pending(u, b)' \/ Lost(u, b)'
        /\ ~ (Pending(u, b)' /\ Recorded(u, b)')
  BY <1>2, <1>3, <1>4 DEF AuditInv
<1>6. \A d, e \in Calls :
        /\ call'[d].at = "audit" /\ call'[e].at = "audit"
        /\ call'[d].task = call'[e].task /\ call'[d].action = call'[e].action
        => d = e
  BY <1>1, <1>2 DEF AuditInv, Pending
<1>7. \A i, j \in 1..Len(audit') : audit'[i] = audit'[j] => i = j
  BY DEF AuditInv
<1> QED BY <1>5, <1>6, <1>7 DEF AuditInv

\* A step that changes no fact the log speaks of, and neither takes on nor pays a
\* debt, keeps the account.
LEMMA SilentStep ==
    ASSUME IInv, AuditInv, UNCHANGED <<audit, dropped>>,
           \A d \in Calls : call'[d] = call[d] \/ (call[d].at # "audit" /\ call'[d].at # "audit"),
           \A u \in Tasks, b \in Action : Happened(u, b)' <=> Happened(u, b),
           \A u \in Tasks : inner'[u].state \in {"Absent", "Draft", "PendingApproval"}
                                => inner'[u].approval = "None"
    PROVE  AuditInv'
<1>1. \A u, b : /\ Pending(u, b)' <=> Pending(u, b)
                /\ Recorded(u, b)' <=> Recorded(u, b)
                /\ Lost(u, b)' <=> Lost(u, b)
  BY DEF Pending, Recorded, Lost
<1>2. \A d, e \in Calls :
        /\ call'[d].at = "audit" /\ call'[e].at = "audit"
        /\ call'[d].task = call'[e].task /\ call'[d].action = call'[e].action
        => d = e
  BY DEF AuditInv
<1>3. \A i, j \in 1..Len(audit') : audit'[i] = audit'[j] => i = j
  BY DEF AuditInv
<1> QED BY <1>1, <1>2, <1>3 DEF AuditInv

\* create_dry_run, approve and cancel.
LEMMA ChangesAreOwed ==
    ASSUME IInv, AuditInv, NEW c \in Calls, NEW t \in Tasks,
           \/ \E k \in Keys, kind \in {"read", "write"} : create_dry_run(c, t, k, kind)
           \/ approve(c, t)
           \/ cancel(c, t)
    PROVE  AuditInv'
<1>1. inner \in [Tasks -> Task]
  BY DEF IInv, TypeOK
<1>2. \A u \in Tasks : inner[u].state \in {"Absent", "Draft", "PendingApproval"}
                          => inner[u].approval = "None"
  BY DEF AuditInv
<1>3. ASSUME NEW k \in Keys, NEW kind \in {"read", "write"}, create_dry_run(c, t, k, kind)
      PROVE  AuditInv'
  <2> DEFINE s == IF kind = "write" THEN "PendingApproval" ELSE "Queued"
             new == [state |-> s, key |-> k, kind |-> kind,
                     approval |-> "None", receipt |-> "None"]
  <2>1. /\ inner' = [inner EXCEPT ![t] = new]
        /\ call' = [call EXCEPT ![c] = Owes(t, "task.created", s)]
        /\ call[c].at = "idle" /\ inner[t].state = "Absent" /\ UNCHANGED <<audit, dropped>>
    BY <1>3 DEF create_dry_run
  <2>2. new.state \notin {"Absent", "Cancelled"} /\ new.approval = "None"
    OBVIOUS
  <2> HIDE DEF new, s
  <2>3. inner'[t] = new /\ \A u \in Tasks : u # t => inner'[u] = inner[u]
    BY <1>1, <2>1
  <2>4. ~ Happened(t, "task.created") /\ Happened(t, "task.created")'
    BY <1>2, <2>1, <2>2, <2>3 DEF Happened
  <2>5. ASSUME NEW u \in Tasks, NEW b \in Action, u # t \/ b # "task.created"
        PROVE  Happened(u, b)' <=> Happened(u, b)
    <3>1. CASE u # t
      BY <2>3, <3>1 DEF Happened
    <3>2. CASE u = t
      BY <1>2, <2>1, <2>2, <2>3, <2>5, <3>2 DEF Action, Happened
    <3> QED BY <3>1, <3>2
  <2>6. \A u \in Tasks : inner'[u].state \in {"Absent", "Draft", "PendingApproval"}
                          => inner'[u].approval = "None"
    BY <1>2, <2>1, <2>2, <2>3
  <2>7. "task.created" \in Action
    BY DEF Action
  <2> QED BY <2>1, <2>4, <2>5, <2>6, <2>7, ChangeIsOwed
<1>4. CASE approve(c, t)
  <2> DEFINE r == [inner[t] EXCEPT !.state = "Queued", !.approval = "Some"]
  <2>1. /\ inner' = [inner EXCEPT ![t] = r]
        /\ call' = [call EXCEPT ![c] = Owes(t, "task.approved", "Queued")]
        /\ call[c].at = "idle" /\ UNCHANGED <<audit, dropped>>
        /\ inner[t].state \in {"Draft", "PendingApproval"}
    BY <1>1, <1>4 DEF approve, MayBecome, can_transition_to
  <2>2. r.state = "Queued" /\ r.approval = "Some"
    BY <1>1 DEF Task
  <2> HIDE DEF r
  <2>3. inner'[t] = r /\ \A u \in Tasks : u # t => inner'[u] = inner[u]
    BY <1>1, <2>1
  <2>4. ~ Happened(t, "task.approved") /\ Happened(t, "task.approved")'
    BY <1>2, <2>1, <2>2, <2>3 DEF Happened
  <2>5. ASSUME NEW u \in Tasks, NEW b \in Action, u # t \/ b # "task.approved"
        PROVE  Happened(u, b)' <=> Happened(u, b)
    <3>1. CASE u # t
      BY <2>3, <3>1 DEF Happened
    <3>2. CASE u = t
      BY <1>2, <2>1, <2>2, <2>3, <2>5, <3>2 DEF Action, Happened
    <3> QED BY <3>1, <3>2
  <2>6. \A u \in Tasks : inner'[u].state \in {"Absent", "Draft", "PendingApproval"}
                          => inner'[u].approval = "None"
    BY <1>2, <2>1, <2>2, <2>3
  <2>7. "task.approved" \in Action
    BY DEF Action
  <2> QED BY <2>1, <2>4, <2>5, <2>6, <2>7, ChangeIsOwed
<1>5. CASE cancel(c, t)
  <2> DEFINE r == [inner[t] EXCEPT !.state = "Cancelled"]
  <2>1. /\ inner' = [inner EXCEPT ![t] = r]
        /\ call' = [call EXCEPT ![c] = Owes(t, "task.cancelled", "Cancelled")]
        /\ call[c].at = "idle" /\ UNCHANGED <<audit, dropped>>
        /\ inner[t].state \in {"PendingApproval", "Queued", "Running"}
    BY <1>1, <1>5 DEF cancel, MayBecome, can_transition_to
  <2>2. r.state = "Cancelled" /\ r.approval = inner[t].approval
    BY <1>1 DEF Task
  <2> HIDE DEF r
  <2>3. inner'[t] = r /\ \A u \in Tasks : u # t => inner'[u] = inner[u]
    BY <1>1, <2>1
  <2>4. ~ Happened(t, "task.cancelled") /\ Happened(t, "task.cancelled")'
    BY <1>2, <2>1, <2>2, <2>3 DEF Happened
  <2>5. ASSUME NEW u \in Tasks, NEW b \in Action, u # t \/ b # "task.cancelled"
        PROVE  Happened(u, b)' <=> Happened(u, b)
    <3>1. CASE u # t
      BY <2>3, <3>1 DEF Happened
    <3>2. CASE u = t
      BY <1>2, <2>1, <2>2, <2>3, <2>5, <3>2 DEF Action, Happened
    <3> QED BY <3>1, <3>2
  <2>6. \A u \in Tasks : inner'[u].state \in {"Absent", "Draft", "PendingApproval"}
                          => inner'[u].approval = "None"
    BY <1>2, <2>1, <2>2, <2>3
  <2>7. "task.cancelled" \in Action
    BY DEF Action
  <2> QED BY <2>1, <2>4, <2>5, <2>6, <2>7, ChangeIsOwed
<1> QED BY <1>3, <1>4, <1>5

\* A task moves between states that the log does not speak of.
LEMMA ExecutionIsSilent ==
    ASSUME IInv, AuditInv, NEW t \in Tasks, inner[t].state \in {"Queued", "Running"},
           inner' \in [Tasks -> Task], \A u \in Tasks : u # t => inner'[u] = inner[u],
           inner'[t].approval = inner[t].approval,
           inner'[t].state \in {"Running", "Succeeded", "Failed"}
    PROVE  /\ \A u \in Tasks, b \in Action : Happened(u, b)' <=> Happened(u, b)
           /\ \A u \in Tasks : inner'[u].state \in {"Absent", "Draft", "PendingApproval"}
                                   => inner'[u].approval = "None"
<1>1. \A u \in Tasks, b \in Action : Happened(u, b)' <=> Happened(u, b)
  BY HappenedIs DEF Action, Happened
<1> QED BY <1>1 DEF AuditInv

\* mark_running, mark_succeeded, mark_failed and send_event leave the log alone.
LEMMA ExecutionKeepsAudit ==
    ASSUME IInv, AuditInv,
           \/ \E c \in Calls, t \in Tasks : mark_running(c, t)
           \/ \E c \in Calls : mark_succeeded(c) \/ send_event(c)
           \/ \E t \in Tasks : mark_failed(t)
    PROVE  AuditInv'
<1>1. inner \in [Tasks -> Task] /\ call \in [Calls -> Call]
  BY DEF IInv, TypeOK
<1>2. ASSUME NEW c \in Calls, NEW t \in Tasks, mark_running(c, t) PROVE AuditInv'
  <2> DEFINE r == [inner[t] EXCEPT !.state = "Running"]
  <2>1. /\ inner' = [inner EXCEPT ![t] = r]
        /\ call' = [call EXCEPT ![c] = Executing(t)] /\ call[c].at = "idle"
        /\ UNCHANGED <<audit, dropped>> /\ MayBecome(t, "Running")
    BY <1>1, <1>2 DEF mark_running
  <2>2. r \in Task /\ r.state = "Running" /\ r.approval = inner[t].approval
    BY <1>1 DEF Task, TaskState
  <2>3. inner[t].state = "Queued"
    BY <2>1, TransitionFacts DEF MayBecome
  <2> HIDE DEF r
  <2>4. /\ inner' \in [Tasks -> Task] /\ inner'[t] = r
        /\ \A u \in Tasks : u # t => inner'[u] = inner[u]
    BY <1>1, <2>1, <2>2
  <2>5. \A d \in Calls : call'[d] = call[d] \/ (call[d].at # "audit" /\ call'[d].at # "audit")
    BY <1>1, <2>1 DEF Executing
  <2>6. /\ \A u \in Tasks, b \in Action : Happened(u, b)' <=> Happened(u, b)
        /\ \A u \in Tasks : inner'[u].state \in {"Absent", "Draft", "PendingApproval"}
                                => inner'[u].approval = "None"
    BY <2>2, <2>3, <2>4, ExecutionIsSilent
  <2> QED BY <2>1, <2>5, <2>6, SilentStep
<1>3. ASSUME NEW t \in Tasks, inner[t].state = "Running",
             \/ inner' = [inner EXCEPT ![t].state = "Succeeded", ![t].receipt = "Executed"]
             \/ inner' = [inner EXCEPT ![t].state = "Failed", ![t].receipt = "Reason"]
      PROVE  /\ \A u \in Tasks, b \in Action : Happened(u, b)' <=> Happened(u, b)
             /\ \A u \in Tasks : inner'[u].state \in {"Absent", "Draft", "PendingApproval"}
                                     => inner'[u].approval = "None"
  <2>1. /\ inner' \in [Tasks -> Task] /\ \A u \in Tasks : u # t => inner'[u] = inner[u]
        /\ inner'[t].approval = inner[t].approval
        /\ inner'[t].state \in {"Running", "Succeeded", "Failed"}
    BY <1>1, <1>3 DEF Task, TaskState
  <2> QED BY <1>3, <2>1, ExecutionIsSilent
<1>4. ASSUME NEW c \in Calls, call[c].at # "audit", call' = [call EXCEPT ![c] = Idle]
      PROVE  \A d \in Calls : call'[d] = call[d] \/ (call[d].at # "audit" /\ call'[d].at # "audit")
  BY <1>1, <1>4 DEF Idle
<1>5. ASSUME UNCHANGED inner
      PROVE  /\ \A u \in Tasks, b \in Action : Happened(u, b)' <=> Happened(u, b)
             /\ \A u \in Tasks : inner'[u].state \in {"Absent", "Draft", "PendingApproval"}
                                     => inner'[u].approval = "None"
  BY <1>5 DEF Happened, AuditInv
<1>6. ASSUME NEW c \in Calls, mark_succeeded(c) PROVE AuditInv'
  <2>1. /\ call[c].at = "executing" /\ call[c].task \in Tasks
        /\ call' = [call EXCEPT ![c] = Idle] /\ UNCHANGED <<audit, dropped>>
    BY <1>6 DEF mark_succeeded, IInv, HandlersNameTasks
  <2>2. CASE MayBecome(call[c].task, "Succeeded")
    <3>1. inner[call[c].task].state = "Running"
      BY <2>2, TransitionFacts DEF MayBecome
    <3>2. inner' = [inner EXCEPT ![call[c].task].state = "Succeeded",
                                 ![call[c].task].receipt = "Executed"]
      BY <1>6, <2>2 DEF mark_succeeded
    <3> QED BY <1>3, <1>4, <2>1, <3>1, <3>2, SilentStep
  <2>3. CASE UNCHANGED inner
    BY <1>4, <1>5, <2>1, <2>3, SilentStep
  <2> QED BY <1>6, <2>2, <2>3 DEF mark_succeeded
<1>7. ASSUME NEW c \in Calls, send_event(c) PROVE AuditInv'
  BY <1>4, <1>5, <1>7, SilentStep DEF send_event
<1>8. ASSUME NEW t \in Tasks, mark_failed(t) PROVE AuditInv'
  <2>1. /\ inner' = [inner EXCEPT ![t].state = "Failed", ![t].receipt = "Reason"]
        /\ UNCHANGED <<audit, call, dropped>> /\ inner[t].state = "Running"
    BY <1>8, TransitionFacts DEF mark_failed, MayBecome
  <2> QED BY <1>3, <2>1, SilentStep
<1> QED BY <1>2, <1>6, <1>7, <1>8

\* write_audit pays a debt: the record is new, and nobody else owes it.
LEMMA WritePays ==
    ASSUME IInv, AuditInv, NEW c \in Calls, write_audit(c)
    PROVE  AuditInv'
<1> DEFINE t == call[c].task
           action == call[c].action
           record == [target |-> t, action |-> action]
           k == [call[c] EXCEPT !.at = "send"]
<1>1. /\ call[c].at = "audit" /\ call' = [call EXCEPT ![c] = k]
      /\ audit' = Append(audit, record) /\ UNCHANGED <<inner, dropped>>
  BY DEF write_audit
<1>2. t \in Tasks /\ action \in Action /\ record \in AuditEvent /\ audit \in Seq(AuditEvent)
  BY <1>1 DEF IInv, TypeOK, HandlersNameTasks, AuditEvent
<1>3. call'[c].at = "send" /\ \A d \in Calls : d # c => call'[d] = call[d]
  BY <1>1 DEF IInv, TypeOK, Call
<1>4. Pending(t, action) /\ ~ Recorded(t, action)
  BY <1>1, <1>2 DEF AuditInv, Pending
<1>5. \A u, b : Recorded(u, b)' <=> Recorded(u, b) \/ (u = t /\ b = action)
  <2> SUFFICES ASSUME NEW u, NEW b
               PROVE  Recorded(u, b)' <=> Recorded(u, b) \/ (u = t /\ b = action)
    OBVIOUS
  <2>1. Recorded(u, b)' <=> ([target |-> u, action |-> b] = record \/ Recorded(u, b))
    <3> HIDE DEF record
    <3> QED BY <1>1, <1>2, AppendHolds DEF Recorded
  <2>2. [target |-> u, action |-> b] = record <=> u = t /\ b = action
    OBVIOUS
  <2> QED BY <2>1, <2>2
<1>6. \A u \in Tasks, b \in Action :
        Pending(u, b)' <=> Pending(u, b) /\ ~ (u = t /\ b = action)
  BY <1>1, <1>3 DEF Pending, AuditInv
<1> HIDE DEF t, action
<1>7. \A u \in Tasks, b \in Action :
        /\ Happened(u, b)' <=> Happened(u, b)
        /\ Lost(u, b)' <=> Lost(u, b)
  BY <1>1 DEF Happened, Lost
<1>8. \A u \in Tasks, b \in Action :
        /\ Happened(u, b)' <=> Recorded(u, b)' \/ Pending(u, b)' \/ Lost(u, b)'
        /\ ~ (Pending(u, b)' /\ Recorded(u, b)')
  BY <1>4, <1>5, <1>6, <1>7 DEF AuditInv
<1>9. \A d, e \in Calls :
        /\ call'[d].at = "audit" /\ call'[e].at = "audit"
        /\ call'[d].task = call'[e].task /\ call'[d].action = call'[e].action
        => d = e
  BY <1>3 DEF AuditInv
<1>10. \A i, j \in 1..Len(audit') : audit'[i] = audit'[j] => i = j
  <2>1. \A i \in 1..Len(audit) : audit[i] # record
    BY <1>4 DEF Recorded
  <2> HIDE DEF record
  <2>2. /\ Len(audit) \in Nat /\ Len(audit') = Len(audit) + 1 /\ audit'[Len(audit) + 1] = record
        /\ \A i \in 1..Len(audit) : audit'[i] = audit[i]
    BY <1>1, <1>2
  <2>3. \A i \in 1..Len(audit') : i \in 1..Len(audit) \/ i = Len(audit) + 1
    BY <2>2
  <2> QED BY <2>1, <2>2, <2>3 DEF AuditInv
<1> QED BY <1>1, <1>8, <1>9, <1>10 DEF AuditInv

\* A handler that is dropped leaves its debt behind.
LEMMA DropLoses ==
    ASSUME IInv, AuditInv, NEW c \in Calls, drop_handler(c)
    PROVE  AuditInv'
<1>1. /\ call' = [call EXCEPT ![c] = Idle] /\ dropped' = dropped \cup {call[c]}
      /\ UNCHANGED <<inner, audit>>
  BY DEF drop_handler
<1>2. call'[c].at = "idle" /\ \A d \in Calls : d # c => call'[d] = call[d]
  BY <1>1 DEF IInv, TypeOK, Idle
<1>3. \A u \in Tasks, b \in Action :
        /\ Happened(u, b)' <=> Happened(u, b)
        /\ Recorded(u, b)' <=> Recorded(u, b)
        /\ Pending(u, b)' => Pending(u, b)
        /\ Pending(u, b)' \/ Lost(u, b)' <=> Pending(u, b) \/ Lost(u, b)
  BY <1>1, <1>2 DEF Happened, Recorded, Pending, Lost
<1>4. \A d, e \in Calls :
        /\ call'[d].at = "audit" /\ call'[e].at = "audit"
        /\ call'[d].task = call'[e].task /\ call'[d].action = call'[e].action
        => d = e
  BY <1>2 DEF AuditInv
<1>5. \A i, j \in 1..Len(audit') : audit'[i] = audit'[j] => i = j
  BY <1>1 DEF AuditInv
<1> QED BY <1>1, <1>3, <1>4, <1>5 DEF AuditInv

LEMMA AuditStep == IInv /\ AuditInv /\ [Next]_vars => AuditInv'
<1> SUFFICES ASSUME IInv, AuditInv, [Next]_vars PROVE AuditInv'
  OBVIOUS
<1>1. CASE Next
  BY <1>1, ChangesAreOwed, ExecutionKeepsAudit, WritePays, DropLoses DEF Next
<1>2. CASE UNCHANGED vars
  BY <1>2, SilentStep DEF vars, Happened, AuditInv
<1> QED BY <1>1, <1>2

LEMMA AuditInit == Init => AuditInv
BY DEF Init, AuditInv, Happened, Recorded, Pending, Lost, Absent, Idle, Action

\* Every change of a task is in the audit log once, still owed by the handler that
\* made it, or was lost with that handler; nothing else is in the log.
THEOREM AuditIsComplete == Spec => []AuditAccountsForChanges
<1>1. AuditInv => AuditAccountsForChanges
  <2>1. \A t, action : OwedBy(t, action) # {} <=> Pending(t, action)
    BY DEF OwedBy, Pending
  <2> QED BY <2>1 DEF AuditInv, AuditAccountsForChanges, Lost
<1> QED BY <1>1, Invariance, AuditInit, AuditStep, PTL DEF Spec

\* The state of a task has been sent, will be sent, or was lost.
Sent(t, state) == \E i \in 1..Len(events) : events[i] = [task |-> t, state |-> state]
Sending(t, state) ==
    \E c \in Calls : call[c].at \in {"audit", "send"} /\ call[c].task = t /\ call[c].state = state
Unsent(t) == \E d \in dropped : d.at = "audit" /\ d.task = t

Announced ==
    \A t \in Tasks : inner[t].state # "Absent" =>
        Sent(t, inner[t].state) \/ Sending(t, inner[t].state) \/ Unsent(t)

\* What a broadcast adds to what was sent.
LEMMA BroadcastSends ==
    ASSUME IInv, NEW t \in Tasks, NEW state \in TaskState, Broadcast(t, state)
    PROVE  \A u, s : Sent(u, s)' <=> Sent(u, s) \/ (u = t /\ s = state)
<1> SUFFICES ASSUME NEW u, NEW s PROVE Sent(u, s)' <=> Sent(u, s) \/ (u = t /\ s = state)
  OBVIOUS
<1> DEFINE event == [task |-> t, state |-> state]
<1>1. events \in Seq(TaskEvent) /\ event \in TaskEvent /\ events' = Append(events, event)
  BY DEF IInv, TypeOK, TaskEvent, Broadcast
<1>2. [task |-> u, state |-> s] = event <=> u = t /\ s = state
  OBVIOUS
<1>3. Sent(u, s)' <=> ([task |-> u, state |-> s] = event \/ Sent(u, s))
  <2> HIDE DEF event
  <2> QED BY <1>1, AppendHolds DEF Sent
<1> QED BY <1>2, <1>3

\* A task that moves is announced by the handler that moved it, or at once.
LEMMA MoveIsAnnounced ==
    ASSUME Announced, NEW t \in Tasks,
           \A u \in Tasks : u # t => inner'[u] = inner[u],
           \A u, s : Sent(u, s) => Sent(u, s)',
           \A u, s : Sending(u, s) => Sending(u, s)',
           dropped \subseteq dropped',
           Sent(t, inner[t].state)' \/ Sending(t, inner[t].state)'
    PROVE  Announced'
<1>1. \A u : Unsent(u) => Unsent(u)'
  BY DEF Unsent
<1> QED BY <1>1 DEF Announced, Sent, Sending

\* A handler that has nothing to send becomes one that has.
LEMMA DebtsGrow ==
    ASSUME IInv, NEW c \in Calls, call[c].at \notin {"audit", "send"}, NEW k,
           call' = [call EXCEPT ![c] = k]
    PROVE  /\ \A u, s : Sending(u, s) => Sending(u, s)'
           /\ k.at \in {"audit", "send"} => Sending(k.task, k.state)'
BY DEF IInv, TypeOK, Sending

\* A step that broadcasts the new state of the task it moves.
LEMMA BroadcastAnnounces ==
    ASSUME IInv, Announced, NEW t \in Tasks, NEW state \in TaskState, NEW r,
           inner' = [inner EXCEPT ![t] = r], r.state = state, Broadcast(t, state),
           UNCHANGED dropped, \A u, s : Sending(u, s) => Sending(u, s)'
    PROVE  Announced'
<1>1. inner'[t] = r /\ \A u \in Tasks : u # t => inner'[u] = inner[u]
  BY DEF IInv, TypeOK
<1>2. (\A u, s : Sent(u, s) => Sent(u, s)') /\ Sent(t, state)'
  BY BroadcastSends
<1>3. Sent(t, inner[t].state)'
  BY <1>1, <1>2 DEF Sent
<1>4. dropped \subseteq dropped'
  OBVIOUS
<1> QED BY <1>1, <1>2, <1>3, <1>4, MoveIsAnnounced

\* A step that moves no task and forgets nothing.
LEMMA StillAnnounced ==
    ASSUME Announced, UNCHANGED inner,
           \A u, s : Sent(u, s) \/ Sending(u, s) \/ Unsent(u)
                       => Sent(u, s)' \/ Sending(u, s)' \/ Unsent(u)'
    PROVE  Announced'
<1>1. ASSUME NEW u \in Tasks, inner'[u].state # "Absent"
      PROVE  Sent(u, inner[u].state)' \/ Sending(u, inner[u].state)' \/ Unsent(u)'
  <2>1. PICK s : s = inner[u].state
    OBVIOUS
  <2>2. Sent(u, s)' \/ Sending(u, s)' \/ Unsent(u)'
    BY <1>1, <2>1 DEF Announced
  <2> QED BY <2>1, <2>2 DEF Sent, Sending
<1> QED BY <1>1 DEF Announced

\* The steps that move a task.
LEMMA MovesAreAnnounced ==
    ASSUME IInv, Announced,
           \/ \E c \in Calls, t \in Tasks :
                \/ \E k \in Keys, kind \in {"read", "write"} : create_dry_run(c, t, k, kind)
                \/ approve(c, t) \/ cancel(c, t) \/ mark_running(c, t)
           \/ \E t \in Tasks : mark_failed(t)
    PROVE  Announced'
<1>1. inner \in [Tasks -> Task] /\ call \in [Calls -> Call]
  BY DEF IInv, TypeOK
<1>2. ASSUME NEW c \in Calls, NEW t \in Tasks, NEW action, NEW state, NEW r,
             inner' = [inner EXCEPT ![t] = r], r.state = state, call[c].at = "idle",
             call' = [call EXCEPT ![c] = Owes(t, action, state)], UNCHANGED <<events, dropped>>
      PROVE  Announced'
  <2>1. inner'[t] = r /\ \A u \in Tasks : u # t => inner'[u] = inner[u]
    BY <1>1, <1>2
  <2> DEFINE k == Owes(t, action, state)
  <2>2. k.at = "audit" /\ k.task = t /\ k.state = state
    BY DEF Owes
  <2>3. call' = [call EXCEPT ![c] = k]
    BY <1>2
  <2> HIDE DEF k
  <2>4. (\A u, s : Sending(u, s) => Sending(u, s)') /\ Sending(t, state)'
    <3>1. call[c].at \notin {"audit", "send"}
      BY <1>2
    <3>2. /\ \A u, s : Sending(u, s) => Sending(u, s)'
          /\ k.at \in {"audit", "send"} => Sending(k.task, k.state)'
      BY <2>3, <3>1, DebtsGrow, Zenon
    <3> QED BY <2>2, <3>2, Zenon
  <2>5. Sending(t, inner[t].state)'
    BY <1>2, <2>1, <2>4 DEF Sending
  <2>6. \A u, s : Sent(u, s) => Sent(u, s)'
    BY <1>2 DEF Sent
  <2>7. dropped \subseteq dropped'
    BY <1>2
  <2> QED BY <2>1, <2>4, <2>5, <2>6, <2>7, MoveIsAnnounced
<1>3. ASSUME NEW c \in Calls, NEW t \in Tasks, NEW k \in Keys, NEW kind \in {"read", "write"},
             create_dry_run(c, t, k, kind)
      PROVE  Announced'
  <2> DEFINE s == IF kind = "write" THEN "PendingApproval" ELSE "Queued"
             r == [state |-> s, key |-> k, kind |-> kind, approval |-> "None", receipt |-> "None"]
  <2>1. /\ inner' = [inner EXCEPT ![t] = r] /\ call[c].at = "idle"
        /\ call' = [call EXCEPT ![c] = Owes(t, "task.created", s)]
        /\ UNCHANGED <<events, dropped>>
    BY <1>3 DEF create_dry_run
  <2>2. r.state = s
    OBVIOUS
  <2> HIDE DEF r, s
  <2> QED BY <1>2, <2>1, <2>2
<1>4. ASSUME NEW c \in Calls, NEW t \in Tasks, approve(c, t) PROVE Announced'
  <2> DEFINE r == [inner[t] EXCEPT !.state = "Queued", !.approval = "Some"]
  <2>1. /\ inner' = [inner EXCEPT ![t] = r] /\ call[c].at = "idle"
        /\ call' = [call EXCEPT ![c] = Owes(t, "task.approved", "Queued")]
        /\ UNCHANGED <<events, dropped>>
    BY <1>1, <1>4 DEF approve
  <2>2. r.state = "Queued"
    BY <1>1 DEF Task
  <2> HIDE DEF r
  <2> QED BY <1>2, <2>1, <2>2
<1>5. ASSUME NEW c \in Calls, NEW t \in Tasks, cancel(c, t) PROVE Announced'
  <2> DEFINE r == [inner[t] EXCEPT !.state = "Cancelled"]
  <2>1. /\ inner' = [inner EXCEPT ![t] = r] /\ call[c].at = "idle"
        /\ call' = [call EXCEPT ![c] = Owes(t, "task.cancelled", "Cancelled")]
        /\ UNCHANGED <<events, dropped>>
    BY <1>1, <1>5 DEF cancel
  <2>2. r.state = "Cancelled"
    BY <1>1 DEF Task
  <2> HIDE DEF r
  <2> QED BY <1>2, <2>1, <2>2
<1>6. ASSUME NEW c \in Calls, NEW t \in Tasks, mark_running(c, t) PROVE Announced'
  <2> DEFINE r == [inner[t] EXCEPT !.state = "Running"]
  <2>1. /\ inner' = [inner EXCEPT ![t] = r] /\ call[c].at = "idle" /\ Broadcast(t, "Running")
        /\ call' = [call EXCEPT ![c] = Executing(t)] /\ UNCHANGED dropped
    BY <1>1, <1>6 DEF mark_running
  <2>2. r.state = "Running" /\ "Running" \in TaskState
    BY <1>1 DEF Task, TaskState
  <2>3. \A u, s : Sending(u, s) => Sending(u, s)'
    BY <2>1, DebtsGrow
  <2> HIDE DEF r
  <2> QED BY <1>1, <2>1, <2>2, <2>3, BroadcastAnnounces
<1>7. ASSUME NEW t \in Tasks, mark_failed(t) PROVE Announced'
  <2> DEFINE r == [inner[t] EXCEPT !.state = "Failed", !.receipt = "Reason"]
  <2>1. /\ inner' = [inner EXCEPT ![t] = r] /\ Broadcast(t, "Failed")
        /\ UNCHANGED <<call, dropped>>
    BY <1>1, <1>7 DEF mark_failed
  <2>2. r.state = "Failed" /\ "Failed" \in TaskState
    BY <1>1 DEF Task, TaskState
  <2>3. \A u, s : Sending(u, s) => Sending(u, s)'
    BY <2>1 DEF Sending
  <2> HIDE DEF r
  <2> QED BY <1>1, <2>1, <2>2, <2>3, BroadcastAnnounces
<1> QED BY <1>3, <1>4, <1>5, <1>6, <1>7

\* mark_succeeded announces the end, or does nothing to the task.
LEMMA EndIsAnnounced ==
    ASSUME IInv, Announced, NEW c \in Calls, mark_succeeded(c)
    PROVE  Announced'
<1> DEFINE t == call[c].task
           r == [inner[t] EXCEPT !.state = "Succeeded", !.receipt = "Executed"]
<1>1. inner \in [Tasks -> Task] /\ call \in [Calls -> Call] /\ t \in Tasks
  BY DEF IInv, TypeOK, HandlersNameTasks, mark_succeeded
<1>2. \A u, s : Sending(u, s) => Sending(u, s)'
  BY DebtsGrow DEF mark_succeeded
<1>3. CASE MayBecome(t, "Succeeded")
  <2>1. inner' = [inner EXCEPT ![t] = r] /\ Broadcast(t, "Succeeded") /\ UNCHANGED dropped
    BY <1>1, <1>3 DEF mark_succeeded
  <2>2. r.state = "Succeeded" /\ "Succeeded" \in TaskState
    BY <1>1 DEF Task, TaskState
  <2> HIDE DEF r, t
  <2> QED BY <1>1, <1>2, <2>1, <2>2, BroadcastAnnounces
<1>4. CASE ~ MayBecome(t, "Succeeded")
  <2>1. UNCHANGED <<inner, events, dropped>>
    BY <1>4 DEF mark_succeeded
  <2>2. \A u, s : (Sent(u, s) => Sent(u, s)') /\ (Unsent(u) => Unsent(u)')
    BY <2>1 DEF Sent, Unsent
  <2> QED BY <1>2, <2>1, <2>2, StillAnnounced
<1> QED BY <1>3, <1>4

\* Sending the audit record, the event, or nothing any more.
LEMMA HandlersAnnounce ==
    ASSUME IInv, Announced, NEW c \in Calls,
           write_audit(c) \/ send_event(c) \/ drop_handler(c)
    PROVE  Announced'
<1>1. UNCHANGED inner /\ call \in [Calls -> Call]
  BY DEF write_audit, send_event, drop_handler, IInv, TypeOK
<1>2. CASE write_audit(c)
  <2> DEFINE k == [call[c] EXCEPT !.at = "send"]
  <2>1. call' = [call EXCEPT ![c] = k] /\ UNCHANGED <<events, dropped>>
    BY <1>2 DEF write_audit
  <2>2. k.at = "send" /\ k.task = call[c].task /\ k.state = call[c].state
    BY <1>1 DEF Call
  <2> HIDE DEF k
  <2>3. \A u, s : Sending(u, s) => Sending(u, s)'
    BY <1>1, <2>1, <2>2 DEF Sending
  <2>4. \A u, s : (Sent(u, s) => Sent(u, s)') /\ (Unsent(u) => Unsent(u)')
    BY <2>1 DEF Sent, Unsent
  <2> QED BY <1>1, <2>3, <2>4, StillAnnounced
<1>3. CASE send_event(c)
  <2> DEFINE t == call[c].task
             state == call[c].state
  <2>1. /\ call' = [call EXCEPT ![c] = Idle] /\ Broadcast(t, state) /\ UNCHANGED dropped
        /\ t \in Tasks /\ state \in TaskState
    BY <1>3 DEF send_event, IInv, HandlersNameTasks
  <2>2. \A u, s : Sending(u, s) => Sending(u, s)' \/ (u = t /\ s = state)
    BY <1>1, <2>1 DEF Sending
  <2>3. \A u, s : Sent(u, s)' <=> Sent(u, s) \/ (u = t /\ s = state)
    BY <2>1, BroadcastSends
  <2> HIDE DEF t, state
  <2>4. \A u, s : Sent(u, s) \/ Sending(u, s) => Sent(u, s)' \/ Sending(u, s)'
    BY <2>2, <2>3
  <2> QED BY <1>1, <2>1, <2>4 DEF Announced, Unsent, Sent, Sending
<1>4. CASE drop_handler(c)
  <2>1. /\ call[c].at \in {"audit", "executing"} /\ call' = [call EXCEPT ![c] = Idle]
        /\ dropped' = dropped \cup {call[c]} /\ UNCHANGED events
    BY <1>4 DEF drop_handler
  <2>2. \A u, s : Sending(u, s) => Sending(u, s)' \/ Unsent(u)'
    BY <1>1, <2>1 DEF Sending, Unsent
  <2>3. \A u : Unsent(u) => Unsent(u)'
    BY <2>1 DEF Unsent
  <2> QED BY <1>1, <2>1, <2>2, <2>3 DEF Announced, Sent, Sending, Unsent
<1> QED BY <1>2, <1>3, <1>4

LEMMA AnnouncedStep == IInv /\ Announced /\ [Next]_vars => Announced'
<1> SUFFICES ASSUME IInv, Announced, [Next]_vars PROVE Announced'
  OBVIOUS
<1>1. CASE Next
  BY <1>1, MovesAreAnnounced, EndIsAnnounced, HandlersAnnounce DEF Next
<1>2. CASE UNCHANGED vars
  BY <1>2 DEF vars, Announced, Sent, Sending, Unsent
<1> QED BY <1>1, <1>2

\* The state of every task was broadcast, is about to be by a handler in flight, or
\* was lost with a dropped one, in whatever order the handlers send.
THEOREM StatesAreAnnounced == Spec => []CurrentStateAnnounced
<1>1. Init => Announced
  BY DEF Init, Announced, Absent
<1>2. Announced => CurrentStateAnnounced
  BY DEF Announced, Sent, Sending, Unsent, CurrentStateAnnounced
<1> QED BY <1>1, <1>2, Invariance, AnnouncedStep, PTL DEF Spec
=============================================================================
