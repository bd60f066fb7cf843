----------------------------- MODULE TaskEngine -----------------------------
(***************************************************************************)
(* The task store of the local node (crates/task-engine/src/lib.rs) and    *)
(* the HTTP handlers that drive it (apps/local-node/src/main.rs).          *)
(*                                                                         *)
(* A TaskStore is one map of tasks and one index from (tenant,             *)
(* idempotency key) to a task, each behind a tokio RwLock.  The body of    *)
(* every operation runs under the write lock of the map, so it is one      *)
(* step.  What is NOT under that lock is a step of its own: create,        *)
(* approve and cancel write the audit record and broadcast the event after *)
(* the lock is released, and the execute handler sleeps between its two    *)
(* store calls.  A handler is a future that the HTTP server drops when its *)
(* client goes away, so it may vanish at any of its await points.          *)
(*                                                                         *)
(* A call that the store refuses (unknown task, illegal transition,        *)
(* approval not required, write not approved) or that finds a live task    *)
(* for its key changes nothing and is a stuttering step.                   *)
(***************************************************************************)
EXTENDS Naturals, Sequences

CONSTANTS
    Tasks,      \* the TaskIds (fresh UUIDs) that may be allocated
    Keys,       \* the pairs (tenant_id, idempotency_key)
    Calls,      \* the request handlers that may be in flight at once
    NoTask,     \* the index holds no entry; a handler that works on no task
    NoKey       \* the key of a TaskId that is not allocated

ASSUME NoTaskAssumption == NoTask \notin Tasks
ASSUME NoKeyAssumption == NoKey \notin Keys

VARIABLES
    inner,           \* TaskStore.inner, total: unallocated ids are Absent
    by_idempotency,  \* TaskStore.by_idempotency
    audit,           \* TaskStore.audit: the audit records, oldest first
    events,          \* what TaskStore.events has broadcast, oldest first
    call,            \* where each request handler is between two steps
    dropped          \* the handlers that were dropped half-way (what they owed)

vars == <<inner, by_idempotency, audit, events, call, dropped>>

-----------------------------------------------------------------------------
(* Data.                                                                   *)

TaskState == {"Draft", "PendingApproval", "Queued", "Running",
              "Succeeded", "Failed", "Cancelled"}

Terminal == {"Succeeded", "Failed", "Cancelled"}

\* TaskState::can_transition_to.
can_transition_to ==
    { <<"Draft", "PendingApproval">>,     <<"Draft", "Queued">>,
      <<"PendingApproval", "Queued">>,    <<"PendingApproval", "Cancelled">>,
      <<"Queued", "Running">>,            <<"Queued", "Cancelled">>,
      <<"Running", "Succeeded">>,         <<"Running", "Failed">>,
      <<"Running", "Cancelled">> }

\* A Task, reduced to what the store looks at.  kind is operation.is_write().
Task == [state    : TaskState \cup {"Absent"},
         key      : Keys \cup {NoKey},
         kind     : {"read", "write"},
         approval : {"None", "Some"},
         receipt  : {"None", "Executed", "Reason"}]

Absent == [state |-> "Absent", key |-> NoKey, kind |-> "read",
           approval |-> "None", receipt |-> "None"]

\* An audit record names its target and the action; the event is the clone
\* of the task made under the lock, reduced to its id and state.
Action      == {"task.created", "task.approved", "task.cancelled"}
AuditEvent  == [target : Tasks, action : Action]
TaskEvent   == [task : Tasks, state : TaskState]

\* A handler is idle (not in flight), owes the audit record and the event of
\* the change it made, owes the event only, or sleeps inside execute_mock_task.
Call == [at     : {"idle", "audit", "send", "executing"},
         task   : Tasks \cup {NoTask},
         action : Action \cup {"None"},
         state  : TaskState \cup {"Absent"}]

Idle == [at |-> "idle", task |-> NoTask, action |-> "None", state |-> "Absent"]

Owes(t, action, state) ==
    [at |-> "audit", task |-> t, action |-> action, state |-> state]

Executing(t) ==
    [at |-> "executing", task |-> t, action |-> "None", state |-> "Running"]

-----------------------------------------------------------------------------
(* Helpers.                                                                *)

\* Mutant: a running task counts as finished.
is_terminal_Running(state) == state \in Terminal \cup {"Running"}

is_terminal(state) == state \in Terminal

\* The task of id t exists and is not terminal: create_dry_run answers with it.
Existing(t) == inner[t].state # "Absent" /\ ~ is_terminal(inner[t].state)

\* transition(): the check of the state table.  An Absent id has no row in the
\* table, so this is also the "task not found" check.
MayBecome(t, next) == <<inner[t].state, next>> \in can_transition_to

Broadcast(t, state) == events' = Append(events, [task |-> t, state |-> state])

-----------------------------------------------------------------------------
\* Mutant: create_dry_run queues a write at once.
create_dry_run_Queued(c, t, k, kind) ==
    /\ call[c].at = "idle"
    /\ inner[t].state = "Absent"
    /\ by_idempotency[k] # NoTask => ~ Existing(by_idempotency[k])
    /\ inner' = [inner EXCEPT ![t] =
                    [state |-> "Queued", key |-> k, kind |-> kind,
                     approval |-> "None", receipt |-> "None"]]
    /\ call' = [call EXCEPT ![c] = Owes(t, "task.created", "Queued")]
    /\ by_idempotency' = [by_idempotency EXCEPT ![k] = t]
    /\ UNCHANGED <<audit, events, dropped>>

(* TaskStore::create_dry_run, called by POST /tasks/dry-run.  Both locks   *)
(* are held over the lookup and the insertion.  The early return is taken  *)
(* when the index names a live task; a terminal one is replaced.           *)

create_dry_run(c, t, k, kind) ==
    /\ call[c].at = "idle"
    /\ inner[t].state = "Absent"
    /\ by_idempotency[k] # NoTask => ~ Existing(by_idempotency[k])
    /\ LET state == IF kind = "write" THEN "PendingApproval" ELSE "Queued"
       IN  /\ inner' = [inner EXCEPT ![t] =
                           [state |-> state, key |-> k, kind |-> kind,
                            approval |-> "None", receipt |-> "None"]]
           /\ call' = [call EXCEPT ![c] = Owes(t, "task.created", state)]
    /\ by_idempotency' = [by_idempotency EXCEPT ![k] = t]
    /\ UNCHANGED <<audit, events, dropped>>

\* TaskStore::approve: only a write needs approval.
approve(c, t) ==
    /\ call[c].at = "idle"
    /\ inner[t].kind = "write"
    /\ MayBecome(t, "Queued")
    /\ inner' = [inner EXCEPT ![t].state = "Queued", ![t].approval = "Some"]
    /\ call' = [call EXCEPT ![c] = Owes(t, "task.approved", "Queued")]
    /\ UNCHANGED <<by_idempotency, audit, events, dropped>>

\* Mutant: cancel skips the transition check.
cancel_AnyState(c, t) ==
    /\ call[c].at = "idle"
    /\ inner[t].state # "Absent"
    /\ inner' = [inner EXCEPT ![t].state = "Cancelled"]
    /\ call' = [call EXCEPT ![c] = Owes(t, "task.cancelled", "Cancelled")]
    /\ UNCHANGED <<by_idempotency, audit, events, dropped>>

\* Mutant: cancel sends its event and forgets the audit record.
cancel_NoAudit(c, t) ==
    /\ call[c].at = "idle"
    /\ MayBecome(t, "Cancelled")
    /\ inner' = [inner EXCEPT ![t].state = "Cancelled"]
    /\ call' = [call EXCEPT ![c] =
                   [Owes(t, "task.cancelled", "Cancelled") EXCEPT !.at = "send"]]
    /\ UNCHANGED <<by_idempotency, audit, events, dropped>>

\* TaskStore::cancel.
cancel(c, t) ==
    /\ call[c].at = "idle"
    /\ MayBecome(t, "Cancelled")
    /\ inner' = [inner EXCEPT ![t].state = "Cancelled"]
    /\ call' = [call EXCEPT ![c] = Owes(t, "task.cancelled", "Cancelled")]
    /\ UNCHANGED <<by_idempotency, audit, events, dropped>>

\* The tail of create_dry_run, approve and cancel, after drop(inner): first
\* the audit record, under the lock of the audit log ...
write_audit(c) ==
    /\ call[c].at = "audit"
    /\ audit' = Append(audit, [target |-> call[c].task, action |-> call[c].action])
    /\ call' = [call EXCEPT ![c].at = "send"]
    /\ UNCHANGED <<inner, by_idempotency, events, dropped>>

\* ... then the event, with the clone taken when the lock was held.
send_event(c) ==
    /\ call[c].at = "send"
    /\ Broadcast(call[c].task, call[c].state)
    /\ call' = [call EXCEPT ![c] = Idle]
    /\ UNCHANGED <<inner, by_idempotency, audit, dropped>>

\* Mutant: a running task may be started again.
mark_running_Again(c, t) ==
    /\ call[c].at = "idle"
    /\ ~ (inner[t].kind = "write" /\ inner[t].approval = "None")
    /\ inner[t].state \in {"Queued", "Running"}
    /\ inner' = [inner EXCEPT ![t].state = "Running"]
    /\ Broadcast(t, "Running")
    /\ call' = [call EXCEPT ![c] = Executing(t)]
    /\ UNCHANGED <<by_idempotency, audit, dropped>>

\* Mutant: mark_running does not broadcast.
mark_running_Silent(c, t) ==
    /\ call[c].at = "idle"
    /\ ~ (inner[t].kind = "write" /\ inner[t].approval = "None")
    /\ MayBecome(t, "Running")
    /\ inner' = [inner EXCEPT ![t].state = "Running"]
    /\ call' = [call EXCEPT ![c] = Executing(t)]
    /\ UNCHANGED <<by_idempotency, audit, events, dropped>>

\* TaskStore::mark_running, the first half of execute_mock_task.  The event is
\* sent while the lock is held; the handler then sleeps for 150 ms.
mark_running(c, t) ==
    /\ call[c].at = "idle"
    /\ ~ (inner[t].kind = "write" /\ inner[t].approval = "None")
    /\ MayBecome(t, "Running")
    /\ inner' = [inner EXCEPT ![t].state = "Running"]
    /\ Broadcast(t, "Running")
    /\ call' = [call EXCEPT ![c] = Executing(t)]
    /\ UNCHANGED <<by_idempotency, audit, dropped>>

\* Mutant: the execute handler answers after the sleep without finishing.
mark_succeeded_Forgotten(c) ==
    /\ call[c].at = "executing"
    /\ call' = [call EXCEPT ![c] = Idle]
    /\ UNCHANGED <<inner, by_idempotency, audit, events, dropped>>

\* TaskStore::mark_succeeded, the second half of execute_mock_task.  The task
\* may have been cancelled meanwhile: the handler then answers 400.
mark_succeeded(c) ==
    LET t == call[c].task
    IN  /\ call[c].at = "executing"
        /\ call' = [call EXCEPT ![c] = Idle]
        /\ \/ /\ MayBecome(t, "Succeeded")
              /\ inner' = [inner EXCEPT ![t].state = "Succeeded",
                                        ![t].receipt = "Executed"]
              /\ Broadcast(t, "Succeeded")
           \/ /\ ~ MayBecome(t, "Succeeded")
              /\ UNCHANGED <<inner, events>>
        /\ UNCHANGED <<by_idempotency, audit, dropped>>

\* TaskStore::mark_failed.  It is public, but no handler calls it yet.
mark_failed(t) ==
    /\ MayBecome(t, "Failed")
    /\ inner' = [inner EXCEPT ![t].state = "Failed", ![t].receipt = "Reason"]
    /\ Broadcast(t, "Failed")
    /\ UNCHANGED <<by_idempotency, audit, call, dropped>>

\* The client of handler c disconnects and the server drops the future while
\* it waits for the audit lock or sleeps.  (There is no await between the
\* audit record and the event, so a handler at "send" is never dropped.)
drop_handler(c) ==
    /\ call[c].at \in {"audit", "executing"}
    /\ dropped' = dropped \cup {call[c]}
    /\ call' = [call EXCEPT ![c] = Idle]
    /\ UNCHANGED <<inner, by_idempotency, audit, events>>

-----------------------------------------------------------------------------

Init ==
    /\ inner = [t \in Tasks |-> Absent]
    /\ by_idempotency = [k \in Keys |-> NoTask]
    /\ audit = <<>>
    /\ events = <<>>
    /\ call = [c \in Calls |-> Idle]
    /\ dropped = {}

Next ==
    \/ \E c \in Calls, t \in Tasks, k \in Keys, kind \in {"read", "write"} :
           create_dry_run(c, t, k, kind)
    \/ \E c \in Calls, t \in Tasks : approve(c, t)
    \/ \E c \in Calls, t \in Tasks : cancel(c, t)
    \/ \E c \in Calls, t \in Tasks : mark_running(c, t)
    \/ \E c \in Calls : write_audit(c)
    \/ \E c \in Calls : send_event(c)
    \/ \E c \in Calls : mark_succeeded(c)
    \/ \E t \in Tasks : mark_failed(t)
    \/ \E c \in Calls : drop_handler(c)

\* The runtime polls every ready future, and locks and the sleep complete: a
\* handler that is not dropped finishes.  Nothing obliges a client to call.
Fairness ==
    \A c \in Calls : WF_vars(write_audit(c) \/ send_event(c) \/ mark_succeeded(c))

Spec == Init /\ [][Next]_vars

FairSpec == Spec /\ Fairness

-----------------------------------------------------------------------------
(* Properties.                                                             *)

\* The type invariant of the store and its handlers.
TypeOK ==
    /\ inner \in [Tasks -> Task]
    /\ by_idempotency \in [Keys -> Tasks \cup {NoTask}]
    /\ audit \in Seq(AuditEvent)
    /\ events \in Seq(TaskEvent)
    /\ call \in [Calls -> Call]
    /\ dropped \subseteq Call

\* A write that has left the approval queue was approved by an operator: no
\* interleaving of approve, cancel and execute lets a write be queued, run or
\* finish without an approval record.
NoWriteWithoutApproval ==
    \A t \in Tasks :
        (inner[t].kind = "write"
            /\ inner[t].state \in {"Queued", "Running", "Succeeded", "Failed"})
        => inner[t].approval = "Some"

Live(t) == inner[t].state \in TaskState \ Terminal

\* create_dry_run is idempotent: two tasks of one (tenant, idempotency key)
\* are never live together, however creations, cancellations and executions of
\* several handlers interleave.
OneLiveTaskPerKey ==
    \A t, u \in Tasks :
        (Live(t) /\ Live(u) /\ inner[t].key = inner[u].key) => t = u

\* Two execute handlers never work on the same task: the second mark_running
\* is refused, also when the first handler was overtaken by cancel.
OneExecutorPerTask ==
    \A c, d \in Calls :
        (call[c].at = "executing" /\ call[d].at = "executing"
            /\ call[c].task = call[d].task) => c = d

\* A receipt is the mark of a finished execution: a cancelled task never gets
\* one, although its handler is still asleep and calls mark_succeeded later.
ReceiptMeansFinished ==
    \A t \in Tasks :
        /\ inner[t].receipt = "Executed" <=> inner[t].state = "Succeeded"
        /\ inner[t].receipt = "Reason" <=> inner[t].state = "Failed"

\* A task that reached a terminal state keeps it, with its approval and its
\* receipt, for ever: a late mark_succeeded, approve or cancel changes nothing.
TerminalIsFinal ==
    [][\A t \in Tasks : inner[t].state \in Terminal => inner'[t] = inner[t]]_vars

\* What happened to a task under the lock is in the audit log once it is no
\* longer owed by a handler, unless that handler was dropped; and the log never
\* records an action twice, or one that did not happen.
Recorded(t, action) ==
    \E i \in 1..Len(audit) : audit[i] = [target |-> t, action |-> action]

OwedBy(t, action) ==
    {c \in Calls : call[c].at = "audit" /\ call[c].task = t /\ call[c].action = action}

Happened(t, action) ==
    CASE action = "task.created"   -> inner[t].state # "Absent"
      [] action = "task.approved"  -> inner[t].approval = "Some"
      [] action = "task.cancelled" -> inner[t].state = "Cancelled"

AuditAccountsForChanges ==
    /\ \A t \in Tasks, action \in Action :
          Happened(t, action) <=>
              \/ Recorded(t, action)
              \/ OwedBy(t, action) # {}
              \/ \E d \in dropped : d.at = "audit" /\ d.task = t /\ d.action = action
    /\ \A i, j \in 1..Len(audit) : audit[i] = audit[j] => i = j

\* The state a task is in has been broadcast, or will be by a handler that is
\* still in flight, or was lost with a dropped handler.  A console that fetches
\* the list again on every event therefore ends with the current state, even
\* though events of two handlers may be sent in the wrong order.
CurrentStateAnnounced ==
    \A t \in Tasks :
        inner[t].state # "Absent" =>
            \/ \E i \in 1..Len(events) :
                  events[i] = [task |-> t, state |-> inner[t].state]
            \/ \E c \in Calls : /\ call[c].at \in {"audit", "send"}
                                /\ call[c].task = t
                                /\ call[c].state = inner[t].state
            \/ \E d \in dropped : d.at = "audit" /\ d.task = t

\* A running task ends, and so frees its idempotency key, unless its execute
\* handler was dropped during the sleep: then nothing but cancel ends it.
RunningEnds ==
    \A t \in Tasks :
        inner[t].state = "Running" ~>
            \/ inner[t].state \in Terminal
            \/ \E d \in dropped : d.at = "executing" /\ d.task = t
=============================================================================
