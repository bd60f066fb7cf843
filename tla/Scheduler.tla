------------------------------ MODULE Scheduler ------------------------------
(***************************************************************************)
(* The e-commerce read schedule of the local node: one shared record       *)
(* behind a read-write lock, the operator's calls that switch it on and    *)
(* off, and the background workers that poll Ozon while it is on.  Every   *)
(* acquisition of the lock is an await: other calls and workers run        *)
(* between two of them, and a call whose client disconnects is dropped     *)
(* there.  The product page a read returns is data and is left out; a read *)
(* succeeds or fails (lease, credentials or connector).                    *)
(***************************************************************************)
EXTENDS Naturals, Sequences, FiniteSets, SequencesExt

CONSTANTS
    Calls,      \* the operator's HTTP requests; each is made at most once
    Settings,   \* (interval_secs, limit) pairs an operator may ask for
    DefaultSetting, \* the configured defaults, in force at the start
    AuditKeep,  \* 100 in the code: entries a successful read keeps
    MaxAudit,   \* bound: no failure is recorded on a longer audit
    None        \* no worker handle

ASSUME SchedulerAssumption ==
    /\ AuditKeep \in Nat \ {0}
    /\ MaxAudit \in Nat
    /\ None \notin Calls
    /\ DefaultSetting \in Settings

VARIABLES
    schedule,   \* the EcommerceReadSchedule record
    task,       \* task[c]: the worker spawned by the enabling call c
    call,       \* call[c]: what request c asked for and how far it is
    mishap      \* history: which unlucky schedules have happened so far

vars == <<schedule, task, call, mishap>>

AuditActions == {"enabled", "disabled", "succeeded", "failed"}
Kinds == {"enable", "disable", "run_now"}
Mishaps == {"overlap", "crossed", "lost_switch", "lost_handle"}

\* A call's place: its first read, the three lock acquisitions of
\* start_ecommerce_schedule (stop, switch, handle), the two of
\* stop_ecommerce_schedule (stop, switch).
Places == {"idle", "read", "stop", "switch", "handle", "done"}

Schedule == [enabled : BOOLEAN, setting : Settings, worker : Calls \cup {None},
             last_error : BOOLEAN, audit : Seq(AuditActions)]

TypeOK ==
    /\ schedule \in Schedule
    /\ task \in [Calls -> {"none", "tick", "read", "aborted", "ended"}]
    /\ call \in [Calls -> [kind : Kinds, setting : Settings, at : Places]]
    /\ mishap \subseteq Mishaps

\* A worker that nobody aborted.  An aborted one that was in the middle of a poll
\* goes on to its next await.
Live(c) == task[c] \in {"tick", "read"}

\* The call is past its abort and has not yet written the flag, or is past
\* the flag and has not yet stored its worker's handle.
Switching(c) == call[c].at \in {"switch", "handle"}

Init ==
    /\ schedule = [enabled |-> FALSE, setting |-> DefaultSetting, worker |-> None,
                   last_error |-> FALSE, audit |-> <<>>]
    /\ call = [c \in Calls |->
                 [kind |-> "run_now", setting |-> DefaultSetting, at |-> "idle"]]
    /\ task = [c \in Calls |-> "none"]
    /\ mishap = {}

At(c, place) == call[c].at = place
Goto(c, place) == call' = [call EXCEPT ![c].at = place]
Push(s, action) == [s EXCEPT !.audit = Append(@, action)]
FailRead(s) == Push([s EXCEPT !.last_error = TRUE], "failed")

\* Mutant: a success leaves the previous error on display.
LandRead_ErrorKept(s) ==
    LET pushed == Append(s.audit, "succeeded")
        keep_from == IF Len(pushed) > AuditKeep THEN Len(pushed) - AuditKeep ELSE 0
    IN  [s EXCEPT !.audit = SubSeq(pushed, keep_from + 1, Len(pushed))]

\* The success path of execute_ecommerce_read_once: clear the error, log,
\* and drop all but the newest entries.
LandRead(s) ==
    LET pushed == Append(s.audit, "succeeded")
        keep_from == IF Len(pushed) > AuditKeep THEN Len(pushed) - AuditKeep ELSE 0
    IN  [s EXCEPT !.last_error = FALSE,
                  !.audit = SubSeq(pushed, keep_from + 1, Len(pushed))]

-----------------------------------------------------------------------------
(* The operator's calls *)

\* configure_ecommerce_schedule with enabled = true starts with a read of
\* its own; run_ecommerce_schedule_now reads once with the limit in force.
configure_enable(c, s) ==
    /\ At(c, "idle")
    /\ call' = [call EXCEPT ![c] = [kind |-> "enable", setting |-> s, at |-> "read"]]
    /\ UNCHANGED <<schedule, task, mishap>>

configure_disable(c) ==
    /\ At(c, "idle")
    /\ call' = [call EXCEPT ![c].kind = "disable", ![c].at = "stop"]
    /\ UNCHANGED <<schedule, task, mishap>>

run_ecommerce_schedule_now(c) ==
    /\ At(c, "idle")
    /\ call' = [call EXCEPT ![c].kind = "run_now", ![c].at = "read"]
    /\ UNCHANGED <<schedule, task, mishap>>

call_read_ok(c) ==
    /\ At(c, "read")
    /\ schedule' = LandRead(schedule)
    /\ Goto(c, IF call[c].kind = "enable" THEN "stop" ELSE "done")
    /\ UNCHANGED <<task, mishap>>

\* The error goes back to the client; the schedule is not touched.
call_read_failed(c) ==
    /\ At(c, "read")
    /\ Goto(c, "done")
    /\ UNCHANGED <<schedule, task, mishap>>

\* Mutant: the handle is taken but its task is not aborted.
stop_existing_schedule_worker_Detached(c) ==
    /\ At(c, "stop")
    /\ schedule' = [schedule EXCEPT !.worker = None]
    /\ Goto(c, "switch")
    /\ UNCHANGED <<task, mishap>>

\* Take the handle, if any, and abort its task.  A worker that waits never runs
\* again; one that another thread is polling ends at its next await.
stop_existing_schedule_worker(c) ==
    /\ At(c, "stop")
    /\ schedule' = [schedule EXCEPT !.worker = None]
    /\ \E reached \in {"ended", "aborted"} :
         task' = [w \in Calls |-> IF w = schedule.worker /\ Live(w) THEN reached ELSE task[w]]
    /\ mishap' = mishap \cup
         {IF {call[c].kind, call[d].kind} = {"enable"} THEN "overlap" ELSE "crossed" :
             d \in {d \in Calls \ {c} : Switching(d)}}
    /\ Goto(c, "switch")

\* start_ecommerce_schedule: the flag and the settings under one lock, then
\* the spawn, which awaits nothing.
start_ecommerce_schedule(c) ==
    /\ At(c, "switch") /\ call[c].kind = "enable"
    /\ schedule' = Push([schedule EXCEPT !.enabled = TRUE,
                                         !.setting = call[c].setting,
                                         !.last_error = FALSE], "enabled")
    /\ task' = [task EXCEPT ![c] = "tick"]
    /\ Goto(c, "handle")
    /\ UNCHANGED mishap

\* Storing the handle drops an older one, which detaches its task.
store_handle(c) ==
    /\ At(c, "handle")
    /\ schedule' = [schedule EXCEPT !.worker = c]
    /\ Goto(c, "done")
    /\ UNCHANGED <<task, mishap>>

stop_ecommerce_schedule(c) ==
    /\ At(c, "switch") /\ call[c].kind = "disable"
    /\ schedule' = Push([schedule EXCEPT !.enabled = FALSE], "disabled")
    /\ Goto(c, "done")
    /\ UNCHANGED <<task, mishap>>

\* The client disconnects and the server drops the handler where it waits.
drop_call(c) ==
    /\ call[c].at \in {"read", "stop", "switch", "handle"}
    /\ mishap' = mishap \cup
         (CASE At(c, "switch") -> {"lost_switch"}
            [] At(c, "handle") -> {"lost_handle"}
            [] OTHER -> {})
    /\ Goto(c, "done")
    /\ UNCHANGED <<schedule, task>>

-----------------------------------------------------------------------------
(* The background worker spawned by the enabling call w *)

\* Mutant: the loop does not look at the flag and relies on the abort.
worker_tick_Unchecked(w) ==
    /\ task[w] = "tick"
    /\ task' = [task EXCEPT ![w] = "read"]
    /\ UNCHANGED <<schedule, call, mishap>>

worker_tick(w) ==
    /\ task[w] = "tick"
    /\ task' = [task EXCEPT ![w] = IF schedule.enabled THEN "read" ELSE "ended"]
    /\ UNCHANGED <<schedule, call, mishap>>

worker_read_ok(w) ==
    /\ task[w] = "read"
    /\ schedule' = LandRead(schedule)
    /\ task' = [task EXCEPT ![w] = "tick"]
    /\ UNCHANGED <<call, mishap>>

\* Mutant: an error ends the loop instead of being recorded and retried.
worker_read_failed_Quits(w) ==
    /\ task[w] = "read"
    /\ task' = [task EXCEPT ![w] = "ended"]
    /\ UNCHANGED <<schedule, call, mishap>>

worker_read_failed(w) ==
    /\ task[w] = "read"
    /\ Len(schedule.audit) < MaxAudit
    /\ schedule' = FailRead(schedule)
    /\ task' = [task EXCEPT ![w] = "tick"]
    /\ UNCHANGED <<call, mishap>>

\* The poll that the abort met runs to its next await: it takes the lock for what
\* its read brought, if it gets that far and the lock is free, and ends.  It does
\* not get to a second read, which waits for the ticker or for the network.
worker_last_poll(w) ==
    /\ task[w] = "aborted"
    /\ task' = [task EXCEPT ![w] = "ended"]
    /\ \/ UNCHANGED schedule
       \/ schedule' = LandRead(schedule)
       \/ Len(schedule.audit) < MaxAudit /\ schedule' = FailRead(schedule)
    /\ UNCHANGED <<call, mishap>>

CallStep(c) ==
    \/ call_read_ok(c) \/ call_read_failed(c)
    \/ stop_existing_schedule_worker(c)
    \/ start_ecommerce_schedule(c) \/ store_handle(c)
    \/ stop_ecommerce_schedule(c)

WorkerStep(w) ==
    \/ worker_tick(w) \/ worker_read_ok(w) \/ worker_read_failed(w)
    \/ worker_last_poll(w)

Next ==
    \E c \in Calls :
        \/ \E s \in Settings : configure_enable(c, s)
        \/ configure_disable(c)
        \/ run_ecommerce_schedule_now(c)
        \/ CallStep(c)
        \/ drop_call(c)
        \/ WorkerStep(c)

Spec == Init /\ [][Next]_vars

\* The runtime polls every task that can run: the lock is granted in order
\* of arrival, the interval ticks, and the connector's requests time out.
\* Nothing obliges an operator to call or a client to disconnect.
Fairness == \A c \in Calls : WF_vars(CallStep(c)) /\ WF_vars(WorkerStep(c))
FairSpec == Spec /\ Fairness

-----------------------------------------------------------------------------
(* Properties *)

\* An enabled schedule is being polled: some worker is alive, or a call that
\* aborted the worker has still to write the flag; a worker that is aborted but
\* finishes its poll does not count.  The one exception is a
\* call dropped between its abort (stop_existing_schedule_worker) and its
\* write of the flag, which leaves the schedule enabled and nobody polling.
EnabledHasWorker ==
    schedule.enabled /\ "lost_switch" \notin mishap =>
        \/ \E w \in Calls : Live(w)
        \/ \E c \in Calls : At(c, "switch")

\* As long as no two enables overlapped and none was dropped before it stored
\* its handle, the stored handle owns the only live worker, and that worker
\* polls with the settings the schedule shows; others are aborted.
OneWorkerPerSchedule ==
    mishap \cap {"overlap", "lost_handle"} = {} =>
        \A w \in Calls : Live(w) =>
            /\ w = schedule.worker \/ At(w, "handle")
            /\ call[w].setting = schedule.setting

\* The audit log explains the record it sits in: the last switch it still
\* holds is the flag, and an error shown is the last outcome it still holds.
AuditExplainsState ==
    LET latest(S) == SelectLastInSeq(schedule.audit, LAMBDA a : a \in S)
        switch == latest({"enabled", "disabled"})
        outcome == latest({"enabled", "succeeded", "failed"})
    IN  /\ switch # 0 => (schedule.audit[switch] = "enabled") = schedule.enabled
        /\ outcome # 0 => (schedule.audit[outcome] = "failed") = schedule.last_error

\* When the calls that switch the schedule neither overlap nor get dropped, a
\* disabled schedule has no worker left to poll it: every worker that was ever
\* spawned, with its handle stored and taken by several calls since, has ended or
\* was aborted.  What may still land on a disabled schedule is the one poll that
\* an abort met half-way.
DisabledHasNoWorker ==
    ~ schedule.enabled /\ mishap = {} => \A w \in Calls : ~ Live(w)

\* A schedule that is disabled for good loses every worker, the ones whose handles
\* were overwritten or never stored and the ones aborted half-way included.
DisabledDrains ==
    <>[](~schedule.enabled) => <>[](\A w \in Calls : task[w] \in {"none", "ended"})

\* A schedule that stays enabled is read again and again.
EnabledKeepsPolling ==
    <>[](schedule.enabled /\ "lost_switch" \notin mishap) =>
        []<>(\E w \in Calls : task[w] = "read")

=============================================================================
