--------------------------- MODULE SchedulerProofs ---------------------------
(***************************************************************************)
(* Proofs about Scheduler, for every number of operator calls and workers. *)
(*                                                                         *)
(* The inductive invariant says who may hold what: a live worker belongs   *)
(* to a call that is past its spawn (WorkersFollowCalls); while no two     *)
(* enables overlapped, the one in progress finds no stored handle          *)
(* (OneEnableAtATime); and while nothing unlucky happened at all, a call   *)
(* about to write the flag has no live worker to fear (QuietSwitch).  The  *)
(* audit has an invariant of its own, AuditAgrees, which speaks of every   *)
(* entry instead of the latest one.                                        *)
(***************************************************************************)
EXTENDS Scheduler, WellFoundedInduction, TLAPS

Calm == mishap = {}
Tidy == mishap \cap {"overlap", "lost_handle"} = {}
Enabling(c) == Switching(c) /\ call[c].kind = "enable"

WorkersFollowCalls ==
    /\ \A w \in Calls : Live(w) => call[w].at \in {"handle", "done"}
    /\ \A c \in Calls : At(c, "handle") => call[c].kind = "enable"

OneEnableAtATime ==
    Tidy => \A c \in Calls : Enabling(c) =>
        /\ schedule.worker = None
        /\ \A d \in Calls \ {c} : ~Enabling(d)

QuietSwitch ==
    Calm => \A c \in Calls : Switching(c) =>
        /\ \A d \in Calls \ {c} : ~Switching(d)
        /\ At(c, "switch") => \A w \in Calls : ~Live(w)

IInv ==
    /\ TypeOK
    /\ WorkersFollowCalls
    /\ OneEnableAtATime
    /\ QuietSwitch
    /\ DisabledHasNoWorker
    /\ EnabledHasWorker
    /\ OneWorkerPerSchedule

-----------------------------------------------------------------------------
\* Trimming after a success keeps a well-typed audit, and touches nothing
\* else but the error.
LEMMA LandReadKeeps ==
    ASSUME schedule \in Schedule
    PROVE  /\ LandRead(schedule) \in Schedule
           /\ LandRead(schedule).enabled = schedule.enabled
           /\ LandRead(schedule).setting = schedule.setting
           /\ LandRead(schedule).worker = schedule.worker
<1> DEFINE pushed == Append(schedule.audit, "succeeded")
           keep_from == IF Len(pushed) > AuditKeep THEN Len(pushed) - AuditKeep ELSE 0
           trimmed == SubSeq(pushed, keep_from + 1, Len(pushed))
<1>1. schedule.audit \in Seq(AuditActions)
  BY DEF Schedule
<1>2. pushed \in Seq(AuditActions)
  BY <1>1 DEF AuditActions
<1>3. keep_from \in Nat /\ keep_from <= Len(pushed)
  BY <1>2, SchedulerAssumption
<1>4. trimmed \in Seq(AuditActions)
  <2> HIDE DEF pushed, keep_from
  <2> QED BY <1>2, <1>3
<1>5. LandRead(schedule) = [schedule EXCEPT !.last_error = FALSE, !.audit = trimmed]
  BY DEF LandRead
<1> HIDE DEF trimmed
<1> QED BY <1>4, <1>5 DEF Schedule

\* Logging one more action keeps a well-typed audit, and touches nothing
\* else.
LEMMA PushKeeps ==
    ASSUME NEW s \in Schedule, NEW a \in AuditActions
    PROVE  /\ Push(s, a) \in Schedule
           /\ Push(s, a).enabled = s.enabled
           /\ Push(s, a).setting = s.setting
           /\ Push(s, a).worker = s.worker
<1>1. Append(s.audit, a) \in Seq(AuditActions)
  BY DEF Schedule
<1> QED BY <1>1 DEF Push, Schedule

\* The initial state: nothing runs.
LEMMA InitHolds == Init => IInv
<1> SUFFICES ASSUME Init PROVE IInv
  OBVIOUS
<1>1. TypeOK
  BY SchedulerAssumption DEF Init, TypeOK, Schedule, Kinds, Places, Mishaps, AuditActions
<1> QED
  BY <1>1 DEF Init, IInv, WorkersFollowCalls, OneEnableAtATime, QuietSwitch,
     DisabledHasNoWorker, EnabledHasWorker, OneWorkerPerSchedule, Live, At,
     Switching, Enabling

-----------------------------------------------------------------------------
\* Every step keeps the invariant, one case per action.
LEMMA StepKeeps == IInv /\ [Next]_vars => IInv'
<1> SUFFICES ASSUME IInv, [Next]_vars PROVE IInv'
  OBVIOUS
<1> USE SchedulerAssumption
<1> USE DEF IInv, WorkersFollowCalls, OneEnableAtATime, QuietSwitch,
        DisabledHasNoWorker, EnabledHasWorker, OneWorkerPerSchedule,
        Live, At, Goto, Switching, Enabling, Calm, Tidy
<1>1. ASSUME NEW c \in Calls, NEW s \in Settings, configure_enable(c, s) PROVE IInv'
  <2>1. TypeOK' BY <1>1 DEF configure_enable, TypeOK, Kinds, Places
  <2> QED BY <1>1, <2>1 DEF configure_enable, TypeOK
<1>2. ASSUME NEW c \in Calls, configure_disable(c) PROVE IInv'
  <2>1. TypeOK' BY <1>2 DEF configure_disable, TypeOK, Kinds, Places
  <2> QED BY <1>2, <2>1 DEF configure_disable, TypeOK
<1>3. ASSUME NEW c \in Calls, run_ecommerce_schedule_now(c) PROVE IInv'
  <2>1. TypeOK' BY <1>3 DEF run_ecommerce_schedule_now, TypeOK, Schedule, Kinds, Places
  <2> QED BY <1>3, <2>1 DEF run_ecommerce_schedule_now, TypeOK
<1>4. ASSUME NEW c \in Calls, call_read_ok(c) PROVE IInv'
  <2>1. TypeOK' BY <1>4, LandReadKeeps DEF call_read_ok, TypeOK, Kinds, Places
  <2> QED BY <1>4, <2>1, LandReadKeeps DEF call_read_ok, TypeOK
<1>5. ASSUME NEW c \in Calls, call_read_failed(c) PROVE IInv'
  <2>1. TypeOK' BY <1>5 DEF call_read_failed, TypeOK, Kinds, Places
  <2> QED BY <1>5, <2>1 DEF call_read_failed, TypeOK
<1>6. ASSUME NEW c \in Calls, stop_existing_schedule_worker(c) PROVE IInv'
  <2>1. /\ schedule' \in Schedule /\ schedule'.enabled = schedule.enabled
        /\ schedule'.setting = schedule.setting /\ schedule'.worker = None
    BY <1>6 DEF stop_existing_schedule_worker, TypeOK, Schedule
  <2>2. TypeOK'
    <3>1. task' \in [Calls -> {"none", "tick", "read", "aborted", "ended"}]
      BY <1>6 DEF stop_existing_schedule_worker, TypeOK
    <3>2. mishap' \subseteq Mishaps
      BY <1>6 DEF stop_existing_schedule_worker, TypeOK, Mishaps
    <3>3. call' \in [Calls -> [kind : Kinds, setting : Settings, at : Places]]
      BY <1>6 DEF stop_existing_schedule_worker, TypeOK, Places
    <3> QED BY <2>1, <3>1, <3>2, <3>3 DEF TypeOK
  <2>a. ASSUME NEW d \in Calls \ {c}, Switching(d)
        PROVE  /\ mishap' # {}
               /\ {call[c].kind, call[d].kind} = {"enable"} => "overlap" \in mishap'
    <3> DEFINE K(e) == IF {call[c].kind, call[e].kind} = {"enable"}
                         THEN "overlap" ELSE "crossed"
               S == {e \in Calls \ {c} : Switching(e)}
    <3>1. mishap' = mishap \cup {K(e) : e \in S}
      BY <1>6 DEF stop_existing_schedule_worker
    <3>2. d \in S BY <2>a
    <3> HIDE DEF S
    <3>3. K(d) \in mishap'
      <4> HIDE DEF K
      <4> QED BY <3>1, <3>2
    <3> QED BY <3>3
  <2>b. mishap \subseteq mishap'
    BY <1>6 DEF stop_existing_schedule_worker
  <2>c. /\ Calm' => Calm /\ \A d \in Calls \ {c} : ~Switching(d)
        /\ Tidy' => /\ Tidy
                    /\ \A d \in Calls \ {c} : ~(call[c].kind = "enable" /\ Enabling(d))
    BY <2>a, <2>b
  <2>d. /\ call' = [call EXCEPT ![c].at = "switch"]
        /\ \A w \in Calls : task'[w] = task[w] \/ (w = schedule.worker /\ Live(w) /\ ~ Live(w)')
        /\ \A w \in Calls : w = schedule.worker => ~ Live(w)'
    BY <1>6 DEF stop_existing_schedule_worker
  <2>3. WorkersFollowCalls' BY <1>6, <2>1, <2>2 DEF stop_existing_schedule_worker, TypeOK
  <2>4. OneEnableAtATime' BY <2>1, <2>2, <2>c, <2>d DEF TypeOK
  <2>5. QuietSwitch'
    <3> SUFFICES ASSUME Calm' PROVE \A e \in Calls : Switching(e)' =>
                   /\ \A d \in Calls \ {e} : ~Switching(d)'
                   /\ At(e, "switch")' => \A w \in Calls : ~Live(w)'
      OBVIOUS
    <3>1. Calm /\ Tidy /\ \A d \in Calls \ {c} : ~Switching(d)
      BY <2>c
    <3>2. \A d \in Calls \ {c} : ~Switching(d)'
      BY <3>1, <2>d DEF TypeOK
    <3>3. \A w \in Calls : Live(w) => w = schedule.worker
      BY <1>6, <3>1 DEF stop_existing_schedule_worker
    <3>4. \A w \in Calls : ~Live(w)'
      BY <3>3, <2>d DEF TypeOK
    <3> QED BY <3>2, <3>4
  <2>6. DisabledHasNoWorker' BY <1>6, <2>1, <2>2 DEF stop_existing_schedule_worker, TypeOK
  <2>7. EnabledHasWorker' BY <1>6, <2>1, <2>2 DEF stop_existing_schedule_worker, TypeOK
  <2>8. OneWorkerPerSchedule' BY <1>6, <2>1, <2>2 DEF stop_existing_schedule_worker, TypeOK
  <2> QED BY <2>2, <2>3, <2>4, <2>5, <2>6, <2>7, <2>8
<1>7. ASSUME NEW c \in Calls, start_ecommerce_schedule(c) PROVE IInv'
  <2> DEFINE s == [schedule EXCEPT !.enabled = TRUE, !.setting = call[c].setting,
                                   !.last_error = FALSE]
  <2>1. /\ s \in Schedule /\ s.enabled = TRUE
        /\ s.setting = call[c].setting /\ s.worker = schedule.worker
    BY DEF TypeOK, Schedule
  <2>2. schedule' = Push(s, "enabled")
    BY <1>7 DEF start_ecommerce_schedule
  <2> HIDE DEF s
  <2>3. /\ schedule' \in Schedule /\ schedule'.enabled = TRUE
        /\ schedule'.setting = call[c].setting /\ schedule'.worker = schedule.worker
    BY <2>1, <2>2, PushKeeps DEF AuditActions
  <2>4. TypeOK' BY <1>7, <2>3 DEF start_ecommerce_schedule, TypeOK, Kinds, Places
  <2> QED BY <1>7, <2>3, <2>4 DEF start_ecommerce_schedule, TypeOK
<1>8. ASSUME NEW c \in Calls, store_handle(c) PROVE IInv'
  <2>1. /\ schedule' \in Schedule /\ schedule'.enabled = schedule.enabled
        /\ schedule'.setting = schedule.setting /\ schedule'.worker = c
    BY <1>8 DEF store_handle, TypeOK, Schedule
  <2>2. TypeOK' BY <1>8, <2>1 DEF store_handle, TypeOK, Kinds, Places
  <2> QED BY <1>8, <2>1, <2>2 DEF store_handle, TypeOK
<1>9. ASSUME NEW c \in Calls, stop_ecommerce_schedule(c) PROVE IInv'
  <2> DEFINE s == [schedule EXCEPT !.enabled = FALSE]
  <2>1. /\ s \in Schedule /\ s.enabled = FALSE
        /\ s.setting = schedule.setting /\ s.worker = schedule.worker
    BY DEF TypeOK, Schedule
  <2>2. schedule' = Push(s, "disabled")
    BY <1>9 DEF stop_ecommerce_schedule
  <2> HIDE DEF s
  <2>3. /\ schedule' \in Schedule /\ schedule'.enabled = FALSE
        /\ schedule'.setting = schedule.setting /\ schedule'.worker = schedule.worker
    BY <2>1, <2>2, PushKeeps DEF AuditActions
  <2>4. TypeOK' BY <1>9, <2>3 DEF stop_ecommerce_schedule, TypeOK, Kinds, Places
  <2>5. WorkersFollowCalls' BY <1>9, <2>3, <2>4 DEF stop_ecommerce_schedule, TypeOK
  <2>6. OneEnableAtATime' BY <1>9, <2>3, <2>4 DEF stop_ecommerce_schedule, TypeOK
  <2>7. QuietSwitch' BY <1>9, <2>3, <2>4 DEF stop_ecommerce_schedule, TypeOK
  <2>8. DisabledHasNoWorker' BY <1>9, <2>3, <2>4 DEF stop_ecommerce_schedule, TypeOK
  <2>9. EnabledHasWorker' BY <1>9, <2>3, <2>4 DEF stop_ecommerce_schedule, TypeOK
  <2>10. OneWorkerPerSchedule' BY <1>9, <2>3, <2>4 DEF stop_ecommerce_schedule, TypeOK
  <2> QED BY <2>4, <2>5, <2>6, <2>7, <2>8, <2>9, <2>10
<1>10. ASSUME NEW c \in Calls, drop_call(c) PROVE IInv'
  <2>1. TypeOK' BY <1>10 DEF drop_call, TypeOK, Kinds, Places, Mishaps
  <2>2. CASE At(c, "switch")
    <3>1. mishap' = mishap \cup {"lost_switch"} BY <1>10, <2>2 DEF drop_call
    <3> QED BY <1>10, <2>1, <2>2, <3>1 DEF drop_call, TypeOK
  <2>3. CASE At(c, "handle")
    <3>1. mishap' = mishap \cup {"lost_handle"} BY <1>10, <2>3 DEF drop_call
    <3>2. ~Tidy' /\ ~Calm' BY <3>1
    <3>3. WorkersFollowCalls' BY <1>10, <2>1, <2>3 DEF drop_call, TypeOK
    <3>4. OneEnableAtATime' BY <3>2
    <3>5. QuietSwitch' BY <3>2
    <3>6. DisabledHasNoWorker' BY <1>10, <2>1, <2>3, <3>1 DEF drop_call, TypeOK
    <3>7. EnabledHasWorker' BY <1>10, <2>1, <2>3, <3>1 DEF drop_call, TypeOK
    <3>8. OneWorkerPerSchedule' BY <1>10, <2>1, <2>3, <3>1 DEF drop_call, TypeOK
    <3> QED BY <2>1, <3>3, <3>4, <3>5, <3>6, <3>7, <3>8
  <2>4. CASE ~At(c, "switch") /\ ~At(c, "handle")
    <3>1. mishap' = mishap BY <1>10, <2>4 DEF drop_call
    <3> QED BY <1>10, <2>1, <2>4, <3>1 DEF drop_call, TypeOK
  <2> QED BY <2>2, <2>3, <2>4
<1>11. ASSUME NEW w \in Calls, worker_tick(w) PROVE IInv'
  <2>1. TypeOK' BY <1>11 DEF worker_tick, TypeOK
  <2> QED BY <1>11, <2>1 DEF worker_tick, TypeOK
<1>12. ASSUME NEW w \in Calls, worker_read_ok(w) PROVE IInv'
  <2>1. TypeOK' BY <1>12, LandReadKeeps DEF worker_read_ok, TypeOK
  <2> QED BY <1>12, <2>1, LandReadKeeps DEF worker_read_ok, TypeOK
<1>13. ASSUME NEW w \in Calls, worker_read_failed(w) PROVE IInv'
  <2> DEFINE s == [schedule EXCEPT !.last_error = TRUE]
  <2>1. /\ s \in Schedule /\ s.enabled = schedule.enabled
        /\ s.setting = schedule.setting /\ s.worker = schedule.worker
    BY DEF TypeOK, Schedule
  <2>2. schedule' = Push(s, "failed")
    BY <1>13 DEF worker_read_failed, FailRead
  <2> HIDE DEF s
  <2>3. /\ schedule' \in Schedule /\ schedule'.enabled = schedule.enabled
        /\ schedule'.setting = schedule.setting /\ schedule'.worker = schedule.worker
    BY <2>1, <2>2, PushKeeps DEF AuditActions
  <2>4. TypeOK' BY <1>13, <2>3 DEF worker_read_failed, TypeOK
  <2>5. WorkersFollowCalls' BY <1>13, <2>3, <2>4 DEF worker_read_failed, TypeOK
  <2>6. OneEnableAtATime' BY <1>13, <2>3, <2>4 DEF worker_read_failed, TypeOK
  <2>7. QuietSwitch' BY <1>13, <2>3, <2>4 DEF worker_read_failed, TypeOK
  <2>8. DisabledHasNoWorker' BY <1>13, <2>3, <2>4 DEF worker_read_failed, TypeOK
  <2>9. EnabledHasWorker' BY <1>13, <2>3, <2>4 DEF worker_read_failed, TypeOK
  <2>10. OneWorkerPerSchedule' BY <1>13, <2>3, <2>4 DEF worker_read_failed, TypeOK
  <2> QED BY <2>4, <2>5, <2>6, <2>7, <2>8, <2>9, <2>10
<1>13a. ASSUME NEW w \in Calls, worker_last_poll(w) PROVE IInv'
  <2> DEFINE s == [schedule EXCEPT !.last_error = TRUE]
  <2>1. /\ s \in Schedule /\ s.enabled = schedule.enabled
        /\ s.setting = schedule.setting /\ s.worker = schedule.worker
    BY DEF TypeOK, Schedule
  <2>2. schedule' \in {schedule, LandRead(schedule), Push(s, "failed")}
    BY <1>13a DEF worker_last_poll, FailRead
  <2> HIDE DEF s
  <2>3. /\ schedule' \in Schedule /\ schedule'.enabled = schedule.enabled
        /\ schedule'.setting = schedule.setting /\ schedule'.worker = schedule.worker
    BY <2>1, <2>2, PushKeeps, LandReadKeeps DEF AuditActions, TypeOK
  <2>4. TypeOK' BY <1>13a, <2>3 DEF worker_last_poll, TypeOK
  <2>5. \A v \in Calls : Live(v)' <=> Live(v)
    BY <1>13a DEF worker_last_poll, TypeOK
  <2>6. UNCHANGED <<call, mishap>>
    BY <1>13a DEF worker_last_poll
  <2>7. /\ WorkersFollowCalls' /\ OneEnableAtATime'
    BY <2>3, <2>5, <2>6
  <2>8. QuietSwitch' /\ DisabledHasNoWorker'
    BY <2>3, <2>5, <2>6
  <2>9. EnabledHasWorker' /\ OneWorkerPerSchedule'
    BY <2>3, <2>5, <2>6
  <2> QED BY <2>4, <2>7, <2>8, <2>9
<1>14. CASE UNCHANGED vars
  BY <1>14 DEF vars, TypeOK
<1> QED
  BY <1>1, <1>2, <1>3, <1>4, <1>5, <1>6, <1>7, <1>8, <1>9, <1>10, <1>11,
     <1>12, <1>13, <1>13a, <1>14 DEF Next, CallStep, WorkerStep

-----------------------------------------------------------------------------
\* The inductive invariant holds in every reachable state.
THEOREM Invariance == Spec => []IInv
BY InitHolds, StepKeeps, PTL DEF Spec

\* Every variable keeps its type, whatever the number of calls.
THEOREM TypeCorrect == Spec => []TypeOK
<1>1. IInv => TypeOK BY DEF IInv
<1> QED BY Invariance, <1>1, PTL

\* An enabled schedule always has a live worker, unless a call was dropped
\* between its abort and its write of the flag.
THEOREM EnabledIsPolled == Spec => []EnabledHasWorker
<1>1. IInv => EnabledHasWorker BY DEF IInv
<1> QED BY Invariance, <1>1, PTL

\* One worker, running with the settings on display, unless two enables
\* overlapped or one was dropped before storing its handle.
THEOREM OneWorker == Spec => []OneWorkerPerSchedule
<1>1. IInv => OneWorkerPerSchedule BY DEF IInv
<1> QED BY Invariance, <1>1, PTL

\* A disabled schedule has no worker but the poll that an abort met half-way, while
\* the switching calls neither overlap nor get dropped.
THEOREM DisableAborts == Spec => []DisabledHasNoWorker
<1>1. IInv => DisabledHasNoWorker BY DEF IInv
<1> QED BY Invariance, <1>1, PTL

-----------------------------------------------------------------------------
(* The audit explains the record                                           *)

Switches == {"enabled", "disabled"}
Outcomes == {"enabled", "succeeded", "failed"}

\* Entry i is the latest of the log that belongs to S.
Latest(audit, S, i) ==
    /\ i \in 1..Len(audit) /\ audit[i] \in S
    /\ \A j \in 1..Len(audit) : i < j => audit[j] \notin S

\* If the log still holds an entry of S, the latest one is the word just when the flag
\* is set.
Agrees(audit, S, word, flag) ==
    \A i \in Nat : Latest(audit, S, i) => (audit[i] = word <=> flag)

Explains(s) ==
    /\ Agrees(s.audit, Switches, "enabled", s.enabled)
    /\ Agrees(s.audit, Outcomes, "failed", s.last_error)

AuditAgrees == TypeOK /\ Explains(schedule)

\* A bounded set of positions has a greatest one.
LEMMA GreatestIndex ==
    ASSUME NEW n \in Nat, NEW S \in SUBSET (1..n), S # {}
    PROVE  Max(S) \in S /\ \A j \in S : j <= Max(S)
<1> DEFINE Less == {ss \in Nat \X Nat : ss[1] < ss[2]}
           T == {n - i : i \in S}
<1>1. IsWellFoundedOn(Less, Nat)
  BY NatLessThanWellFounded, Zenon DEF OpToRel
<1>2. T \in SUBSET Nat /\ T # {}
  <2>1. \A i \in S : n - i \in Nat
    OBVIOUS
  <2> QED BY <2>1
<1>3. PICK t \in T : \A u \in T : ~ (<<u, t>> \in Less)
  <2> HIDE DEF Less, T
  <2> QED BY <1>1, <1>2, WFMin, Zenon
<1>4. \A u \in T : ~ (u < t)
  BY <1>2, <1>3
<1>5. PICK x \in S : t = n - x
  BY <1>3
<1>6. \A i \in S : n - i \in T
  OBVIOUS
<1>7. \A i \in S : i <= x
  <2> HIDE DEF T
  <2> QED BY <1>2, <1>4, <1>5, <1>6
<1>8. Max(S) = CHOOSE y \in S : \A z \in S : y >= z
  BY Zenon DEF Max
<1>9. \A i \in S : x >= i
  BY <1>7
<1>10. Max(S) \in S /\ \A i \in S : Max(S) >= i
  BY <1>8, <1>9, Zenon
<1> QED BY <1>10

\* A new entry of S is the latest of S.
LEMMA AgreesWithNewEntry ==
    ASSUME NEW audit \in Seq(AuditActions), NEW S, NEW a \in AuditActions, a \in S,
           NEW word, NEW flag, flag <=> (a = word)
    PROVE  Agrees(Append(audit, a), S, word, flag)
<1> DEFINE longer == Append(audit, a)
<1>1. Len(longer) = Len(audit) + 1 /\ longer[Len(audit) + 1] = a /\ Len(audit) \in Nat
  OBVIOUS
<1> HIDE DEF longer
<1>2. ASSUME NEW i \in Nat, Latest(longer, S, i) PROVE longer[i] = a
  BY <1>1, <1>2 DEF Latest
<1>3. Agrees(longer, S, word, flag)
  BY <1>2, Zenon DEF Agrees
<1> QED BY <1>3 DEF longer

\* An entry of another sort leaves the latest of S where it was.
LEMMA AgreesWithOldEntry ==
    ASSUME NEW audit \in Seq(AuditActions), NEW S, NEW a \in AuditActions, a \notin S,
           NEW word, NEW flag, Agrees(audit, S, word, flag)
    PROVE  Agrees(Append(audit, a), S, word, flag)
<1> DEFINE longer == Append(audit, a)
<1>1. /\ Len(longer) = Len(audit) + 1 /\ longer[Len(audit) + 1] = a /\ Len(audit) \in Nat
      /\ \A j \in 1..Len(audit) : longer[j] = audit[j]
  OBVIOUS
<1> HIDE DEF longer
<1>2. ASSUME NEW i \in Nat, Latest(longer, S, i)
      PROVE  Latest(audit, S, i) /\ longer[i] = audit[i]
  <2>1. i \in 1..Len(audit)
    BY <1>1, <1>2 DEF Latest
  <2> QED BY <1>1, <1>2, <2>1 DEF Latest
<1>3. Agrees(longer, S, word, flag)
  BY <1>2, Zenon DEF Agrees
<1> QED BY <1>3 DEF longer

\* Dropping the oldest entries leaves the latest of S where it was, if it is kept.
LEMMA AgreesAfterTrim ==
    ASSUME NEW audit \in Seq(AuditActions), NEW k \in Nat, k <= Len(audit), NEW S,
           NEW word, NEW flag, Agrees(audit, S, word, flag)
    PROVE  Agrees(SubSeq(audit, k + 1, Len(audit)), S, word, flag)
<1> DEFINE kept == SubSeq(audit, k + 1, Len(audit))
<1>1. /\ Len(kept) = Len(audit) - k /\ Len(audit) \in Nat
      /\ \A j \in 1..(Len(audit) - k) : kept[j] = audit[j + k]
  OBVIOUS
<1> HIDE DEF kept
<1>2. ASSUME NEW i \in Nat, Latest(kept, S, i)
      PROVE  Latest(audit, S, i + k) /\ i + k \in Nat /\ kept[i] = audit[i + k]
  <2>1. /\ i \in 1..Len(kept) /\ kept[i] \in S
        /\ \A j \in 1..Len(kept) : i < j => kept[j] \notin S
    BY <1>2 DEF Latest
  <2>2. kept[i] = audit[i + k] /\ i + k \in 1..Len(audit)
    BY <1>1, <2>1
  <2>3. ASSUME NEW j \in 1..Len(audit), i + k < j
        PROVE  audit[j] \notin S
    <3>1. j - k \in 1..(Len(audit) - k) /\ i < j - k /\ (j - k) + k = j
      BY <1>1, <2>1, <2>3
    <3>2. kept[j - k] = audit[j] /\ kept[j - k] \notin S
      BY <1>1, <2>1, <3>1
    <3> QED BY <3>2
  <2>4. Latest(audit, S, i + k)
    BY <2>1, <2>2, <2>3 DEF Latest
  <2>5. i + k \in Nat
    OBVIOUS
  <2> QED BY <2>2, <2>4, <2>5
<1>3. Agrees(kept, S, word, flag)
  <2> SUFFICES ASSUME NEW i \in Nat, Latest(kept, S, i) PROVE kept[i] = word <=> flag
    BY Zenon DEF Agrees
  <2>1. Latest(audit, S, i + k) /\ i + k \in Nat /\ kept[i] = audit[i + k]
    BY <1>2, Zenon
  <2>2. audit[i + k] = word <=> flag
    BY <2>1, Zenon DEF Agrees
  <2> QED BY <2>1, <2>2, Zenon
<1> QED BY <1>3 DEF kept

\* Logging an action after setting what it reports keeps the log true.
LEMMA PushExplains ==
    ASSUME NEW s \in Schedule, NEW t \in Schedule, NEW a \in AuditActions, Explains(s),
           t.audit = s.audit,
           IF a \in Switches THEN t.enabled = (a = "enabled") ELSE t.enabled = s.enabled,
           IF a \in Outcomes THEN t.last_error = (a = "failed") ELSE t.last_error = s.last_error
    PROVE  Explains(Push(t, a))
<1> DEFINE p == Push(t, a)
<1>1. /\ p.audit = Append(s.audit, a) /\ p.enabled = t.enabled /\ p.last_error = t.last_error
  BY DEF Push, Schedule
<1>2. s.audit \in Seq(AuditActions)
  BY DEF Schedule
<1> HIDE DEF p
<1>3. Agrees(Append(s.audit, a), Switches, "enabled", t.enabled)
  <2>1. CASE a \in Switches
    BY <1>2, <2>1, AgreesWithNewEntry, Zenon
  <2>2. CASE a \notin Switches
    BY <1>2, <2>2, AgreesWithOldEntry, Zenon DEF Explains
  <2> QED BY <2>1, <2>2
<1>4. Agrees(Append(s.audit, a), Outcomes, "failed", t.last_error)
  <2>1. CASE a \in Outcomes
    BY <1>2, <2>1, AgreesWithNewEntry, Zenon
  <2>2. CASE a \notin Outcomes
    BY <1>2, <2>2, AgreesWithOldEntry, Zenon DEF Explains
  <2> QED BY <2>1, <2>2
<1> QED BY <1>1, <1>3, <1>4, Zenon DEF Explains, p

\* A successful read logs itself, clears the error and drops old entries.
LEMMA LandReadExplains ==
    ASSUME schedule \in Schedule, Explains(schedule)
    PROVE  Explains(LandRead(schedule))
<1> DEFINE cleared == [schedule EXCEPT !.last_error = FALSE]
           s == Push(cleared, "succeeded")
           k == IF Len(s.audit) > AuditKeep THEN Len(s.audit) - AuditKeep ELSE 0
           r == LandRead(schedule)
<1>1. cleared \in Schedule
  BY DEF Schedule
<1>2. "succeeded" \in AuditActions /\ "succeeded" \notin Switches
  BY DEF AuditActions, Switches
<1>3. /\ cleared.audit = schedule.audit /\ cleared.enabled = schedule.enabled
      /\ cleared.last_error = FALSE
  BY DEF Schedule
<1>4. s \in Schedule
  <2> HIDE DEF cleared
  <2> QED BY <1>1, <1>2, PushKeeps
<1>5. Explains(s)
  <2> HIDE DEF cleared, s
  <2>1. "succeeded" \in Outcomes
    BY DEF Outcomes
  <2>2. cleared.last_error = ("succeeded" = "failed")
    BY <1>3
  <2>3. Explains(Push(cleared, "succeeded"))
    BY <1>1, <1>2, <1>3, <2>1, <2>2, PushExplains, Zenon
  <2> QED BY <2>3 DEF s
<1>6. s.audit = Append(schedule.audit, "succeeded")
  BY DEF Push, Schedule
<1>7. /\ r.audit = SubSeq(s.audit, k + 1, Len(s.audit))
      /\ r.enabled = s.enabled /\ r.last_error = s.last_error
  BY <1>6 DEF LandRead, Push, Schedule
<1>8. s.audit \in Seq(AuditActions)
  BY <1>4 DEF Schedule
<1> HIDE DEF s, r, cleared
<1>9. k \in Nat /\ k <= Len(s.audit)
  BY <1>8, SchedulerAssumption
<1> HIDE DEF k
<1>10. /\ Agrees(SubSeq(s.audit, k + 1, Len(s.audit)), Switches, "enabled", s.enabled)
       /\ Agrees(SubSeq(s.audit, k + 1, Len(s.audit)), Outcomes, "failed", s.last_error)
  BY <1>5, <1>8, <1>9, AgreesAfterTrim, Zenon DEF Explains
<1> QED BY <1>7, <1>10, Zenon DEF Explains, r

\* At the start the log is empty.
LEMMA AuditInit == Init => AuditAgrees
BY InitHolds DEF Init, AuditAgrees, IInv, Explains, Agrees, Latest

\* Every step that logs, and every step that changes the flag or the error.
LEMMA AuditStep == AuditAgrees /\ TypeOK' /\ [Next]_vars => AuditAgrees'
<1> SUFFICES ASSUME AuditAgrees, [Next]_vars PROVE Explains(schedule)'
  BY DEF AuditAgrees
<1> USE DEF AuditAgrees, TypeOK
<1>1. ASSUME NEW c \in Calls, call_read_ok(c) \/ worker_read_ok(c) PROVE Explains(schedule)'
  BY <1>1, LandReadExplains DEF call_read_ok, worker_read_ok
<1>2. ASSUME NEW c \in Calls, stop_existing_schedule_worker(c) \/ store_handle(c)
      PROVE  Explains(schedule)'
  <2>1. /\ schedule'.audit = schedule.audit /\ schedule'.enabled = schedule.enabled
        /\ schedule'.last_error = schedule.last_error
    BY <1>2 DEF stop_existing_schedule_worker, store_handle, Schedule
  <2> QED BY <2>1 DEF Explains
<1>3. ASSUME NEW c \in Calls, start_ecommerce_schedule(c) PROVE Explains(schedule)'
  <2> DEFINE t == [schedule EXCEPT !.enabled = TRUE, !.setting = call[c].setting,
                                   !.last_error = FALSE]
  <2>1. /\ t \in Schedule /\ t.audit = schedule.audit
        /\ t.enabled = TRUE /\ t.last_error = FALSE
    BY DEF Schedule
  <2>2. schedule' = Push(t, "enabled")
    BY <1>3 DEF start_ecommerce_schedule
  <2> HIDE DEF t
  <2> QED BY <2>1, <2>2, PushExplains DEF Switches, Outcomes, AuditActions
<1>4. ASSUME NEW c \in Calls, stop_ecommerce_schedule(c) PROVE Explains(schedule)'
  <2> DEFINE t == [schedule EXCEPT !.enabled = FALSE]
  <2>1. /\ t \in Schedule /\ t.audit = schedule.audit
        /\ t.enabled = FALSE /\ t.last_error = schedule.last_error
    BY DEF Schedule
  <2>2. schedule' = Push(t, "disabled")
    BY <1>4 DEF stop_ecommerce_schedule
  <2> HIDE DEF t
  <2> QED BY <2>1, <2>2, PushExplains DEF Switches, Outcomes, AuditActions
<1>5. ASSUME NEW w \in Calls, worker_read_failed(w) PROVE Explains(schedule)'
  <2> DEFINE t == [schedule EXCEPT !.last_error = TRUE]
  <2>1. /\ t \in Schedule /\ t.audit = schedule.audit
        /\ t.enabled = schedule.enabled /\ t.last_error = TRUE
    BY DEF Schedule
  <2>2. schedule' = Push(t, "failed")
    BY <1>5 DEF worker_read_failed, FailRead
  <2> HIDE DEF t
  <2> QED BY <2>1, <2>2, PushExplains DEF Switches, Outcomes, AuditActions
<1>6. ASSUME UNCHANGED schedule PROVE Explains(schedule)'
  BY <1>6 DEF Explains
<1>7. ASSUME NEW w \in Calls, worker_last_poll(w) PROVE Explains(schedule)'
  <2> DEFINE t == [schedule EXCEPT !.last_error = TRUE]
  <2>1. /\ t \in Schedule /\ t.audit = schedule.audit
        /\ t.enabled = schedule.enabled /\ t.last_error = TRUE
    BY DEF Schedule
  <2>2. schedule' \in {schedule, LandRead(schedule), Push(t, "failed")}
    BY <1>7 DEF worker_last_poll, FailRead
  <2> HIDE DEF t
  <2>3. Explains(Push(t, "failed"))
    BY <2>1, PushExplains DEF Switches, Outcomes, AuditActions
  <2> QED BY <2>2, <2>3, LandReadExplains
<1> QED
  BY <1>1, <1>2, <1>3, <1>4, <1>5, <1>6, <1>7
  DEF Next, vars, CallStep, WorkerStep, configure_enable, configure_disable,
      run_ecommerce_schedule_now, call_read_failed, drop_call, worker_tick

\* The search of AuditExplainsState.
LastOf(audit, S) == SelectLastInSeq(audit, LAMBDA a : a \in S)

\* What SelectLastInSeq finds is the latest entry of its sort.
LEMMA SelectedIsLatest ==
    ASSUME NEW audit \in Seq(AuditActions), NEW S
    PROVE  LastOf(audit, S) # 0 =>
             LastOf(audit, S) \in Nat /\ Latest(audit, S, LastOf(audit, S))
<1> DEFINE I == {i \in 1..Len(audit) : audit[i] \in S}
           last == LastOf(audit, S)
<1>1. last = IF I # {} THEN Max(I) ELSE 0
  BY DEF LastOf, SelectLastInSeq
<1> SUFFICES ASSUME last # 0 PROVE last \in Nat /\ Latest(audit, S, last)
  OBVIOUS
<1>2. I # {} /\ last = Max(I)
  BY <1>1
<1>3. I \in SUBSET (1..Len(audit)) /\ Len(audit) \in Nat
  OBVIOUS
<1>4. last \in I /\ \A j \in I : j <= last
  <2> HIDE DEF I, last
  <2> QED BY <1>2, <1>3, GreatestIndex
<1>5. last \in 1..Len(audit) /\ audit[last] \in S
  BY <1>4
<1>6. ASSUME NEW j \in 1..Len(audit), last < j PROVE audit[j] \notin S
  <2> HIDE DEF last
  <2> QED BY <1>4, <1>5, <1>6
<1> HIDE DEF last
<1> QED BY <1>5, <1>6 DEF Latest

\* The last switch the log still holds is the flag, and an error on display is the last
\* outcome it still holds, however many reads failed and however often the log was
\* trimmed.
THEOREM AuditIsTrue == Spec => []AuditExplainsState
<1>1. AuditAgrees => AuditExplainsState
  <2> SUFFICES ASSUME AuditAgrees PROVE AuditExplainsState
    OBVIOUS
  <2> DEFINE switch == LastOf(schedule.audit, Switches)
             outcome == LastOf(schedule.audit, Outcomes)
  <2>1. /\ schedule.audit \in Seq(AuditActions)
        /\ schedule.enabled \in BOOLEAN /\ schedule.last_error \in BOOLEAN
    BY DEF AuditAgrees, TypeOK, Schedule
  <2>2. switch # 0 => switch \in Nat /\ Latest(schedule.audit, Switches, switch)
    BY <2>1, SelectedIsLatest, Zenon
  <2>3. outcome # 0 => outcome \in Nat /\ Latest(schedule.audit, Outcomes, outcome)
    BY <2>1, SelectedIsLatest, Zenon
  <2>4. /\ switch # 0 => (schedule.audit[switch] = "enabled") = schedule.enabled
        /\ outcome # 0 => (schedule.audit[outcome] = "failed") = schedule.last_error
    <3> HIDE DEF switch, outcome
    <3> QED BY <2>1, <2>2, <2>3 DEF AuditAgrees, Explains, Agrees
  <2> QED BY <2>4, Zenon DEF AuditExplainsState, LastOf, Switches, Outcomes
<1>2. IInv => TypeOK
  BY DEF IInv
<1> QED BY <1>1, <1>2, InitHolds, StepKeeps, AuditInit, AuditStep, PTL DEF Spec
=============================================================================
