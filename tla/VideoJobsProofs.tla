--------------------------- MODULE VideoJobsProofs ---------------------------
(***************************************************************************)
(* Proofs about VideoJobs, for every number of jobs, every set of          *)
(* dialects and every attempt ceiling.                                     *)
(*                                                                         *)
(* The inductive invariant follows an answer from the provider to the job: *)
(* an answer is true of the provider's job when it is taken                *)
(* (AnswersAreTrue), finished provider jobs do not change, and a poller    *)
(* that goes on has seen nothing terminal (PollersGoOnForAReason).         *)
(***************************************************************************)
EXTENDS VideoJobs, TLAPS

\* A job is recorded exactly when its poller exists, after the provider has
\* it; a poller is done exactly when the job is terminal.
LifeCycle ==
    \A j \in Jobs :
        /\ call[j] # "done" =>
             poller[j].at = "none" /\ poller[j].attempts = 0 /\ job[j] = NoJob
        /\ call[j] = "idle" => poller[j].reply = NoReply
        /\ call[j] \in {"created", "done"} => remote[j].at \in Dialects
        /\ is_terminal(job[j].status) <=> poller[j].at = "done"
        /\ job[j].error = "timed_out" => poller[j].at = "done"

\* What the last answer says is true of the job at its own provider.
AnswersAreTrue ==
    \A j \in Jobs :
        LET r == poller[j].reply
        IN  /\ r.url => r.seen = "succeeded" /\ r.asked = remote[j].at
            /\ r.fetched \/ poller[j].at = "fetch" => r.url
            /\ r.word \in VideoStatus =>
                 \/ r.word = r.seen /\ r.asked = remote[j].at
                 \/ r.word = "failed" /\ r.asked # remote[j].at
            /\ is_terminal(r.seen) => remote[j].status = r.seen

\* A poller between two polls was not told the end: its last poll failed,
\* or was parsed to a status that is not terminal.
PollersGoOnForAReason ==
    \A j \in Jobs : poller[j].at = "tick" /\ poller[j].attempts > 0 =>
        LET r == poller[j].reply
        IN  ~r.ok \/ ~is_terminal(parse_status(r.asked, r))

IInv ==
    /\ TypeOK
    /\ LifeCycle
    /\ AnswersAreTrue
    /\ PollersGoOnForAReason
    /\ OutcomeIsTrue
    /\ TimeoutIsEarned

-----------------------------------------------------------------------------
\* Whatever a provider answers, or fails to answer, is well typed, and true
\* in the sense of AnswersAreTrue.
LEMMA RepliesAreTrue ==
    ASSUME TypeOK, NEW j \in Jobs, remote[j].at \in Dialects,
           NEW r \in {Refusal(registry, j)} \cup
                     (IF registry = None THEN {} ELSE Answers(registry, j))
    PROVE  /\ r \in Replies
           /\ r.asked = registry
           /\ r.seen = remote[j].status
           /\ ~r.fetched
           /\ r.url => r.seen = "succeeded" /\ r.asked = remote[j].at
           /\ r.word \in VideoStatus =>
                \/ r.word = r.seen /\ r.asked = remote[j].at
                \/ r.word = "failed" /\ r.asked # remote[j].at
<1>1. CASE r = Refusal(registry, j)
  BY <1>1 DEF Refusal, Reply, Replies, Words, VideoStatus, TypeOK
<1>2. CASE r \in Answers(registry, j) /\ registry # None
  <2>1. CASE registry = remote[j].at
    <3>1. PICK w \in {remote[j].status, "unknown", "absent"},
               u \in {FALSE, remote[j].status = "succeeded"} :
            r = [asked |-> registry, seen |-> remote[j].status, ok |-> TRUE,
                 word |-> w, url |-> u, fetched |-> FALSE]
      BY <1>2, <2>1 DEF Answers, Reply
    <3>2. w \in Words /\ u \in BOOLEAN /\ (u => remote[j].status = "succeeded")
      BY DEF Words, TypeOK
    <3>3. w \in VideoStatus => w = remote[j].status
      BY DEF VideoStatus
    <3> QED BY <2>1, <3>1, <3>2, <3>3 DEF Replies, TypeOK
  <2>2. CASE registry # remote[j].at
    <3>1. PICK w \in {"absent", "failed"} :
            r = [asked |-> registry, seen |-> remote[j].status, ok |-> TRUE,
                 word |-> w, url |-> FALSE, fetched |-> FALSE]
      BY <1>2, <2>2 DEF Answers, Reply
    <3> QED BY <2>2, <3>1 DEF Replies, Words, VideoStatus, TypeOK
  <2> QED BY <2>1, <2>2
<1> QED BY <1>1, <1>2

\* Parsing yields a status.
LEMMA ParseType == \A d, r : parse_status(d, r) \in VideoStatus
BY DEF parse_status, VideoStatus

\* A parsed outcome is the provider's word for it, or a video it named.
LEMMA ParseFacts ==
    ASSUME NEW d, NEW r \in Replies
    PROVE  /\ parse_status(d, r) = "succeeded" => r.word = "succeeded" \/ r.url
           /\ parse_status(d, r) = "failed" => r.word = "failed"
           /\ r.word \in VideoStatus => parse_status(d, r) = r.word
BY DEF parse_status, VideoStatus, Replies

\* The initial state: no job anywhere.
LEMMA InitHolds == Init => IInv
<1> SUFFICES ASSUME Init PROVE IInv
  OBVIOUS
<1>1. TypeOK
  BY VideoAssumption DEF Init, TypeOK, VideoJob, Poller, NoRemote, NoJob, NoReply, Replies, Words,
     VideoStatus, Errors
<1> QED
  BY <1>1 DEF Init, IInv, LifeCycle, AnswersAreTrue, PollersGoOnForAReason,
     OutcomeIsTrue, TimeoutIsEarned, NoRemote, NoJob, NoReply, is_terminal, VideoStatus

-----------------------------------------------------------------------------
\* Every step keeps the invariant, one case per action.
LEMMA StepKeeps == IInv /\ [Next]_vars => IInv'
<1> SUFFICES ASSUME IInv, [Next]_vars PROVE IInv'
  OBVIOUS
<1> USE VideoAssumption
<1> USE DEF IInv, LifeCycle, AnswersAreTrue, PollersGoOnForAReason,
        OutcomeIsTrue, TimeoutIsEarned, is_terminal
<1>1. ASSUME NEW p \in Dialects \cup {None}, save_model_registry(p) PROVE IInv'
  BY <1>1 DEF save_model_registry, TypeOK
<1>2. ASSUME NEW j \in Jobs, provider_advances(j) PROVE IInv'
  <2>1. PICK s \in {"running", "succeeded", "failed"} \ {remote[j].status} :
          remote' = [remote EXCEPT ![j].status = s]
    BY <1>2 DEF provider_advances
  <2>2. TypeOK' BY <1>2, <2>1 DEF provider_advances, TypeOK, VideoStatus
  <2> QED BY <1>2, <2>1, <2>2 DEF provider_advances, TypeOK
<1>3. ASSUME NEW j \in Jobs, video_create_not_configured(j) PROVE IInv'
  <2>1. TypeOK' BY <1>3 DEF video_create_not_configured, TypeOK
  <2> QED BY <1>3, <2>1 DEF video_create_not_configured, TypeOK
<1>4. ASSUME NEW j \in Jobs, video_create_job(j) PROVE IInv'
  <2>1. TypeOK' BY <1>4 DEF video_create_job, TypeOK, VideoStatus
  <2>2. poller[j].reply = NoReply /\ job[j] = NoJob /\ poller[j].at = "none"
    BY <1>4 DEF video_create_job
  <2>3. LifeCycle' BY <1>4, <2>2 DEF video_create_job, TypeOK
  <2>4. AnswersAreTrue' BY <1>4, <2>2 DEF video_create_job, TypeOK, NoReply, VideoStatus
  <2>5. PollersGoOnForAReason' BY <1>4, <2>2 DEF video_create_job, TypeOK
  <2>6. OutcomeIsTrue' BY <1>4, <2>2 DEF video_create_job, TypeOK, NoJob
  <2>7. TimeoutIsEarned' BY <1>4, <2>2 DEF video_create_job, TypeOK, NoJob
  <2> QED BY <2>1, <2>3, <2>4, <2>5, <2>6, <2>7
<1>5. ASSUME NEW j \in Jobs, video_create_failed(j) PROVE IInv'
  <2>1. TypeOK' BY <1>5 DEF video_create_failed, TypeOK, VideoStatus
  <2>2. poller[j].reply = NoReply /\ job[j] = NoJob /\ poller[j].at = "none"
    BY <1>5 DEF video_create_failed
  <2>3. LifeCycle' BY <1>5, <2>2 DEF video_create_failed, TypeOK
  <2>4. AnswersAreTrue' BY <1>5, <2>2 DEF video_create_failed, TypeOK, NoReply, VideoStatus
  <2>5. PollersGoOnForAReason' BY <1>5, <2>2 DEF video_create_failed, TypeOK
  <2>6. OutcomeIsTrue' BY <1>5, <2>2 DEF video_create_failed, TypeOK, NoJob
  <2>7. TimeoutIsEarned' BY <1>5, <2>2 DEF video_create_failed, TypeOK, NoJob
  <2> QED BY <2>1, <2>3, <2>4, <2>5, <2>6, <2>7
<1>6. ASSUME NEW j \in Jobs, video_create(j) PROVE IInv'
  <2> DEFINE n == [status |-> "queued", video_url |-> FALSE, error |-> "none"]
             q == [poller[j] EXCEPT !.at = "tick"]
  <2>1. n \in VideoJob /\ ~is_terminal(n.status) /\ ~n.video_url /\ n.error = "none"
    BY DEF VideoJob, VideoStatus, Errors
  <2>2. /\ q \in Poller /\ q.at = "tick"
        /\ q.attempts = poller[j].attempts /\ q.reply = poller[j].reply
    BY DEF TypeOK, Poller
  <2>3. /\ job' = [job EXCEPT ![j] = n] /\ poller' = [poller EXCEPT ![j] = q]
        /\ call' = [call EXCEPT ![j] = "done"] /\ UNCHANGED <<registry, remote>>
        /\ call[j] = "created"
    BY <1>6 DEF video_create
  <2>4. poller[j].attempts = 0
    BY <2>3
  <2> HIDE DEF n, q
  <2>5. TypeOK' BY <2>1, <2>2, <2>3 DEF TypeOK
  <2> QED BY <2>1, <2>2, <2>3, <2>4, <2>5 DEF TypeOK
<1>7. ASSUME NEW j \in Jobs, drop_create(j) PROVE IInv'
  <2>1. TypeOK' BY <1>7 DEF drop_create, TypeOK
  <2> QED BY <1>7, <2>1 DEF drop_create, TypeOK
<1>8. ASSUME NEW j \in Jobs, video_poll_status(j) PROVE IInv'
  <2>1. remote[j].at \in Dialects /\ call[j] = "done"
    BY <1>8 DEF video_poll_status, TypeOK
  <2>2. PICK r \in {Refusal(registry, j)} \cup
                   (IF registry = None THEN {} ELSE Answers(registry, j)) :
          poller' = [poller EXCEPT ![j] =
             [at |-> IF r.ok /\ needs_fetch(registry, r) THEN "fetch" ELSE "apply",
              attempts |-> poller[j].attempts + 1, reply |-> r]]
    BY <1>8 DEF video_poll_status
  <2>3. /\ r \in Replies
        /\ r.seen = remote[j].status
        /\ ~r.fetched
        /\ r.url => r.seen = "succeeded" /\ r.asked = remote[j].at
        /\ r.word \in VideoStatus =>
             \/ r.word = r.seen /\ r.asked = remote[j].at
             \/ r.word = "failed" /\ r.asked # remote[j].at
    BY <2>1, RepliesAreTrue
  <2>4. /\ UNCHANGED <<registry, remote, job, call>>
        /\ poller[j].at = "tick" /\ poller[j].attempts < MaxAttempts
    BY <1>8 DEF video_poll_status
  <2>5. TypeOK' BY <2>2, <2>3, <2>4 DEF TypeOK, Poller
  <2>6. LifeCycle' BY <2>1, <2>2, <2>4 DEF TypeOK
  <2>7. AnswersAreTrue' BY <2>2, <2>3, <2>4 DEF TypeOK, needs_fetch
  <2>8. PollersGoOnForAReason' BY <2>2, <2>4 DEF TypeOK
  <2>9. OutcomeIsTrue' BY <2>2, <2>4 DEF TypeOK
  <2>10. TimeoutIsEarned' BY <2>2, <2>4 DEF TypeOK
  <2> QED BY <2>5, <2>6, <2>7, <2>8, <2>9, <2>10
<1>9. ASSUME NEW j \in Jobs, file_retrieve(j) PROVE IInv'
  <2>1. PICK ok, named \in BOOLEAN :
         poller' = [poller EXCEPT ![j] =
             [poller[j] EXCEPT !.at = "apply",
                !.reply = [poller[j].reply EXCEPT !.ok = ok, !.fetched = ok /\ named]]]
    BY <1>9 DEF file_retrieve
  <2> DEFINE r == poller[j].reply
             s == [r EXCEPT !.ok = ok, !.fetched = ok /\ named]
             q == [poller[j] EXCEPT !.at = "apply", !.reply = s]
  <2>2. r \in Replies /\ poller[j] \in Poller
    BY DEF TypeOK, Poller
  <2>3. /\ s \in Replies /\ s.asked = r.asked /\ s.seen = r.seen
        /\ s.word = r.word /\ s.url = r.url
    BY <2>2 DEF Replies
  <2>4. poller' = [poller EXCEPT ![j] = q]
    BY <2>1
  <2>5. q \in Poller /\ q.at = "apply" /\ q.reply = s
    BY <2>2, <2>3 DEF Poller
  <2>6. /\ poller[j].at = "fetch" /\ UNCHANGED <<registry, remote, job, call>>
        /\ r.url
    BY <1>9 DEF file_retrieve
  <2> HIDE DEF q, s
  <2>7. TypeOK' BY <2>4, <2>5, <2>6 DEF TypeOK
  <2>8. LifeCycle' BY <2>4, <2>5, <2>6 DEF TypeOK
  <2>9. AnswersAreTrue'
    <3>1. poller'[j].reply = s /\ poller'[j].at = "apply" /\ s.url
      BY <2>3, <2>4, <2>5, <2>6 DEF TypeOK
    <3>2. \A k \in Jobs \ {j} : poller'[k] = poller[k]
      BY <2>4 DEF TypeOK
    <3> QED BY <2>3, <2>6, <3>1, <3>2
  <2>10. PollersGoOnForAReason' BY <2>4, <2>5, <2>6 DEF TypeOK
  <2>11. OutcomeIsTrue' BY <2>3, <2>4, <2>5, <2>6 DEF TypeOK
  <2>12. TimeoutIsEarned' BY <2>4, <2>5, <2>6 DEF TypeOK
  <2> QED BY <2>7, <2>8, <2>9, <2>10, <2>11, <2>12
<1>10. ASSUME NEW j \in Jobs, apply_status(j) PROVE IInv'
  <2> DEFINE r == poller[j].reply
             status == parse_status(r.asked, r)
             n == [status |-> status,
                   video_url |-> job[j].video_url \/ parse_url(r.asked, r),
                   error |-> IF status = "failed" THEN "provider" ELSE job[j].error]
             q == [poller[j] EXCEPT !.at = IF is_terminal(status) THEN "done" ELSE "tick"]
  <2>1. /\ poller[j] \in Poller /\ r \in Replies /\ job[j] \in VideoJob
        /\ poller[j].at = "apply" /\ r.ok /\ ~is_terminal(job[j].status)
        /\ call[j] = "done"
    BY <1>10 DEF apply_status, TypeOK, Poller
  <2>2. /\ status \in VideoStatus
        /\ status = "succeeded" => r.word = "succeeded" \/ r.url
        /\ status = "failed" => r.word = "failed"
    BY <2>1, ParseType, ParseFacts
  <2>3. parse_url(r.asked, r) \in BOOLEAN /\ (parse_url(r.asked, r) => r.url)
    BY <2>1 DEF parse_url, Replies
  <2>4. /\ job' = [job EXCEPT ![j] = n] /\ poller' = [poller EXCEPT ![j] = q]
        /\ UNCHANGED <<registry, remote, call>>
    BY <1>10 DEF apply_status
  <2> HIDE DEF status
  <2>5. /\ n \in VideoJob /\ n.status = status
        /\ n.video_url => job[j].video_url \/ r.url
        /\ n.error = IF status = "failed" THEN "provider" ELSE job[j].error
    BY <2>1, <2>2, <2>3 DEF VideoJob, Errors
  <2>6. /\ q \in Poller /\ q.attempts = poller[j].attempts /\ q.reply = r
        /\ q.at = IF is_terminal(status) THEN "done" ELSE "tick"
    BY <2>1 DEF Poller
  <2>7. job[j].error # "timed_out"
    BY <2>1 DEF TypeOK
  <2> HIDE DEF n, q
  <2>8. TypeOK' BY <2>4, <2>5, <2>6 DEF TypeOK
  <2>9. LifeCycle' BY <2>1, <2>2, <2>4, <2>5, <2>6, <2>8 DEF TypeOK
  <2>10. AnswersAreTrue' BY <2>1, <2>4, <2>6 DEF TypeOK
  <2>11. PollersGoOnForAReason' BY <2>1, <2>4, <2>6 DEF TypeOK, status
  <2>12. OutcomeIsTrue' BY <2>1, <2>2, <2>4, <2>5, <2>6 DEF TypeOK, VideoStatus
  <2>13. TimeoutIsEarned' BY <2>1, <2>4, <2>5, <2>6, <2>7 DEF TypeOK
  <2> QED BY <2>8, <2>9, <2>10, <2>11, <2>12, <2>13
<1>11. ASSUME NEW j \in Jobs, apply_error(j) PROVE IInv'
  <2> DEFINE n == [job[j] EXCEPT !.error = "transient"]
             q == [poller[j] EXCEPT !.at = "tick"]
  <2>1. /\ n \in VideoJob /\ n.status = job[j].status
        /\ n.video_url = job[j].video_url /\ n.error = "transient"
    BY DEF TypeOK, VideoJob, Errors
  <2>2. /\ q \in Poller /\ q.at = "tick"
        /\ q.attempts = poller[j].attempts /\ q.reply = poller[j].reply
    BY DEF TypeOK, Poller
  <2>3. /\ job' = [job EXCEPT ![j] = n] /\ poller' = [poller EXCEPT ![j] = q]
        /\ UNCHANGED <<registry, remote, call>>
        /\ poller[j].at = "apply" /\ ~poller[j].reply.ok
    BY <1>11 DEF apply_error
  <2> HIDE DEF n, q
  <2>4. TypeOK' BY <2>1, <2>2, <2>3 DEF TypeOK
  <2> QED BY <2>1, <2>2, <2>3, <2>4 DEF TypeOK
<1>12. ASSUME NEW j \in Jobs, deadline(j) PROVE IInv'
  <2> DEFINE n == [job[j] EXCEPT !.status = "failed", !.error = "timed_out"]
             q == [poller[j] EXCEPT !.at = "done"]
             r == poller[j].reply
  <2>1. /\ n \in VideoJob /\ n.status = "failed"
        /\ n.video_url = job[j].video_url /\ n.error = "timed_out"
    <3>1. job[j] \in VideoJob BY DEF TypeOK
    <3> QED BY <3>1 DEF VideoJob, VideoStatus, Errors
  <2>2. /\ q \in Poller /\ q.at = "done" /\ r \in Replies
        /\ q.attempts = poller[j].attempts /\ q.reply = r
    BY DEF TypeOK, Poller
  <2>3. /\ job' = [job EXCEPT ![j] = n] /\ poller' = [poller EXCEPT ![j] = q]
        /\ UNCHANGED <<registry, remote, call>>
        /\ poller[j].at = "tick" /\ poller[j].attempts = MaxAttempts
    BY <1>12 DEF deadline
  <2> HIDE DEF n, q
  <2>4. \/ ~r.ok
        \/ r.asked # remote[j].at
        \/ ~is_terminal(r.seen)
        \/ r.word \in {"unknown", "absent"}
    <3>1. ~r.ok \/ ~is_terminal(parse_status(r.asked, r))
      BY <2>3
    <3>2. r.word \in VideoStatus => parse_status(r.asked, r) = r.word
      BY <2>2, ParseFacts
    <3>3. r.word \in VideoStatus \/ r.word \in {"unknown", "absent"}
      BY <2>2 DEF Replies, Words
    <3> QED BY <3>1, <3>2, <3>3
  <2>5. TypeOK' BY <2>1, <2>2, <2>3 DEF TypeOK
  <2> QED BY <2>1, <2>2, <2>3, <2>4, <2>5 DEF TypeOK
<1>13. CASE UNCHANGED vars
  BY <1>13 DEF vars, TypeOK
<1> QED
  BY <1>1, <1>2, <1>3, <1>4, <1>5, <1>6, <1>7, <1>8, <1>9, <1>10, <1>11,
     <1>12, <1>13 DEF Next, CreateStep, PollerStep

-----------------------------------------------------------------------------
\* The inductive invariant holds in every reachable state.
THEOREM Invariance == Spec => []IInv
BY InitHolds, StepKeeps, PTL DEF Spec

\* Every variable keeps its type, whatever the number of jobs.
THEOREM TypeCorrect == Spec => []TypeOK
<1>1. IInv => TypeOK BY DEF IInv
<1> QED BY Invariance, <1>1, PTL

\* A finished job reports what happened at its own provider, unless the
\* registry was switched away from it.
THEOREM OutcomesAreTrue == Spec => []OutcomeIsTrue
<1>1. IInv => OutcomeIsTrue BY DEF IInv
<1> QED BY Invariance, <1>1, PTL

\* A timeout is never reported over an answer that told the end.
THEOREM TimeoutsAreEarned == Spec => []TimeoutIsEarned
<1>1. IInv => TimeoutIsEarned BY DEF IInv
<1> QED BY Invariance, <1>1, PTL

\* A terminal job is never written again.
THEOREM TerminalStays == Spec => OutcomeIsFinal
<1>1. IInv /\ [Next]_vars =>
        [\A j \in Jobs : is_terminal(job[j].status) => job'[j] = job[j]]_vars
  <2> SUFFICES ASSUME IInv, Next, NEW j \in Jobs, is_terminal(job[j].status)
               PROVE  job'[j] = job[j]
    OBVIOUS
  <2>1. poller[j].at = "done" /\ call[j] = "done"
    BY DEF IInv, LifeCycle, NoJob, is_terminal
  <2> QED
    BY <2>1 DEF IInv, TypeOK, Next, CreateStep, PollerStep, save_model_registry,
       provider_advances, video_create_not_configured, video_create_job,
       video_create_failed, video_create, drop_create, video_poll_status,
       file_retrieve, apply_status, apply_error, deadline
<1> QED BY Invariance, <1>1, PTL DEF Spec, OutcomeIsFinal
=============================================================================
