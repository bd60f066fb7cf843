------------------------------ MODULE VideoJobs ------------------------------
(***************************************************************************)
(* Cloud image-to-video jobs of the local node (module 6).  A create call  *)
(* makes a job at the provider the model registry names, records it, and   *)
(* spawns a poller bounded to MaxAttempts polls.  Each poll asks the       *)
(* provider the registry names AT THAT MOMENT, and the answer is parsed by *)
(* that provider's dialect.  Frames, prompts, durations, signing and URLs  *)
(* are data and are left out, and so is the text of an error; an answer    *)
(* keeps what the parser tells apart: the kind of status word, and whether *)
(* it names a video.                                                       *)
(***************************************************************************)
EXTENDS Naturals, FiniteSets

CONSTANTS
    Jobs,         \* create calls, and the jobs they record
    Dialects,     \* the providers: one account per configured VideoDialect
    MaxAttempts,  \* VIDEO_POLL_MAX_ATTEMPTS
    None

VideoDialect == {"openai_compat", "kling", "minimax", "vidu", "runway", "jimeng"}
VideoStatus == {"queued", "running", "succeeded", "failed"}
Errors == {"none", "transient", "provider", "timed_out"}

\* The status word of an answer: one the dialect's table knows, by what it
\* stands for, one it does not know, or no status field at all.
Words == VideoStatus \cup {"unknown", "absent"}

ASSUME VideoAssumption ==
    /\ Dialects \subseteq VideoDialect
    /\ MaxAttempts \in Nat \ {0}
    /\ None \notin Dialects

VARIABLES
    registry,  \* the first enabled video_gen entry of the model registry
    remote,    \* remote[j]: the job at its provider, or none
    job,       \* LocalState.video_jobs
    call,      \* call[j]: how far the create request is
    poller     \* poller[j]: the background task of job j

vars == <<registry, remote, job, call, poller>>

NoRemote == [at |-> None, status |-> "queued"]
NoJob == [status |-> "absent", video_url |-> FALSE, error |-> "none"]
NoReply == [asked |-> None, seen |-> "queued", ok |-> FALSE, word |-> "absent",
            url |-> FALSE, fetched |-> FALSE]

\* What one poll brought back: the provider it asked, the state of the
\* provider's job when it answered, and the answer itself.
Replies == [asked : Dialects \cup {None}, seen : VideoStatus, ok : BOOLEAN,
            word : Words, url : BOOLEAN, fetched : BOOLEAN]

VideoJob == [status : VideoStatus \cup {"absent"}, video_url : BOOLEAN, error : Errors]

Poller == [at : {"none", "tick", "fetch", "apply", "done"},
           attempts : 0 .. MaxAttempts, reply : Replies]

TypeOK ==
    /\ registry \in Dialects \cup {None}
    /\ remote \in [Jobs -> [at : Dialects \cup {None}, status : VideoStatus]]
    /\ job \in [Jobs -> VideoJob]
    /\ call \in [Jobs -> {"idle", "created", "done", "failed"}]
    /\ poller \in [Jobs -> Poller]

is_terminal(status) == status \in {"succeeded", "failed"}

Init ==
    /\ registry \in Dialects \cup {None}
    /\ remote = [j \in Jobs |-> NoRemote]
    /\ job = [j \in Jobs |-> NoJob]
    /\ call = [j \in Jobs |-> "idle"]
    /\ poller = [j \in Jobs |-> [at |-> "none", attempts |-> 0, reply |-> NoReply]]

-----------------------------------------------------------------------------
(* The provider, external: it advances its jobs and answers truthfully,    *)
(* except that it may use words the dialect does not know, leave the       *)
(* status out, or finish without naming the video.                         *)

\* The operator saves a registry with another video provider, or none.
save_model_registry(p) ==
    /\ p # registry
    /\ registry' = p
    /\ UNCHANGED <<remote, job, call, poller>>

provider_advances(j) ==
    /\ remote[j].at # None
    /\ ~is_terminal(remote[j].status)
    /\ \E s \in {"running", "succeeded", "failed"} \ {remote[j].status} :
         remote' = [remote EXCEPT ![j].status = s]
    /\ UNCHANGED <<registry, job, call, poller>>

Reply(p, j, ok, w, u) == [asked |-> p, seen |-> remote[j].status, ok |-> ok,
                          word |-> w, url |-> u, fetched |-> FALSE]

\* The answers of provider p about job j.  A provider that never saw the
\* job refuses, or answers with a body that has none of the fields; Jimeng
\* has a status word for it (not_found), which stands for a failure.
Answers(p, j) ==
    IF p = remote[j].at
    THEN {Reply(p, j, TRUE, w, u) : w \in {remote[j].status, "unknown", "absent"},
                                    u \in {FALSE, remote[j].status = "succeeded"}}
    ELSE {Reply(p, j, TRUE, w, FALSE) : w \in {"absent"} \cup
                                             (IF p = "jimeng" THEN {"failed"} ELSE {})}

Refusal(p, j) == Reply(p, j, FALSE, "absent", FALSE)

-----------------------------------------------------------------------------
(* parse_poll: what a dialect makes of an answer *)

\* Mutant: an answer without a status field counts as done in any dialect.
parse_status_AbsentIsDone(d, r) ==
    CASE r.word \in VideoStatus -> r.word
      [] r.word = "absent" -> "succeeded"
      [] OTHER -> "running"

parse_status(d, r) ==
    CASE r.word \in VideoStatus -> r.word
      [] r.word = "absent" /\ d = "openai_compat" /\ r.url -> "succeeded"
      [] OTHER -> "running"

\* MiniMax names the video through a file that a second request fetches.
needs_fetch(d, r) == d = "minimax" /\ r.word = "succeeded" /\ r.url

parse_url(d, r) == IF d = "minimax" THEN r.fetched ELSE r.url

-----------------------------------------------------------------------------
(* video_create *)

\* No video provider: the client gets an error and nothing is recorded.
video_create_not_configured(j) ==
    /\ call[j] = "idle"
    /\ registry = None
    /\ call' = [call EXCEPT ![j] = "failed"]
    /\ UNCHANGED <<registry, remote, job, poller>>

\* video_create_job succeeds: the provider has the job, the node its id.
video_create_job(j) ==
    /\ call[j] = "idle"
    /\ registry # None
    /\ remote' = [remote EXCEPT ![j] = [at |-> registry, status |-> "queued"]]
    /\ call' = [call EXCEPT ![j] = "created"]
    /\ UNCHANGED <<registry, job, poller>>

\* The request or its answer is lost, or the answer carries no job id: the
\* client gets an error although the provider may have made the job.
video_create_failed(j) ==
    /\ call[j] = "idle"
    /\ registry # None
    /\ \E made \in BOOLEAN :
         remote' = IF made THEN [remote EXCEPT ![j] = [at |-> registry, status |-> "queued"]]
                           ELSE remote
    /\ call' = [call EXCEPT ![j] = "failed"]
    /\ UNCHANGED <<registry, job, poller>>

\* Record the job as queued and spawn its poller; the last await is before.
video_create(j) ==
    /\ call[j] = "created"
    /\ job' = [job EXCEPT ![j] = [status |-> "queued", video_url |-> FALSE, error |-> "none"]]
    /\ poller' = [poller EXCEPT ![j].at = "tick"]
    /\ call' = [call EXCEPT ![j] = "done"]
    /\ UNCHANGED <<registry, remote>>

\* The client disconnects while the handler waits for the job store.
drop_create(j) ==
    /\ call[j] = "created"
    /\ call' = [call EXCEPT ![j] = "failed"]
    /\ UNCHANGED <<registry, remote, job, poller>>

-----------------------------------------------------------------------------
(* spawn_video_poller *)

\* One tick: resolve_cloud_video, send the request, take the answer.
video_poll_status(j) ==
    /\ poller[j].at = "tick"
    /\ poller[j].attempts < MaxAttempts
    /\ \E r \in {Refusal(registry, j)} \cup
                (IF registry = None THEN {} ELSE Answers(registry, j)) :
         poller' = [poller EXCEPT ![j] =
             [at |-> IF r.ok /\ needs_fetch(registry, r) THEN "fetch" ELSE "apply",
              attempts |-> @.attempts + 1, reply |-> r]]
    /\ UNCHANGED <<registry, remote, job, call>>

\* The MiniMax follow-up request: it fails, or names the video, or does not.
file_retrieve(j) ==
    /\ poller[j].at = "fetch"
    /\ \E ok, named \in BOOLEAN :
         poller' = [poller EXCEPT ![j] =
             [@ EXCEPT !.at = "apply",
                       !.reply = [poller[j].reply EXCEPT !.ok = ok,
                                                         !.fetched = ok /\ named]]]
    /\ UNCHANGED <<registry, remote, job, call>>

\* Mutant: the poller goes on after a terminal status.
apply_status_NoReturn(j) ==
    LET r == poller[j].reply
        status == parse_status(r.asked, r)
    IN  /\ poller[j].at = "apply"
        /\ r.ok
        /\ job' = [job EXCEPT ![j] =
               [status |-> status,
                video_url |-> job[j].video_url \/ parse_url(r.asked, r),
                error |-> IF status = "failed" THEN "provider" ELSE job[j].error]]
        /\ poller' = [poller EXCEPT ![j].at = "tick"]
        /\ UNCHANGED <<registry, remote, call>>

\* Write a parsed answer under the store's lock; stop on a terminal status.
apply_status(j) ==
    LET r == poller[j].reply
        status == parse_status(r.asked, r)
    IN  /\ poller[j].at = "apply"
        /\ r.ok
        /\ job' = [job EXCEPT ![j] =
               [status |-> status,
                video_url |-> job[j].video_url \/ parse_url(r.asked, r),
                error |-> IF status = "failed" THEN "provider" ELSE job[j].error]]
        /\ poller' = [poller EXCEPT ![j].at = IF is_terminal(status) THEN "done" ELSE "tick"]
        /\ UNCHANGED <<registry, remote, call>>

\* Mutant: a failed poll is retried at no cost.
apply_error_Free(j) ==
    /\ poller[j].at = "apply"
    /\ ~poller[j].reply.ok
    /\ job' = [job EXCEPT ![j].error = "transient"]
    /\ poller' = [poller EXCEPT ![j].at = "tick", ![j].attempts = @ - 1]
    /\ UNCHANGED <<registry, remote, call>>

\* A failed poll is recorded and the loop goes on.
apply_error(j) ==
    /\ poller[j].at = "apply"
    /\ ~poller[j].reply.ok
    /\ job' = [job EXCEPT ![j].error = "transient"]
    /\ poller' = [poller EXCEPT ![j].at = "tick"]
    /\ UNCHANGED <<registry, remote, call>>

\* Mutant: the ceiling is checked one attempt early.
deadline_OffByOne(j) ==
    /\ poller[j].at = "tick"
    /\ poller[j].attempts + 1 = MaxAttempts
    /\ job' = [job EXCEPT ![j] = [@ EXCEPT !.status = "failed", !.error = "timed_out"]]
    /\ poller' = [poller EXCEPT ![j].at = "done"]
    /\ UNCHANGED <<registry, remote, call>>

\* The attempts are spent without a terminal status.
deadline(j) ==
    /\ poller[j].at = "tick"
    /\ poller[j].attempts = MaxAttempts
    /\ job' = [job EXCEPT ![j] = [@ EXCEPT !.status = "failed", !.error = "timed_out"]]
    /\ poller' = [poller EXCEPT ![j].at = "done"]
    /\ UNCHANGED <<registry, remote, call>>

CreateStep(j) ==
    \/ video_create_not_configured(j) \/ video_create_job(j)
    \/ video_create_failed(j) \/ video_create(j) \/ drop_create(j)

PollerStep(j) ==
    \/ video_poll_status(j) \/ file_retrieve(j)
    \/ apply_status(j) \/ apply_error(j) \/ deadline(j)

Next ==
    \/ \E p \in Dialects \cup {None} : save_model_registry(p)
    \/ \E j \in Jobs : provider_advances(j) \/ CreateStep(j) \/ PollerStep(j)

Spec == Init /\ [][Next]_vars

\* A spawned task runs whenever it can: the interval ticks and the HTTP
\* client gives up after its timeout.  Nothing is assumed of the provider,
\* of the operator or of the create calls.
Fairness == \A j \in Jobs : WF_vars(PollerStep(j))
FairSpec == Spec /\ Fairness

-----------------------------------------------------------------------------
(* Properties *)

\* A recorded job that reached a terminal status never changes again: the
\* poller that ended it was its only writer.
OutcomeIsFinal ==
    [][\A j \in Jobs : is_terminal(job[j].status) => job'[j] = job[j]]_vars

\* What a finished job says happened at its provider, whatever providers
\* were asked on the way: a success, or a video, is reported only of a job
\* its own provider finished; a failure that is not a timeout only of one
\* its own provider failed, or on the word of a provider the registry was
\* switched to, which does not know the job.
OutcomeIsTrue ==
    \A j \in Jobs :
        /\ job[j].status = "succeeded" \/ job[j].video_url => remote[j].status = "succeeded"
        /\ job[j].status = "failed" /\ job[j].error # "timed_out" =>
               /\ job[j].error = "provider"
               /\ remote[j].status = "failed" \/ poller[j].reply.asked # remote[j].at

\* A job is given up only after every attempt was spent, and then its last
\* poll really brought no outcome: it failed, it asked a provider other than
\* the job's own, the provider was not done, or it did not say so.
TimeoutIsEarned ==
    \A j \in Jobs : job[j].error = "timed_out" =>
        LET r == poller[j].reply
        IN  /\ poller[j].attempts = MaxAttempts
            /\ \/ ~r.ok
               \/ r.asked # remote[j].at
               \/ ~is_terminal(r.seen)
               \/ r.word \in {"unknown", "absent"}

\* Every job that is recorded reaches a terminal status, even if the provider
\* never finishes it, is switched away or cannot be reached.
EveryJobEnds ==
    \A j \in Jobs : job[j].status # "absent" ~> is_terminal(job[j].status)

\* A job that succeeded has its hosted video URL (the doc comment of
\* VideoJob.video_url: "populated once the job succeeds").
SucceededHasUrl ==
    \A j \in Jobs : job[j].status = "succeeded" => job[j].video_url
=============================================================================
