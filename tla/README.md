# Formal model of ozon-rust-suite

This directory holds a TLA+ development of the parts of ozon-rust-suite whose
correctness depends on interleavings, failures and time: modules that are
translated from the source, TLC configurations that check them on small
instances, and TLAPS proofs of the most important properties for every value of
the parameters. `PROJECT.json` relates every definition to its source lines and
lists runs, mutants, findings, hazards and theorems.

## The system

ozon-rust-suite sells and runs an automation product for Ozon sellers.

* **cloud-api** (`apps/cloud-api`) is an axum server over Postgres. It keeps
  users, orders, payment events, card keys, entitlements and devices, takes
  payments (manual, Stripe, WeChat Pay), turns them into entitlements and signs
  24-hour leases for activated devices.
* **local-node** (`apps/local-node`) is an axum server on the customer's machine.
  It stores credentials in the OS keyring, checks the cloud's lease, keeps the
  task store, and runs the scheduler, the OpenClaw pairing and the relist and
  video jobs. A React console and a Tauri shell sit in front of it.
* **crates**: `domain` (data types and the task state machine), `task-engine`
  (the task store), `secret-store` (keyring and file), `ozon-connector` (the
  seller API), `entitlement-client` (empty).
* **Others**: the web portal and admin, a development identity issuer, the
  OpenClaw bridge, a Python spreadsheet tool and a QA driver.

The parts interact through HTTP only. The portal or the admin calls cloud-api;
Stripe and WeChat call its webhooks; the local node gets a lease through the
portal and validates it offline. Inside a process, concurrent request handlers
share state behind tokio locks (local-node) or Postgres rows (cloud-api).

### Inventory

| Component | State | Operations | What is hard | Correct when |
|---|---|---|---|---|
| Task engine | task map, idempotency index, audit log, event channel | create_dry_run, approve, cancel, mark_running, mark_succeeded, mark_failed | steps outside the lock; dropped handlers; cancel during execution | approved writes only, one live task per key, final states stay final, every change is accounted for |
| Orders and payments | orders, payment_events, card_keys, entitlements | create_order, get_order, webhooks, confirm_order | repeated and reordered events, crashes, row locks, deadlocks | a payment is fulfilled exactly once, and eventually |
| Entitlements | card_keys, entitlements, devices, signed leases | create, redeem, provision, grant, activate, issue, revoke | concurrent transactions at READ COMMITTED, expiry | device limits hold, a card is spent once, leases follow entitlements |
| Secret store | keyring entry, file entry | put, get, delete | two layers without a common lock, outages, calls that outlive a timeout | a stored secret is found, a deleted one is not |
| Settings and lease gate | one value per setting in the secret store and a copy in memory, device fingerprint | save, load, inspect, validate | store and copy written one after the other, outages that look empty, expiry | copy and store agree, no gated request without a valid lease of this device, one fingerprint, a truthful status |
| Model registry | provider entries in the store and in memory | read, edit in the console, save, resolve | read-modify-write of the whole registry; fill after a read against save | an acknowledged entry is not lost |
| Scheduler | schedule record (flag, settings, last error, audit), worker handle | configure, run-now, worker loop | several lock acquisitions per call, overlapping and dropped calls, a read in flight | an enabled schedule is polled by one worker, a disabled one by none |
| Pairing | table of codes | start, claim | clock read before the lock, double claim | a code is used once, in time |
| Video jobs | job table, one poller per job, model registry | create, poll, deadline | registry switched under a job, failed polls, six dialects, late results | a job ends, once, and tells the truth |
| Listing write-back | none of its own; products at Ozon | relist_generate, relist_push, module3_recognize, module3_push | read, compute, replace; degraded reads; paged dictionaries | nothing of the seller is deleted, blanked or dropped unreported |
| Excel export | files in the exports directory | inject, process, verify | one of several runs fails; the thread outlives its request | a deliverable is verified or absent |
| Accounts | users, tenants; profiles at SkyBridge | register, login, auth_skybridge | check-then-insert, unique columns, a profile that changes between fetch and commit | one row per person, tokens name their owner |
| Release manifest | cached manifest | get | time to live | a stale manifest is not served for long |
| Desktop shell | child process | start, stop, update | process lifetime | one local node |

## Modules

| Module | Models |
|---|---|
| `TaskEngine` | `crates/task-engine` and the task handlers of local-node |
| `OrderFulfilment` | what the payment side promises, without webhooks or locks |
| `Payments` | orders, webhooks, transactions and providers of cloud-api; implements `OrderFulfilment` |
| `Entitlements` | card keys, entitlements, devices and leases of cloud-api |
| `LayeredSecretStore` | `crates/secret-store` |
| `Scheduler` | the e-commerce read schedule of local-node and its workers |
| `VideoJobs` | cloud video jobs of local-node, their pollers and the dialects' parsers |
| `NodeSettings` | settings, secrets, model registry, device fingerprint and lease gate of local-node |
| `Pairing`, `ExcelExport`, `Listings` | OpenClaw pairing; module 4; modules 2 and 3 over the Ozon connector. Each extends `NodeSettings` |
| `LocalNode` | the four composed: they share the request handlers, the settings, the clock and a restart |
| `Accounts` | users, sign-in and the SkyBridge profiles of cloud-api |
| `TaskEngineProofs`, `PaymentsProofs`, `EntitlementsProofs`, `LayeredSecretStoreProofs`, `SchedulerProofs`, `VideoJobsProofs`, `AccountsProofs`, `LocalNodeProofs` | inductive invariants and theorems; the last one covers `NodeSettings`, `Pairing`, `ExcelExport` and `Listings` too |
| `MC*` | the instances TLC runs |

Definitions named `X_Something` under a comment "Mutant:" are wrong versions of
`X`, used to see that a property notices such a mistake.

### How state and actions correspond to the code

The unit of atomicity is what the runtime makes atomic: the code between two
awaits of a handler in local-node, one SQL statement or one locked transaction in
cloud-api. A handler that spans several of them is a record (`call[c]`,
`worker[w]`, `handler[h]`, `caller[c]`, `poller[j]`) whose field `at` says which
await it has reached. A request whose client disconnects is dropped at an await,
which is an action of its own (`drop_*`).

* **TaskEngine.** `inner` and `by_idempotency` are the two maps behind the store's
  lock; `call` holds the handlers between the lock, the audit record and the
  broadcast, and during the 150 ms sleep of `execute_mock_task`.
* **Payments.** `orders` and `event` are the tables and the providers' outboxes;
  `worker` holds the webhook handlers inside their transactions. Row locks are
  derived from where the handlers are: `insert_payment_event` holds the order's
  KEY SHARE lock through its foreign key, `find_order_by_id_for_update` asks for
  FOR UPDATE, and two handlers that do both deadlock until Postgres aborts one.
* **Entitlements.** The three tables, signed leases, and handlers between their
  statements; a discrete clock stands for `Utc::now()`.
* **LayeredSecretStore.** One name, two layers; the record `world` says whether the
  keyring may come and go (`switches`) or outlive its timeout (`slow`), whether
  callers may be dropped (`drops`), whether a file copy exists at the start
  (`legacy`) and how many operations overlap (`inFlight`). A keyring call runs on a
  blocking thread: one that timed out or whose caller was dropped is in `late`, and
  may still complete. `SteadyStoreKeepsPromises` speaks of the worlds without faults
  and without such a file, `LastCopyIsKept` of all.
* **Scheduler.** `schedule` is the record behind the lock, `task[c]` the worker
  that the enabling call `c` spawned. An abort ends a worker that waits; one that
  another thread is polling goes on to its next await (`aborted`,
  `worker_last_poll`) and may still land its read. `mishap` is a history variable that says
  which unlucky schedules have happened: two enables overlapped (`overlap`), an
  enable met a disable (`crossed`), a call was dropped between abort and flag
  (`lost_switch`) or between spawn and handle (`lost_handle`). The properties say
  which promise each of them breaks, and that nothing else does.
* **VideoJobs.** `registry` is the first enabled `video_gen` entry, `remote[j]` the
  job at its provider, `job[j]` the entry of `video_jobs`, `poller[j]` the spawned
  task with the last answer it took. An answer is reduced to what `parse_poll`
  tells apart: a known status word, an unknown one or none, and whether it names
  a video.
* **NodeSettings.** `keyring` and `file` are the two layers of the secret store, `late`
  the keyring writes that lost their caller, `cache` the copies in `LocalState`;
  `call[c]` is a request at an await. The layers behave as `LayeredSecretStore` says,
  with one operation on one name in one step: a read moves a value from the file to
  the keyring, removes the file's copy when the keyring has an older one, and sees
  the file only in an outage; a `put` in an outage answers Ok with the value in the
  file. `store` is what a read answers while the keyring works. A save may fail, a
  client may disconnect with its write in flight, a given-up write may land at any
  time (`late_write`), the process may restart and its hardware probe may then fail.
  `spoiled` is a history variable that names the settings hit by one of the
  exceptions: an overlap of writers, a drop between the two writes of a save, a load
  in an outage that did not answer what is stored, a `put` in an outage over another
  keyring value, a late write that changes what is stored, a fingerprint probe that
  changed its answer. The properties promise everything for the others. `config`,
  `workload` and the initial layers come from the constant `Worlds`.
* **Pairing.** `pairings` is the table behind its lock; a call carries the time it
  read before it waited for the lock. `issued` and `claims` record what happened.
* **ExcelExport.** `engine[c]` is the blocking thread of an export with the files it
  has written; the request may be gone while it runs. Every removal may fail. `leak` is a
  history variable for what leaves files behind: a panic, a failed removal, a disk
  that fills up while `rows.json` is written.
* **Listings.** `shop[a]` is the live product of an account. Its gallery says which
  pictures are colour and 360 pictures and which ones only the attributes endpoint
  serves; a product read may lack that endpoint's answer or the description, and
  takes one colour picture only. A read that cannot have every picture is
  `Incomplete`, and a push after it spoils the gallery.
  A list of pictures is the set of its pictures: no property looks at their order.
  `draft` is the copy under review, `report` the last match of a push.
* **Accounts.** `users` is the committed table, a handler between its statement and
  its commit holds an uncommitted row on which colliding statements wait, and
  `profiles[p]` lists the versions of a person's profile at SkyBridge.

## Runs

| Run | Question | Instance |
|---|---|---|
| `tasks` | Do approval, idempotency, exclusive execution, audit and announcements survive every interleaving and dropped handler? Does a running task end? | 2 tasks under 1 key, 2 handlers; two tasks are the least that can compete for a key, two handlers the least that can race |
| `payments` | Is an acknowledged payment fulfilled, exactly once, and do the webhooks implement `OrderFulfilment` with its liveness? | 1 order of any provider, 3 events, 2 handlers, 1 crash, so that a paid event meets its repetition, a deadlock and a crash. Other orders are covered by the theorems |
| `payments_wechat_refused` | Is every order that the configuration allows accepted by the schema? No | 1 WeChat Pay order under the schema's CHECK |
| `entitlements` | Do device limits, the single test grant and single redemption hold under concurrent transactions and expiry, and does a lease follow the entitlement it was read from? | 2 users (one on the allow list), 2 cards, 2 devices, 2 requests, a clock of 2 ticks; entitlements last 1 tick and test grants 2: a limit can be reached, exceeded by expiry and raced, and an entitlement can be revoked or expire between its read and the signature |
| `secrets` | With a keyring that always or never answers, is a put value found and a deleted one gone? Whatever it does, is the last copy kept? | 3 concurrent operations with a steady keyring; 2 with outages, late calls and a legacy file |
| `secrets_outage`, `secrets_late_write` | Do the two promises survive an outage, and a write that outlives its timeout? No | 1 operation at a time is enough |
| `scheduler` | Is an enabled schedule polled, by one worker, and does a disabled one drain? | 3 calls, 2 settings (one of them the default of a fresh node), an audit trimmed to 2, no failure recorded once it holds `MaxAudit` = 3: two calls can race and a third finds what they left |
| `video` | Does a job end, once, and is what it reports true of its provider? | 1 job, all six dialects, 3 attempts. Jobs share nothing but the registry, which may change at any time, so more jobs add nothing; the theorems cover any number |
| `local_node` | Do store, memory and status agree; do gate, fingerprint and pairing codes hold; does no push or export damage what it writes? | 31 situations, each with 1 to 3 requests of related kinds and at most 1 fault (47 initial states with the galleries): 14 of settings and status (four environments, three stores, the mock connector, keys left in the file by an outage), 7 of the gate with a clock of 2 ticks, and the others of registry edits, first fingerprints, pairing, export, generation, a text provider of another kind, picture pushes over five galleries, copy pushes and a push during a change of account. One fault is enough for each exception: a `put` in an outage, then a read; a dropped `put`, then its late write. Two requests are the least that overlap; three are used where a third must find what two left (registry, fingerprint, pairing). The dictionary has three pages, the middle one blank |
| `accounts` | Do tokens name their owner, do accounts stay apart, is a row one version of a profile? | 3 requests of any kind, 2 people with up to 3 versions of a profile over colliding addresses, 2 providers, 2 attempts at a fresh Nebula id |
| `video_no_url` | Does a succeeded job have its URL? No | as `video` |

`CHECK_DEADLOCK FALSE` is set where the system may really stop: each instance has
finitely many requests, and when all are done nothing need happen. The secret
store runs check for deadlock.

### Fairness

* `tasks`: weak fairness of a handler's own steps (the audit record, the broadcast,
  the end of the sleep), because tokio polls a task that can run. Nothing obliges
  anyone to create, approve or execute, and a dropped handler owes nothing.
* `payments`: strong fairness of delivery of an event that is not acknowledged
  (both providers retry), of a handler's steps and of its lock request (Postgres
  grants locks in order, but a handler may be aborted and retried meanwhile), and
  weak fairness of the deadlock detector. Customers need not pay.
* `scheduler`: weak fairness of calls and of workers: the lock is granted in order
  of arrival, the interval ticks and the connector's requests time out after 15 s.
* `video`: weak fairness of the poller alone; its requests time out after 300 s.
  Nothing is assumed of the provider, which may never finish.

## Findings

* **WeChat Pay orders are refused** (`payments_wechat_refused`). `plan_definition`
  writes the currency as `CNY`; the CHECK of migration 0005 wants lower case.
* **A secret put during a keyring outage is lost** (`secrets_outage`). It goes to
  the file only; when the keyring is back, `get` returns the older keyring value
  and removes the file. The settings of local-node live in this store: memory keeps
  the saved value until the restart, which loads the older one. `SettingsAgree` and
  `RegistryKeepsEntries` name this among their exceptions.
* **A deleted secret comes back** (`secrets_late_write`). A keyring write that
  outlived its timeout completes after the deletion was confirmed; the run's world
  drops no caller. A `put` whose client disconnects leaves the same write behind
  (`drops`). The migration in `get` has the same effect when it races a deletion. It also loses a put: a
  `get` that has read a value left in the file from before writes it to the keyring
  after an overlapping `put` was acknowledged, with no fault at all. The attempt to
  prove `SteadyStoreKeepsPromises` found this one.
* **A succeeded video job without a URL** (`video_no_url`). The poller stops at
  the first terminal status, named video or not.

Behaviour that no document speaks about, and the properties therefore allow:
overlapping enables leave an unowned worker until the schedule is disabled; a read
that an abort meets in mid-poll may land after the disable was answered; a
disconnect at the wrong moment leaves a schedule enabled and not polled; a
registry switch lets a running video job time out, or fail on the word of Jimeng
("not_found"); the error of a transient poll stays on a job that succeeds later.
Overlapping saves of one setting, or a client that disconnects between the two
writes of a save, leave memory and store apart until the next save or restart. An
outage while the registry is loaded makes it look empty, and the console's next
edit saves that over the real one. Two first requests mint two fingerprints. A
hardware probe that fails at one start gives the node another fingerprint until the
next. The status page says a lease of another device is valid (the gate refuses it),
and that text generation is ready when its first enabled entry is of another kind than
chat (`chat_completion` refuses it). A picture the seller adds between the read and the
import of a push is lost. So are, after a push, the pictures its read could not have:
the ones only the attributes endpoint serves, when that call failed, and all colour
pictures but the first. An attribute with a dictionary and only blank values is neither written nor
reported. `summarize_stderr` cuts an engine message at byte 277, which panics inside
a character and leaves the files of that export behind; a disk that fills up leaves a
partial `rows.json`, and a file that cannot be removed stays, contaminated or not (it is
never the answer). Of two overlapping sign-ins
of a person the one with the older profile may commit last.

## Proofs

TLAPS proves every safety property that a passing run checks, invariants and action
properties alike, and the safety part of the refinement, for every value of the
constants. Each proof module states its inductive invariant as a conjunction of named
parts, and has one lemma or step per action.

* **TaskEngine** (`TaskEngineProofs`): type correctness, approved writes, one live
  task per key, exclusive execution, sound receipts, final terminal states. The
  properties are not inductive alone: `HandlersNameTasks` says what a handler in
  flight remembers, and `IndexNamesLiveTask` that the index entry of a live task's
  key is that task, which is why creation may look at the index only. The complete
  audit needs `AuditInv`: an action has happened exactly when it is recorded, owed or
  lost, what is owed is owed by one handler and not recorded yet, and a task that was
  not approved has no approval. The announcements are inductive by themselves.
* **Payments** (`PaymentsProofs`): type correctness, exactly-once fulfilment,
  acknowledged payments are fulfilled, sessions are attached before they are paid,
  and `Spec => FulfilmentIsSafe`, the safety part of the refinement. The
  invariant adds that an order's status fits its provider, that only ready orders
  are payable, that events are about real orders, that handlers hold the event
  they work on, and that confirmation precedes provisioning.
* **Entitlements** (`EntitlementsProofs`): type correctness, `FleetWithinEarnedLimit`,
  `OneActiveTestGrant`, `LeaseFollowsEntitlement`, `SpentOnce`. The invariant says what
  the lock of the user row protects: it has one holder (`OneLockPerUser`), so what the
  holder read still stands when it writes. There is room for the device
  (`AdmittedHasRoom`), because entitlements may end but the largest limit ever earned
  stays, and no full access yet (`GrantIsFirst`). `issue_lease` takes no lock, and
  what it read is only as fresh as the time it asked (`ReadsArePast`).
* **LayeredSecretStore** (`LayeredSecretStoreProofs`): type correctness,
  `LastCopyIsKept`, `SteadyStoreKeepsPromises`. The invariant splits the steady worlds:
  a silent keyring is never written and the file is what counts (`SilentFit`); with an
  answering one the file stays empty and the keyring holds what was last written, by a
  write that has answered or is about to (`AnsweringFit`). `LastCopyIsKept` rests on
  what a caller may still remove at the place it has reached (`CallersFit`) and on no
  late removal while nobody deletes (`LateCallsFit`).
* **Scheduler** (`SchedulerProofs`): type correctness, `EnabledHasWorker`,
  `OneWorkerPerSchedule`, `DisabledHasNoWorker`, `AuditExplainsState`. The invariant adds
  that live workers belong to calls past their spawn (`WorkersFollowCalls`), that an
  enable in progress finds no stored handle unless enables overlapped
  (`OneEnableAtATime`), that a call about to write the flag has no live worker
  beside it when nothing unlucky happened (`QuietSwitch`). `AuditAgrees` speaks of any entry with no later
  one of its sort instead of the one a search finds, which is what survives both
  appending and trimming.
* **VideoJobs** (`VideoJobsProofs`): type correctness, `OutcomeIsTrue`,
  `TimeoutIsEarned`, `OutcomeIsFinal`. The invariant follows an answer from the
  provider to the job: answers are true when taken and stay true of a finished
  provider job (`AnswersAreTrue`), and a poller that goes on was not told the end
  (`PollersGoOnForAReason`).
* **Accounts** (`AccountsProofs`): type correctness, `TokenNamesItsOwner`,
  `AccountsStayApart`, `RowIsOneProfile`. The invariant says what a request may rely on
  where it is (`RequestsFit`): before its insert it has no row, and the row it writes
  is its person's, as one version of the profile. Rows never collide, the uncommitted
  ones included (`RowsAreApart`, from the unique constraints), a person signs in
  into one row (`OneSignIn`), and an update has its row to itself (`OneWriterPerRow`).
* **LocalNode** (`LocalNodeProofs`) is proved in layers over one type invariant, whose
  `Fits` says what a request carries at each await, and one fact about steps, `Moves`:
  what a request was for, when it arrived and which lease admitted it stay while it goes
  from await to await.
  - `CodeIsOneTime`: a code in the table was issued with that expiry and not claimed.
  - `DeliverableIsVerified`: which files a pipeline has at each stage, what a clean-up may
    leave of them, and that an answer is given after the last one.
  - `CopyIsNotBlanked`, `CopyIsAccountedFor`, `GalleryIsKept`: a read that is not
    incomplete has every picture (`CompleteRead`), and what a push took from it still
    contains what the seller owns, or the gallery is spoiled (`GalleryOK`).
  - `FingerprintIsStable`, `GateHolds`: one identity in the store and in every request
    unless it is spoiled (`IdentityOK`), and a request past an await has passed what
    lies before it (`GateOK`).
  - `SettingsAgree`, `RegistryKeepsEntries`: of the requests in flight at most one writes
    an unspoiled setting, and the copy is behind the store only while that one is
    between its two writes (`CopiesOK`). A read of the layers changes where a value is, not
    what the store answers, which is why both speak of `store` and not of the layers. An edit starts from a registry that holds
    every acknowledged entry (`RegistryOK`).
  - `StatusIsTruthful` needs no more than types: it compares two functions of
    the state. Its lemmas say that the first enabled entry of a capability
    is one whenever there is one.

### Assumptions

Each is named in the module that declares the constants, and TLC evaluates it on every
run of that module. Absent values (`None`, `NoUser`, `Err`, `Corrupt`, ...) are not
values; terms, bounds and limits are numbers, card limits from 1 to 255 (`u8`, kept from
0 by `validate_card_key_limits`); `Worlds` are well-formed environments and stores
(`WorldsAssumption`); `Blank` is neither text of a draft (`TextsAssumption`); editions of a
profile are profiles (`RowsAssumption`).

One theorem has a hypothesis of its own. `CopiesAreAccountedFor` assumes
`WholeDictionaryIsRead`: the dictionary ends within the pages the connector reads and
only its last page is without ids. A longer dictionary is cut by design, and its
values are then reported as unknown although the category knows them. The instance of
`local_node` satisfies it.

### What the proofs changed

Two proof attempts failed because the formula was false. `SteadyStoreKeepsPromises` did
not hold of a store with a file from before (see the findings) and now leaves it out.
The dictionary read of `Listings` kept the blank values, which the connector skips,
because the difference was taken inside the union.

Two definitions could not be reasoned about as they were. The first enabled entry of a
capability was read off a filtered sequence; it is now the search of the code (`find`).
The pictures of a product became sets.

### Only model-checked

Liveness: `RunningEnds`, `DisabledDrains`, `EnabledKeepsPolling`, `EveryJobEnds` and the
liveness part of `ImplementsFulfilment`, since temporal reasoning under fairness is out of
the prover's reach. What a violation run shows is a counterexample and needs no proof.
Type invariants, sound receipts and the safety part of the refinement are proved,
and therefore no longer properties of a run.

## Plan

The components in the table of modules are modelled and their safety properties
proved. No module uses RECURSIVE operators. What is left:

1. `NodeSettings` takes an operation of the layered store as one step.
   `LayeredSecretStore` interleaves the calls inside one; that its outcomes are those of
   `Get`, `Put` and `late_write` could be stated as a refinement.
2. `Scheduler` and `VideoJobs` could get abstract specifications, as `Payments` has in
   `OrderFulfilment`.
3. `relist_extract` and `relist_import_image` of the write-back, once they change state.

## Not modelled

Signatures, password hashing, JWTs and TLS are taken to work: library code. Request
and response bodies, prompts, signing of provider requests and spreadsheets are
formatting. The React applications are presentation, except the console's edit of
the model registry, which is `MergeEntry`. The QA tool and the development issuer are
test equipment, `entitlement-client` is empty. The desktop shell starts and stops
processes and windows of the operating system. The Python spreadsheet engine is
sequential and is seen through its exit codes (`ExcelExport`). The release manifest
proxy may serve a stale manifest by design. `relist_extract` and
`relist_import_image` only fetch and return. Disk
failures under the file secret store and a Postgres that loses commits are outside
the failure model. Unlucky random values (a repeated pairing code or fingerprint) are
excluded. Restarts of local-node lose the task store, the schedule and the
video jobs by design (all in memory), so there is nothing to recover.
