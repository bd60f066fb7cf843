---------------------------- MODULE NodeSettings ----------------------------
(***************************************************************************)
(* The settings of the local node and its lease gate                       *)
(* (apps/local-node/src/main.rs, model_router.rs): Ozon credentials, the   *)
(* OpenAI configuration, the model registry and the cloud lease live in    *)
(* the secret store, each with a copy in memory; the device fingerprint    *)
(* and the operator's own secrets live in the store only.  The store is    *)
(* layered (LayeredSecretStore): the OS keyring, and a file that stands in *)
(* for it in an outage.                                                    *)
(*                                                                         *)
(* A request handler is a call that moves from await to await.  A save     *)
(* writes the store and then the copy; a load reads the copy, else the     *)
(* store, and the loads of the lease and of the registry then fill the     *)
(* copy.  Nothing spans the two, so calls interleave between them, and a   *)
(* client that disconnects drops its call at any await.  One operation of  *)
(* the store is one step here; what another operation or a timeout can do  *)
(* in its middle is in late, the keyring writes that are still to come.    *)
(***************************************************************************)
EXTENDS Naturals, Sequences, FiniteSets, SequencesExt

CONSTANTS
    None, Err, Corrupt, Blank,  \* nothing, a failure, an unreadable value, empty text
    Calls,          \* request handlers of one behaviour
    Accounts,       \* Ozon seller accounts: client id and API key
    Keys,           \* API keys
    Fingerprints,   \* random device fingerprints
    Hardware,       \* the fingerprint derived from the hardware
    Elsewhere,      \* the fingerprint of another machine
    Entries,        \* provider entries the operator may add
    Worlds,         \* initial situations: the environment of the node, the keyring
                    \* and the file it finds, the calls of the behaviour and their
                    \* kinds, the time and the number of faults it starts from
    MaxBatch,       \* RELIST_MAX_BATCH, MODULE3_MAX_BATCH
    MaxTime,        \* ticks of the clock
    MaxFaults       \* keyring outages, failures, dropped calls and restarts

ASSUME SettingsAssumption ==
    /\ MaxTime \in Nat /\ MaxFaults \in Nat
    /\ {None, Err, Corrupt, Blank} \cap (Accounts \cup Keys \cup Fingerprints) = {}
    /\ {"partial", "mock"} \cap Accounts = {} /\ "bad url" \notin Keys

VARIABLES
    config,     \* the environment of the process
    workload,   \* the kinds of calls this behaviour makes
    now,        \* the clock
    keyring,    \* the OS keyring
    file,       \* the file that stands in for it
    late,       \* keyring writes without a caller, which may still land
    cache,      \* the copies in memory
    call,       \* the request handlers
    shown,      \* history: the fingerprints answered so far
    saved,      \* history: slots of the registry whose save was acknowledged
    spoiled,    \* history: settings hit by an overlap, an outage, a drop or a late write
    faults      \* faults so far

layers == <<keyring, file, late>>
copies == <<cache, shown, saved, spoiled>>
settings == <<layers, copies>>
world == <<config, workload, now>>

Cached == {"ozon", "openai", "registry", "lease"}
Reserved == Cached \cup {"fingerprint"}
Names == Reserved \cup {"key"}

Capability == {"image", "text", "video"}
\* id stands for the base URL and the model: the console replaces the entry of a
\* capability that has both.  url is what kind of base URL it is.
ProviderEntry == [cap : Capability, id : 1..3, url : {"https", "loopback", "empty", "http"},
                  ref : {"openai", "key"}, enabled : BOOLEAN,
                  kind : {"images", "chat", "video"}]
Slot(e) == <<e.cap, e.id>>
SlotsOf(registry) == {Slot(registry[i]) : i \in 1..Len(registry)}

\* A lease as the cloud signed it for a device; defect is what is wrong with it.
Lease == [device : Fingerprints \cup {Hardware, Elsewhere}, expires : 0..(MaxTime + 1),
          defect : {"no", "unsigned", "forged", "featureless"}]

\* The settings: what each name of the store may hold, when it is readable.
Setting(n) == CASE n = "ozon" -> Accounts
                [] n \in {"openai", "key"} -> Keys
                [] n = "registry" -> Seq(ProviderEntry)
                [] n = "lease" -> Lease
                [] n = "fingerprint" -> Fingerprints

\* The environment of the process; "partial" and "bad url" are incomplete settings,
\* and a variable that is blank counts as unset.  mac: the machine has a hardware
\* identity; stable: the probe of this process has read it.
Config == [use_real_ozon : BOOLEAN, allow_unsigned_lease : BOOLEAN,
           mac : BOOLEAN, stable : BOOLEAN,
           ozon_env : Accounts \cup {None, "partial"}, openai_env : Keys \cup {None, "bad url"},
           legacy : Accounts \cup {None, "partial"}]

ASSUME ValuesAssumption ==
    /\ \A n \in Names : \A x \in {None, Err, Corrupt} : x \notin Setting(n)
    /\ None # Err /\ None # Corrupt /\ Err # Corrupt /\ None # "partial" /\ Err # "mock"
    /\ Entries \subseteq ProviderEntry

ASSUME WorldsAssumption == \A w \in Worlds :
    /\ w.config \in Config
    /\ w.now \in 0..MaxTime /\ w.faults \in 0..MaxFaults
    /\ DOMAIN w.keyring = Names /\ DOMAIN w.file = Names
    /\ \A n \in Names : {w.keyring[n], w.file[n]} \subseteq {None, Corrupt} \cup Setting(n)

\* The calls behind the gate, and what each save writes.
Gated == {"read", "poster", "generate", "recognize", "relist_push", "copy_push", "export"}
Target(kind) == CASE kind = "save_ozon" -> "ozon"
                  [] kind = "save_openai" -> "openai"
                  [] kind = "save_registry" -> "registry"
                  [] kind = "save_lease" -> "lease"
                  [] kind = "save_secret" -> "key"
                  [] OTHER -> None

\* No call is not one of them, and no setting is not a name.
ASSUME KindsAssumption ==
    None \notin Names \cup Gated \cup {"save_ozon", "save_openai", "save_registry", "save_lease",
                                      "save_secret", "portal_status"}

Idle == [kind |-> None, at |-> "idle", since |-> 0, value |-> None, lease |-> None,
         account |-> None, product |-> None, todo |-> 0, round |-> 0, made |-> {}]
\* value is the input; todo counts the items of a batch that are left, round and
\* made the attempts to restyle one item and the pictures hosted for it.
Done == [Idle EXCEPT !.at = "done"]
Quiet == \A c \in Calls : call[c].at \in {"idle", "done"}

-----------------------------------------------------------------------------
(* Tokens and inputs.                                                       *)

require_operator_token(token) == token = "operator"
require_bridge_or_operator_token(token) == token \in {"operator", "bridge"}
require_openclaw_pairing_origin(origin) == origin = "trusted origin"

\* A call arrives with its input and, when it is not refused, waits at place.
Begin(c, kind, admitted, place, value) ==
    /\ call[c].at = "idle"
    /\ kind \in workload
    /\ call' = [call EXCEPT ![c] = IF admitted
                                   THEN [Idle EXCEPT !.kind = kind, !.at = place,
                                                     !.since = now, !.value = value]
                                   ELSE Done]

Finish(c) == call' = [call EXCEPT ![c] = Done]
Goto(c, place) == call' = [call EXCEPT ![c].at = place]

-----------------------------------------------------------------------------
(* The secret store as the handlers see it (LayeredSecretStore).            *)

\* What a read answers while the keyring works.
store == [n \in Names |-> IF keyring[n] # None THEN keyring[n] ELSE file[n]]

\* Reads of names that reach the keyring: a value it lacks moves into it from the
\* file, and the copy in the file is deleted, also one that is newer.
Settle(names) ==
    /\ keyring' = [n \in Names |-> IF n \in names THEN store[n] ELSE keyring[n]]
    /\ file' = [n \in Names |-> IF n \in names THEN None ELSE file[n]]

\* The writes of moves that are given up, or that another write overtakes.
Moving(names) == {<<n, file[n]>> : n \in {m \in names : keyring[m] = None /\ file[m] # None}}

\* get: the keyring answers, or the move of the file's value comes late; in an
\* outage the file answers, or nothing does.
Get(n, answer) ==
    \/ answer = store[n] /\ Settle({n}) /\ UNCHANGED <<late, faults>>
    \/ /\ Moving({n}) # {} /\ answer = store[n]
       /\ late' = late \cup Moving({n})
       /\ UNCHANGED <<keyring, file, faults>>
    \/ /\ faults < MaxFaults /\ faults' = faults + 1
       /\ answer \in {file[n], Err}
       /\ UNCHANGED layers

\* The store is not asked.
Skip(n, answer) == answer = store[n] /\ UNCHANGED <<keyring, file, late, faults>>

\* get_secret_for_status: the same under a timeout, which is one more failure.
get_secret_for_status(n, answer) == Get(n, answer)

\* A status looks at names, each of them in an outage or not.
Inspect(names) ==
    \E read \in SUBSET {n \in names : file[n] # None} :
        /\ Settle(read)
        /\ late' \in {late} \cup {late \cup {w} : w \in Moving(names \ read)}

\* put answers Ok: the keyring has the value and the file none, or in an outage the
\* file has it, and the keyring write may still come.  An older value of the keyring
\* then stays what a read answers: the new one is lost.
Put(n, v, lost) ==
    \/ /\ keyring' = [keyring EXCEPT ![n] = v]
       /\ file' = [file EXCEPT ![n] = None]
       /\ lost = {}
       /\ UNCHANGED <<late, faults>>
    \/ /\ faults < MaxFaults /\ faults' = faults + 1
       /\ file' = [file EXCEPT ![n] = v]
       /\ late' \in {late, late \cup {<<n, v>>}}
       /\ lost = IF keyring[n] \in {None, v} THEN {} ELSE {n}
       /\ UNCHANGED keyring

\* put fails: neither layer takes the value in time.
PutFails(n, v) ==
    /\ faults < MaxFaults /\ faults' = faults + 1
    /\ late' \in {late, late \cup {<<n, v>>}}
    /\ UNCHANGED <<keyring, file>>

\* A keyring write that was given up lands.  It changes what a read answers when
\* something else has been stored since.
late_write ==
    \E w \in late :
        /\ late' = late \ {w}
        /\ keyring' = [keyring EXCEPT ![w[1]] = w[2]]
        /\ spoiled' = IF store[w[1]] = w[2] THEN spoiled ELSE spoiled \cup {w[1]}
        /\ UNCHANGED <<file, cache, shown, saved, world, call, faults>>

Readable(answer) == answer \notin {None, Err, Corrupt}

\* Calls that write setting n and its copy, and calls about to fill its copy.
Saving(n) == {c \in Calls : call[c].at \in {"put", "fill"} /\ Target(call[c].kind) = n}
Filling(n) == {c \in Calls : call[c].at = (IF n = "lease" THEN "lease_fill" ELSE "registry_fill")
                             /\ n \in {"lease", "registry"}}
Editing == {c \in Calls : call[c].kind = "save_registry"}

\* c is about to save n: another save or fill of n in flight is an overlap.
Overlap(c, n) == IF (Saving(n) \cup Filling(n)) \ {c} # {} THEN {n} ELSE {}
EnterSave(c, n) == spoiled' = spoiled \cup Overlap(c, n)
\* c has read n and will fill the copy; a save in flight overlaps, and in an outage
\* the answer is not what the store holds.
EnterFill(c, n, answer) ==
    spoiled' = IF Saving(n) \ {c} # {} \/ answer # store[n] THEN spoiled \cup {n} ELSE spoiled

-----------------------------------------------------------------------------
(* What a lease, an environment and a stored value are worth.               *)

verify_cloud_lease_signature(l) ==
    IF l.defect = "unsigned" THEN config.allow_unsigned_lease ELSE l.defect # "forged"

validate_cloud_lease(l) == l.expires > now /\ verify_cloud_lease_signature(l)

\* Mutant: a cached lease is trusted until the node is restarted.
validate_cloud_lease_with_feature_Cached(l) ==
    cache["lease"] = l \/ (validate_cloud_lease(l) /\ l.defect # "featureless")

validate_cloud_lease_with_feature(l) == validate_cloud_lease(l) /\ l.defect # "featureless"

ensure_lease_bound_to_device(l, fingerprint) == l.device = fingerprint

lease_status(l) == validate_cloud_lease_with_feature(l)

inspect_cloud_lease ==
    IF cache["lease"] # None THEN lease_status(cache["lease"])
    ELSE Readable(store["lease"]) /\ lease_status(store["lease"])

\* The account of a call to Ozon: the mock's, the copy, the environment (an
\* incomplete one is an error), the stored bundle, the keys of older versions.
load_legacy_ozon == IF config.legacy \in Accounts THEN config.legacy ELSE Err
load_ozon_env_credentials == IF config.ozon_env = "partial" THEN Err ELSE config.ozon_env
load_ozon_credentials(answer) ==
    IF ~ config.use_real_ozon THEN "mock"
    ELSE IF cache["ozon"] # None THEN cache["ozon"]
    ELSE IF load_ozon_env_credentials # None THEN load_ozon_env_credentials
    ELSE IF answer = None THEN load_legacy_ozon
    ELSE IF Readable(answer) THEN answer ELSE Err

inspect_legacy_ozon_credentials == config.legacy \in Accounts
inspect_ozon_env_credentials == config.ozon_env \in Accounts

\* Mutant: stored credentials count although the environment is incomplete.
inspect_ozon_credentials_Stored ==
    cache["ozon"] # None \/ inspect_ozon_env_credentials \/ Readable(store["ozon"])

inspect_ozon_credentials ==
    \/ cache["ozon"] # None
    \/ inspect_ozon_env_credentials
    \/ config.ozon_env = None /\ Readable(store["ozon"])
    \/ config.ozon_env = None /\ store["ozon"] = None /\ inspect_legacy_ozon_credentials

\* The OpenAI key.  An unusable base URL in the environment spoils the key beside
\* it, at the first look and again when nothing is stored.
load_openai_env_config == IF config.openai_env \in Keys THEN config.openai_env ELSE Err
load_openai_config(answer) ==
    IF cache["openai"] # None THEN cache["openai"]
    ELSE IF load_openai_env_config # Err THEN load_openai_env_config
    ELSE IF Readable(answer) THEN answer ELSE Err

inspect_openai_config ==
    cache["openai"] # None \/ load_openai_env_config # Err \/ Readable(store["openai"])

\* A provider entry names its key by reference.
resolve_secret_ref(ref, answer) ==
    IF ref = "openai" THEN load_openai_config(answer)
    ELSE IF answer \in {None, Err} THEN Err ELSE answer

\* The read behind a reference: memory and the environment come before the store.
Resolve(ref, answer) ==
    IF ref = "openai" /\ (cache["openai"] # None \/ load_openai_env_config # Err)
    THEN Skip(ref, answer)
    ELSE Get(ref, answer)

\* normalize_openai_base_url: plain http only to this machine.
normalize_provider_base_url(url) == url \in {"https", "loopback", "empty"}

\* entries.iter().find(|entry| entry.enabled): where it is, or 0.
FirstEnabled(registry, cap) ==
    SelectInSeq(registry, LAMBDA e : e.cap = cap /\ e.enabled)

\* The reference behind a capability: the first enabled entry; images fall back
\* to the OpenAI configuration, the others are not configured.
ProviderRef(registry, cap) ==
    IF FirstEnabled(registry, cap) # 0 THEN registry[FirstEnabled(registry, cap)].ref
    ELSE IF cap = "image" THEN "openai" ELSE None

resolve_capability(registry, cap, answer) ==
    IF ProviderRef(registry, cap) = None THEN Err
    ELSE resolve_secret_ref(ProviderRef(registry, cap), answer)

generic_capability_status(registry, cap) ==
    /\ FirstEnabled(registry, cap) # 0
    /\ LET ref == registry[FirstEnabled(registry, cap)].ref
       IN  resolve_secret_ref(ref, store[ref]) # Err

inspect_capabilities(registry) ==
    [cap \in Capability |->
        IF cap = "image" /\ FirstEnabled(registry, cap) = 0
        THEN inspect_openai_config
        ELSE generic_capability_status(registry, cap)]

-----------------------------------------------------------------------------
(* The gate: require_valid_lease_with_feature.                              *)

\* The gate is skipped by a mock connector that accepts unsigned leases.
GateIsOpen == ~ config.use_real_ozon /\ config.allow_unsigned_lease

\* Behind the gate: the export runs the local engine, the others call Ozon.
Admitted(kind) == IF kind = "export" THEN "engine" ELSE "cred"

\* load_cloud_lease: the copy is there, and is validated at once.
load_cloud_lease(c) ==
    /\ call[c].at = "lease"
    /\ IF GateIsOpen THEN Goto(c, Admitted(call[c].kind))
       ELSE /\ cache["lease"] # None
            /\ call' = [call EXCEPT ![c] = IF validate_cloud_lease_with_feature(cache["lease"])
                                           THEN [@ EXCEPT !.at = "fingerprint",
                                                          !.lease = cache["lease"]]
                                           ELSE Done]
    /\ UNCHANGED <<settings, world, faults>>

\* load_cloud_lease: it is not, the store is read.
load_cloud_lease_stored(c) ==
    /\ call[c].at = "lease" /\ ~ GateIsOpen /\ cache["lease"] = None
    /\ \E answer \in {store["lease"], file["lease"], Err} :
         /\ Get("lease", answer)
         /\ IF Readable(answer)
            THEN /\ call' = [call EXCEPT ![c].at = "lease_fill", ![c].lease = answer]
                 /\ EnterFill(c, "lease", answer)
            ELSE Finish(c) /\ UNCHANGED spoiled
    /\ UNCHANGED <<cache, shown, saved, world>>

\* ... and becomes the copy, then is validated.
load_cloud_lease_fill(c) ==
    /\ call[c].at = "lease_fill"
    /\ cache' = [cache EXCEPT !["lease"] = call[c].lease]
    /\ call' = [call EXCEPT ![c] = IF validate_cloud_lease_with_feature(call[c].lease)
                                   THEN [@ EXCEPT !.at = "fingerprint"] ELSE Done]
    /\ UNCHANGED <<layers, shown, saved, spoiled, world, faults>>

\* The fingerprint is known: what the call does with it.
Identified(c, fingerprint, lost) ==
    /\ shown' = shown \cup {fingerprint}
    /\ IF call[c].kind = "portal_status" THEN Goto(c, "inspect")
       ELSE IF ~ ensure_lease_bound_to_device(call[c].lease, fingerprint) THEN Finish(c)
       ELSE Goto(c, IF call[c].kind = "save_lease" THEN "put" ELSE Admitted(call[c].kind))
    /\ spoiled' = spoiled \cup lost
                   \cup (IF call'[c].at = "put" THEN Overlap(c, "lease") ELSE {})

\* A random fingerprint is one that was never there.
Fresh == Fingerprints \ (shown \cup {keyring["fingerprint"], file["fingerprint"]}
                               \cup {w[2] : w \in late})

\* Another answer than the stored fingerprint, in an outage.
Mistaken(answer) == IF answer = store["fingerprint"] THEN {} ELSE {"fingerprint"}

\* Mutant: a fresh fingerprint is used although it could not be stored.
load_or_create_device_fingerprint_Unsaved(c) ==
    /\ call[c].at = "fingerprint"
    /\ UNCHANGED <<cache, saved, world>>
    /\ IF config.stable
       THEN Identified(c, Hardware, {}) /\ UNCHANGED <<layers, faults>>
       ELSE \E answer \in {store["fingerprint"], file["fingerprint"], Err} :
              /\ Get("fingerprint", answer)
              /\ IF Readable(answer) THEN Identified(c, answer, Mistaken(answer))
                 ELSE \E f \in Fresh : Identified(c, f, {})

\* load_or_create_device_fingerprint: the hardware's, else the stored one, else
\* a new one that has to be stored first.
load_or_create_device_fingerprint(c) ==
    /\ call[c].at = "fingerprint"
    /\ UNCHANGED <<cache, saved, world>>
    /\ IF config.stable
       THEN Identified(c, Hardware, {}) /\ UNCHANGED <<layers, faults>>
       ELSE \E answer \in {store["fingerprint"], file["fingerprint"], Err} :
              /\ Get("fingerprint", answer)
              /\ IF Readable(answer) THEN Identified(c, answer, Mistaken(answer))
                 ELSE /\ IF answer = Err THEN Finish(c) ELSE Goto(c, "mint")
                      /\ spoiled' = IF answer # Err
                                       /\ \/ Readable(store["fingerprint"])
                                          \/ \E d \in Calls : call[d].at = "mint"
                                    THEN spoiled \cup {"fingerprint"} ELSE spoiled
                      /\ UNCHANGED shown

mint_fingerprint(c) ==
    /\ call[c].at = "mint"
    /\ \E f \in Fresh :
         \/ \E lost \in SUBSET {"fingerprint"} :
               Put("fingerprint", f, lost) /\ Identified(c, f, lost)
         \/ PutFails("fingerprint", f) /\ Finish(c) /\ UNCHANGED <<shown, spoiled>>
    /\ UNCHANGED <<cache, saved, world>>

\* The account is loaded once for the whole call; validate_ozon_config starts
\* here.  The mock connector answers from fixed data.
load_credentials(c) ==
    /\ call[c].at = "cred"
    /\ \E answer \in {store["ozon"], file["ozon"], Err} :
         /\ IF config.use_real_ozon /\ cache["ozon"] = None /\ config.ozon_env = None
            THEN Get("ozon", answer)
            ELSE Skip("ozon", answer)
         /\ LET account == load_ozon_credentials(answer)
            IN  call' = [call EXCEPT ![c] =
                   IF config.use_real_ozon /\ account # Err /\ call[c].todo \in 1..MaxBatch
                   THEN [@ EXCEPT !.at = "ozon", !.account = account]
                   ELSE Done]
    /\ UNCHANGED <<copies, world>>

-----------------------------------------------------------------------------
(* The model registry: load_persisted_model_registry and its callers.       *)

\* The copy answers.
load_persisted_model_registry(c) ==
    /\ call[c].at = "registry" /\ cache["registry"] # None
    /\ call' = [call EXCEPT ![c].at = "routed", ![c].value = <<cache["registry"], @>>]
    /\ UNCHANGED <<settings, world, faults>>

\* Else the store; anything but a readable registry becomes the empty one.
load_persisted_model_registry_stored(c) ==
    /\ call[c].at = "registry" /\ cache["registry"] = None
    /\ \E answer \in {store["registry"], file["registry"], Err} :
         /\ get_secret_for_status("registry", answer)
         /\ call' = [call EXCEPT ![c].at = "registry_fill",
                        ![c].value = <<IF Readable(answer) THEN answer ELSE <<>>, @>>]
         /\ EnterFill(c, "registry", answer)
    /\ UNCHANGED <<cache, shown, saved, world>>

\* The copy is filled on every path.
load_persisted_model_registry_fill(c) ==
    /\ call[c].at = "registry_fill"
    /\ cache' = [cache EXCEPT !["registry"] = call[c].value[1]]
    /\ Goto(c, "routed")
    /\ UNCHANGED <<layers, shown, saved, spoiled, world, faults>>

\* Mutant: the console posts only the entry it edits.
MergeEntry_Alone(registry, e) == <<e>>

\* The console puts its entry in the place of the one with the same slot, else
\* at the end.
MergeEntry(registry, e) ==
    IF Slot(e) \in SlotsOf(registry)
    THEN [i \in 1..Len(registry) |-> IF Slot(registry[i]) = Slot(e) THEN e ELSE registry[i]]
    ELSE Append(registry, e)

\* get_model_registry answers and the console posts the whole registry back.
get_model_registry(c) ==
    /\ call[c].at = "routed" /\ call[c].kind = "save_registry"
    /\ call' = [call EXCEPT ![c].at = "refs", ![c].value = MergeEntry(@[1], @[2])]
    /\ UNCHANGED <<settings, world, faults>>

\* save_model_registry: every reference must resolve now and every base URL must
\* be acceptable, or nothing is saved.
Acceptable(e) ==
    resolve_secret_ref(e.ref, store[e.ref]) # Err /\ normalize_provider_base_url(e.url)
save_model_registry(c) ==
    /\ call[c].at = "refs"
    /\ \/ /\ \A i \in 1..Len(call[c].value) : Acceptable(call[c].value[i])
          /\ Goto(c, "put")
          /\ EnterSave(c, "registry")
          /\ UNCHANGED faults
       \/ /\ \E i \in 1..Len(call[c].value) : ~ Acceptable(call[c].value[i])
          /\ Finish(c)
          /\ UNCHANGED <<spoiled, faults>>
       \/ /\ faults < MaxFaults /\ faults' = faults + 1
          /\ Finish(c)
          /\ UNCHANGED spoiled
    /\ Inspect({call[c].value[i].ref : i \in 1..Len(call[c].value)})
    /\ UNCHANGED <<cache, shown, saved, world>>

\* The status pages report what is stored and are done.
inspect_settings(c) ==
    /\ \/ /\ call[c].at = "routed" /\ call[c].kind = "config_status"
          /\ Inspect(Names \ {"fingerprint"})
       \/ /\ call[c].at = "inspect"
          /\ Inspect({"ozon", "openai", "lease"})
    /\ Finish(c)
    /\ UNCHANGED <<copies, world, faults>>

-----------------------------------------------------------------------------
(* Requests that save.                                                      *)

save_ozon_config(c, token, a) ==
    /\ Begin(c, "save_ozon", require_operator_token(token) /\ a \in Accounts, "put", a)
    /\ IF call'[c].at = "put" THEN EnterSave(c, "ozon") ELSE UNCHANGED spoiled
    /\ UNCHANGED <<layers, cache, shown, saved, world, faults>>

\* A blank key keeps the stored one: it has to be loaded first.
save_openai_config(c, token, k, url) ==
    /\ Begin(c, "save_openai", require_operator_token(token) /\ normalize_provider_base_url(url),
             IF k = Blank THEN "persisted" ELSE "put", k)
    /\ IF call'[c].at = "put" THEN EnterSave(c, "openai") ELSE UNCHANGED spoiled
    /\ UNCHANGED <<layers, cache, shown, saved, world, faults>>

load_persisted_openai_config(c) ==
    /\ call[c].at = "persisted"
    /\ \E answer \in {store["openai"], file["openai"], Err} :
         /\ IF cache["openai"] # None THEN Skip("openai", answer)
            ELSE Get("openai", answer)
         /\ LET key == IF cache["openai"] # None THEN cache["openai"] ELSE answer
            IN  IF Readable(key)
                THEN /\ call' = [call EXCEPT ![c].at = "put", ![c].value = key]
                     /\ EnterSave(c, "openai")
                ELSE Finish(c) /\ UNCHANGED spoiled
    /\ UNCHANGED <<cache, shown, saved, world>>

\* The console's edit of the registry starts with get_model_registry.
edit_model_registry(c, token, e) ==
    /\ Begin(c, "save_registry", require_operator_token(token), "registry", e)
    /\ spoiled' = IF Editing # {} THEN spoiled \cup {"registry"} ELSE spoiled
    /\ UNCHANGED <<layers, cache, shown, saved, world, faults>>

\* save_secret: the node's own names are reserved.
save_secret(c, token, name, k) ==
    /\ Begin(c, "save_secret",
             require_operator_token(token) /\ name \in Names \ Reserved /\ k \in Keys, "put", k)
    /\ UNCHANGED <<settings, world, faults>>

save_portal_lease(c, l) ==
    /\ call[c].at = "idle" /\ "save_lease" \in workload
    /\ call' = [call EXCEPT ![c] =
         IF validate_cloud_lease_with_feature(l)
         THEN [Idle EXCEPT !.kind = "save_lease", !.at = "fingerprint", !.since = now,
                           !.value = l, !.lease = l]
         ELSE Done]
    /\ UNCHANGED <<settings, world, faults>>

\* The store takes the new value, or the save fails.
put_setting(c) ==
    /\ call[c].at = "put"
    /\ LET n == Target(call[c].kind)
       IN  \/ /\ \E lost \in SUBSET {n} :
                   Put(n, call[c].value, lost) /\ spoiled' = spoiled \cup lost
              /\ IF n \in Cached THEN Goto(c, "fill") ELSE Finish(c)
           \/ PutFails(n, call[c].value) /\ Finish(c) /\ UNCHANGED spoiled
    /\ UNCHANGED <<cache, shown, saved, world>>

\* Mutant: the copy is only filled when there is none yet.
fill_setting_Once(c) ==
    /\ call[c].at = "fill"
    /\ LET n == Target(call[c].kind)
       IN  /\ cache' = [cache EXCEPT ![n] = IF @ = None THEN call[c].value ELSE @]
           /\ saved' = IF n = "registry" THEN saved \cup SlotsOf(call[c].value) ELSE saved
    /\ Finish(c)
    /\ UNCHANGED <<layers, shown, spoiled, world, faults>>

\* Then the copy, and the answer.
fill_setting(c) ==
    /\ call[c].at = "fill"
    /\ LET n == Target(call[c].kind)
       IN  /\ cache' = [cache EXCEPT ![n] = call[c].value]
           /\ saved' = IF n = "registry" THEN saved \cup SlotsOf(call[c].value) ELSE saved
    /\ Finish(c)
    /\ UNCHANGED <<layers, shown, spoiled, world, faults>>

-----------------------------------------------------------------------------
(* Requests that read.                                                      *)

portal_status(c) ==
    /\ Begin(c, "portal_status", TRUE, "fingerprint", None)
    /\ UNCHANGED <<settings, world, faults>>

\* config_status and diagnostics end with inspect_capabilities.
config_status(c, token) ==
    /\ Begin(c, "config_status", require_operator_token(token), "registry", None)
    /\ UNCHANGED <<settings, world, faults>>

\* The requests behind the gate.  To have a poster made takes the operator's token;
\* its brief and its handoff are reads.  value is the input and items the size of
\* the batch, checked after the gate.
gated_request(c, kind, token, value, items) ==
    /\ kind \in Gated
    /\ call[c].at = "idle" /\ kind \in workload
    /\ LET admitted == IF kind = "poster" THEN require_operator_token(token)
                       ELSE require_bridge_or_operator_token(token)
       IN  call' = [call EXCEPT ![c] = IF admitted
                      THEN [Idle EXCEPT !.kind = kind, !.at = "lease", !.since = now,
                                        !.value = value, !.todo = items]
                      ELSE Done]
    /\ UNCHANGED <<settings, world, faults>>

\* validate_ozon_config asks Ozon without the gate.
validate_ozon_config(c, token) ==
    /\ call[c].at = "idle" /\ "validate" \in workload
    /\ call' = [call EXCEPT ![c] = IF require_operator_token(token)
                                   THEN [Idle EXCEPT !.kind = "validate", !.at = "cred",
                                                     !.since = now, !.todo = 1]
                                   ELSE Done]
    /\ UNCHANGED <<settings, world, faults>>

-----------------------------------------------------------------------------
(* Faults and time.                                                         *)

\* What a call has asked the keyring to write.
InFlight(c) == CASE call[c].at = "put" -> {<<Target(call[c].kind), call[c].value>>}
                 [] call[c].at = "mint" -> {<<"fingerprint", f>> : f \in Fresh}
                 [] OTHER -> {}

\* The client disconnects.  Between the store and the copy this leaves the two
\* apart; a write that is in flight goes on alone.
drop_call(c) ==
    /\ call[c].at \notin {"idle", "done"}
    /\ faults < MaxFaults /\ faults' = faults + 1
    /\ spoiled' = IF call[c].at = "fill" THEN spoiled \cup {Target(call[c].kind)} ELSE spoiled
    /\ late' \in {late} \cup {late \cup {w} : w \in InFlight(c)}
    /\ Finish(c)
    /\ UNCHANGED <<keyring, file, cache, shown, saved, world>>

tick ==
    /\ now < MaxTime
    /\ now' = now + 1
    /\ UNCHANGED <<config, workload, settings, call, faults>>

\* The process ends and is started again: the copies are gone, the store stays.
\* The hardware is probed once per process, and the probe may fail.
restart_settings ==
    /\ faults < MaxFaults /\ faults' = faults + 1
    /\ cache' = [n \in Cached |-> None]
    /\ call' = [c \in Calls |-> IF call[c].at = "idle" THEN Idle ELSE Done]
    /\ late' = {}
    /\ config' \in {[config EXCEPT !.stable = s] : s \in {FALSE, config.mac}}
    /\ spoiled' = IF config' = config THEN spoiled ELSE spoiled \cup {"fingerprint"}
    /\ UNCHANGED <<keyring, file, shown, saved, workload, now>>

SettingsInit ==
    /\ \E w \in Worlds :
         /\ config = w.config /\ workload = w.workload
         /\ keyring = w.keyring /\ file = w.file
         /\ now = w.now /\ faults = w.faults
         /\ call = [c \in Calls |-> IF c \in w.calls THEN Idle ELSE Done]
    /\ late = {}
    /\ cache = [n \in Cached |-> None]
    /\ shown = IF config.stable THEN {} ELSE {store["fingerprint"]} \cap Fingerprints
    /\ saved = IF Readable(store["registry"]) THEN SlotsOf(store["registry"]) ELSE {}
    /\ spoiled = {}
=============================================================================
