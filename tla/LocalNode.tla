------------------------------ MODULE LocalNode ------------------------------
(***************************************************************************)
(* The local node (apps/local-node/src/main.rs): its settings and lease    *)
(* gate, OpenClaw pairing, the export of workbooks and the write-back of   *)
(* listings, composed.  The components share the request handlers, the     *)
(* settings and the clock; a restart ends them all.                        *)
(***************************************************************************)
EXTENDS Pairing, ExcelExport, Listings

vars == <<settings, world, call, faults, pairing, export, listing>>

Tokens == {"operator", "bridge", "none"}
Urls == {"https", "http"}

Init == SettingsInit /\ PairingInit /\ ExportInit /\ ListingsInit

\* Steps of a call through the settings and the gate.
SettingsStep(c) ==
    /\ \/ load_cloud_lease(c)
       \/ load_cloud_lease_stored(c)
       \/ load_cloud_lease_fill(c)
       \/ load_or_create_device_fingerprint(c)
       \/ mint_fingerprint(c)
       \/ load_credentials(c)
       \/ load_persisted_model_registry(c)
       \/ load_persisted_model_registry_stored(c)
       \/ load_persisted_model_registry_fill(c)
       \/ get_model_registry(c)
       \/ save_model_registry(c)
       \/ inspect_settings(c)
       \/ load_persisted_openai_config(c)
       \/ put_setting(c)
       \/ fill_setting(c)
       \/ drop_call(c)
    /\ UNCHANGED <<pairing, export, listing>>

\* Requests that arrive at the settings.
SettingsRequest(c) ==
    /\ \/ \E token \in Tokens, a \in Accounts \cup {Blank} : save_ozon_config(c, token, a)
       \/ \E token \in Tokens, k \in Keys \cup {Blank}, url \in Urls :
            save_openai_config(c, token, k, url)
       \/ \E token \in Tokens, e \in Entries : edit_model_registry(c, token, e)
       \/ \E token \in Tokens, name \in {"lease", "key"}, k \in Keys \cup {Blank} :
            save_secret(c, token, name, k)
       \/ \E l \in Lease : l.device \in shown \cup {Hardware, Elsewhere} /\ save_portal_lease(c, l)
       \/ portal_status(c)
       \/ \E token \in Tokens : config_status(c, token)
       \/ \E token \in Tokens : validate_ozon_config(c, token)
       \/ \E token \in Tokens, kind \in {"read", "poster"} : gated_request(c, kind, token, None, 1)
       \/ \E token \in Tokens, kind \in {"generate", "recognize", "export"}, items \in 0..(MaxBatch + 1) :
            gated_request(c, kind, token, None, items)
       \/ \E token \in Tokens, picture \in Pictures :
            gated_request(c, "relist_push", token, picture, 1)
       \/ \E token \in Tokens, fields \in Drafts \cup ({draft} \ {None}), confirm \in BOOLEAN :
            gated_request(c, "copy_push", token, <<fields, confirm>>, 1)
    /\ UNCHANGED <<pairing, export, listing>>

PairingStep(c) ==
    /\ \/ \E token \in Tokens : start_openclaw_pairing(c, token)
       \/ \E origin \in {"trusted origin", "other origin"}, code \in Codes \cup {Blank} :
            claim_openclaw_pairing(c, origin, code)
       \/ start_locked(c)
       \/ claim_locked(c)
    /\ UNCHANGED <<export, listing>>

ExportStep(c) ==
    /\ \/ relist_export(c)
       \/ run_inject(c)
       \/ run_process(c)
       \/ run_verify(c)
       \/ answer_export(c)
    /\ UNCHANGED <<pairing, listing>>

ListingStep(c) ==
    /\ \/ ozon_products_read(c)
       \/ product_get(c)
       \/ poster_generate(c)
       \/ relist_edit_image(c)
       \/ chat_completion(c)
       \/ relist_push_one(c)
       \/ module3_push_one(c)
       \/ module3_push_write(c)
    /\ UNCHANGED <<pairing, export>>

\* The process ends and is started again.
restart ==
    /\ restart_settings
    /\ restart_engine
    /\ pairings' = [k \in Codes |-> None]
    /\ UNCHANGED <<issued, claims, answered, listing>>

Next ==
    \/ \E c \in Calls : \/ SettingsStep(c) \/ SettingsRequest(c) \/ PairingStep(c)
                        \/ ExportStep(c) \/ ListingStep(c)
    \/ \E a \in Accounts : seller_edit(a) /\ UNCHANGED <<pairing, export>>
    \/ (tick \/ late_write) /\ UNCHANGED <<pairing, export, listing>>
    \/ restart

Spec == Init /\ [][Next]_vars

-----------------------------------------------------------------------------
(* Properties of the settings; those of the other components are stated in   *)
(* their modules.                                                            *)

\* What an empty or unreadable store is worth in memory.
AsLoaded(n) == IF n = "registry" /\ ~ Readable(store[n]) THEN <<>> ELSE store[n]

\* A setting in memory is the setting in the store: whenever no request is under
\* way, the copy of each setting is empty or what a restart would load.  The
\* exceptions are the code's: two saves, or a save and a load, of the setting
\* overlapped; a save was dropped between its two writes; the registry or the lease
\* was loaded in an outage; a put answered in an outage while the keyring had another
\* value; a keyring write that was given up landed on another value.
SettingsAgree ==
    Quiet => \A n \in Cached \ spoiled : cache[n] \in {None, AsLoaded(n)}

\* The console edits one entry of the model registry at a time and posts the whole
\* registry: no entry whose save was acknowledged is ever lost from the store,
\* unless two edits overlapped, or the registry was read or put in an outage or hit
\* by a late write as above.
RegistryKeepsEntries ==
    "registry" \notin spoiled => saved \subseteq SlotsOf(AsLoaded("registry"))

\* The node is one device: every request is answered with the same fingerprint,
\* through restarts and store failures, unless two first requests overlapped, an
\* outage hid the stored fingerprint, a given-up write landed on another one, or the
\* hardware probe changed its answer at a restart.
FingerprintIsStable ==
    "fingerprint" \notin spoiled => Cardinality(shown) <= 1

\* The status pages do not promise what the requests cannot load: when they report
\* an account, a key, the key of a capability or a lease as usable, a request that
\* finds the store answering loads it, whatever mix of memory, environment, store and
\* older keys the setting comes from.  Of a real connector the Ozon credentials are
\* reported exactly.  (The kind of a provider entry is not part of the report.)
StatusIsTruthful ==
    LET registry == IF cache["registry"] # None THEN cache["registry"] ELSE AsLoaded("registry")
        lease == IF cache["lease"] # None THEN cache["lease"] ELSE store["lease"]
        account == load_ozon_credentials(store["ozon"])
    IN  /\ inspect_ozon_credentials => account # Err
        /\ config.use_real_ozon /\ account # Err => inspect_ozon_credentials
        /\ inspect_openai_config => load_openai_config(store["openai"]) # Err
        /\ inspect_cloud_lease => lease.expires > now /\ lease.defect \notin {"forged", "featureless"}
        /\ \A cap \in Capability : inspect_capabilities(registry)[cap] =>
             resolve_capability(registry, cap, store[ProviderRef(registry, cap)]) # Err

\* No request passes the gate without a lease that is signed, grants the feature,
\* was still running when the request arrived, and is bound to this device,
\* wherever the lease came from and however long it was cached.
GateHolds ==
    \A c \in Calls :
        call[c].kind \in Gated /\ ~ GateIsOpen
          /\ call[c].at \notin {"lease", "lease_fill", "fingerprint", "mint"} =>
            LET l == call[c].lease
            IN  /\ l.expires > call[c].since
                /\ l.defect = "no" \/ (l.defect = "unsigned" /\ config.allow_unsigned_lease)
                /\ l.device \in shown
                /\ "fingerprint" \notin spoiled =>
                     l.device = IF config.stable THEN Hardware ELSE store["fingerprint"]
=============================================================================
