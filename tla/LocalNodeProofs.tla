--------------------------- MODULE LocalNodeProofs ---------------------------
(***************************************************************************)
(* Proofs about LocalNode, for every set of calls, settings and worlds.    *)
(*                                                                         *)
(* The invariant is built in layers.  TypeOK says what a request carries   *)
(* at every await (Fits); Moves says how one step may change a request;    *)
(* the layers above are about one promise each and only look at the steps  *)
(* that touch their part of the state.                                     *)
(***************************************************************************)
EXTENDS LocalNode, FiniteSetTheorems, WellFoundedInduction, TLAPS

RequestFields == {"kind", "at", "since", "value", "lease", "account", "product", "todo", "round", "made"}

\* What a request carries, by what it is for and by the await it has reached.
Fits(k) ==
    /\ DOMAIN k = RequestFields /\ k.since \in Nat
    /\ k.at \in {"idle", "done"} => k.kind = None
    /\ k.at \in {"lease", "lease_fill"} => k.kind \in Gated
    /\ k.at = "lease_fill" => k.lease \in Lease
    /\ k.at \in {"fingerprint", "mint"} =>
         \/ k.kind = "portal_status"
         \/ k.kind \in Gated \cup {"save_lease"} /\ k.lease \in Lease
    /\ k.at \in {"registry_fill", "routed"} => k.value[1] \in Seq(ProviderEntry)
    /\ k.at \in {"put", "fill"} =>
         k.kind \in {"save_ozon", "save_openai", "save_registry", "save_lease", "save_secret"}
    /\ k.at = "refs" => k.kind = "save_registry"
    /\ k.at = "persisted" => k.kind = "save_openai"
    /\ k.at = "claim" => k.value \in Codes
    /\ k.kind = "save_ozon" => k.at \in {"put", "fill"} /\ k.value \in Accounts
    /\ k.kind = "save_openai" =>
         k.at = "persisted" \/ (k.at \in {"put", "fill"} /\ k.value \in Keys)
    /\ k.kind = "save_secret" => k.at = "put" /\ k.value \in Keys
    /\ k.kind = "save_lease" =>
         k.at \in {"fingerprint", "mint", "put", "fill"} /\ k.value \in Lease
    /\ k.kind = "save_registry" =>
         \/ k.at = "registry" /\ k.value \in ProviderEntry
         \/ k.at \in {"registry_fill", "routed"} /\ k.value[2] \in ProviderEntry
         \/ k.at \in {"refs", "put", "fill"} /\ k.value \in Seq(ProviderEntry)

\* What a name may hold, in the layers of the store.
Holding(n) == {None, Corrupt} \cup Setting(n)
LayersOK ==
    /\ DOMAIN keyring = Names /\ \A n \in Names : keyring[n] \in Holding(n)
    /\ DOMAIN file = Names /\ \A n \in Names : file[n] \in Holding(n)
    /\ \A w \in late : w[1] \in Names /\ w[2] \in Holding(w[1]) \ {None}
StoreOK == DOMAIN store = Names /\ \A n \in Names : store[n] \in {None, Corrupt} \cup Setting(n)

TypeOK ==
    /\ config \in Config
    /\ now \in Nat
    /\ LayersOK /\ StoreOK
    /\ DOMAIN cache = Cached /\ \A n \in Cached : cache[n] \in {None} \cup Setting(n)
    /\ DOMAIN call = Calls /\ \A c \in Calls : Fits(call[c])

\* A request o becomes k: what it was for, when it arrived and which lease it was
\* admitted with stay, and the awaits are reached in order.
Follows(o, k) ==
    /\ o.at # "done" /\ k.at # "idle"
    /\ o.at = "waiting" => k.at = "done"
    /\ k.at # "done" =>
         \/ o.at = "idle" /\ k.since = now /\ (k.kind \in Gated => k.at = "lease")
         \/ o.at # "idle" /\ k.kind = o.kind /\ k.since = o.since
            /\ (o.at # "lease" => k.lease = o.lease)
    /\ k.at = "lease" => o.at = "idle"
    /\ k.at = "lease_fill" => o.at = "lease"
    /\ k.at = "fingerprint" => o.at \in {"idle", "lease", "lease_fill"}
    /\ k.at = "mint" => o.at = "fingerprint"
    /\ k.at = "engine" => o.at \in {"lease", "fingerprint", "mint"}
    /\ k.at = "waiting" => o.at = "engine"
    /\ k.at = "registry_fill" => o.at = "registry"
    /\ k.at = "routed" => o.at \in {"registry", "registry_fill"}
    /\ k.at = "import" => o.at = "ozon"
    /\ k.at = "refs" => o.at = "routed"
    /\ k.at = "put" => o.at \in {"idle", "fingerprint", "mint", "refs", "persisted"}
    /\ k.at = "fill" => o.at = "put"
    /\ k.at = "inspect" => o.at \in {"fingerprint", "mint"}

\* One request moves on.
Moves(c) ==
    /\ DOMAIN call' = Calls
    /\ \A d \in Calls : d # c => call'[d] = call[d]
    /\ Fits(call'[c])
    /\ Follows(call[c], call'[c])

-----------------------------------------------------------------------------
(* How requests move.                                                      *)

\* A request that is answered or refused is done, with nothing left.
LEMMA DoneIs == Fits(Done) /\ Done.at = "done" /\ Done.kind = None
BY KindsAssumption DEF Done, Idle, Fits, RequestFields

\* A request that arrives.
LEMMA BeginMoves ==
    ASSUME TypeOK, NEW c \in Calls, NEW kind, NEW admitted, NEW place, NEW value,
           Begin(c, kind, admitted, place, value),
           place \notin {"idle", "done", "lease", "lease_fill", "mint", "engine", "waiting",
                         "registry_fill", "routed", "refs", "fill", "import", "inspect"},
           kind \notin Gated,
           admitted => Fits([Idle EXCEPT !.kind = kind, !.at = place, !.since = now, !.value = value])
    PROVE  Moves(c) /\ (call'[c] = Done \/ (admitted /\ call'[c].at = place /\ call'[c].kind = kind
                                              /\ call'[c].value = value))
<1> DEFINE k == [Idle EXCEPT !.kind = kind, !.at = place, !.since = now, !.value = value]
<1>1. call' = [call EXCEPT ![c] = IF admitted THEN k ELSE Done] /\ call[c].at = "idle"
  BY DEF Begin
<1>2. k.at = place /\ k.kind = kind /\ k.since = now /\ k.value = value
  BY DEF Idle
<1>3. admitted => Fits(k)
  OBVIOUS
<1> HIDE DEF k
<1>4. CASE admitted
  BY <1>1, <1>2, <1>3, <1>4 DEF TypeOK, Moves, Follows
<1>5. CASE ~ admitted
  BY <1>1, <1>5, DoneIs DEF TypeOK, Moves, Follows
<1> QED BY <1>4, <1>5

\* A request that ends.
LEMMA FinishMoves ==
    ASSUME TypeOK, NEW c \in Calls, Finish(c), call[c].at # "done"
    PROVE  Moves(c) /\ call'[c] = Done
BY DoneIs DEF Finish, TypeOK, Moves, Follows

\* A request that goes on to the next await as it is.
LEMMA GotoMoves ==
    ASSUME TypeOK, NEW c \in Calls, NEW place, Goto(c, place)
    PROVE  /\ DOMAIN call' = Calls
           /\ \A d \in Calls : d # c => call'[d] = call[d]
           /\ DOMAIN call'[c] = RequestFields
           /\ call'[c].at = place /\ call'[c].kind = call[c].kind
           /\ call'[c].since = call[c].since /\ call'[c].since \in Nat
           /\ call'[c].value = call[c].value
           /\ call'[c].lease = call[c].lease
BY DEF Goto, TypeOK, Fits, RequestFields

\* A readable answer of the store is a setting.
LEMMA AnswerIsSetting ==
    ASSUME TypeOK, NEW n \in Names, NEW answer \in {store[n], file[n], Err}, Readable(answer)
    PROVE  answer \in Setting(n)
BY DEF TypeOK, LayersOK, StoreOK, Holding, Readable

\* The gate: the lease from the copy, the store or the request.
LEMMA LeaseMoves ==
    ASSUME TypeOK, NEW c \in Calls,
           load_cloud_lease(c) \/ load_cloud_lease_stored(c) \/ load_cloud_lease_fill(c)
    PROVE  Moves(c)
<1>1. Fits(call[c]) /\ "lease" \in Names /\ "lease" \in Cached /\ Setting("lease") = Lease
  BY DEF TypeOK, Names, Reserved, Cached, Setting
<1>2. \A kind \in Gated : Admitted(kind) \in {"engine", "cred"}
  BY DEF Admitted
<1>3. CASE Finish(c) /\ call[c].at # "done"
  BY <1>3, FinishMoves
<1>4. CASE call[c].at = "lease" /\ Goto(c, Admitted(call[c].kind))
  <2>1. call[c].kind \in Gated
    BY <1>1, <1>4 DEF Fits
  <2> QED BY <1>1, <1>2, <1>4, <2>1, GotoMoves, KindsAssumption DEF Moves, Follows, Fits, Gated
<1>5. CASE load_cloud_lease(c) /\ ~ GateIsOpen
  <2> DEFINE k == [call[c] EXCEPT !.at = "fingerprint", !.lease = cache["lease"]]
  <2>1. /\ call' = [call EXCEPT ![c] = IF validate_cloud_lease_with_feature(cache["lease"])
                                       THEN k ELSE Done]
        /\ call[c].at = "lease" /\ cache["lease"] \in Lease
    BY <1>1, <1>5 DEF load_cloud_lease, TypeOK
  <2>2. /\ DOMAIN k = RequestFields /\ k.at = "fingerprint" /\ k.lease = cache["lease"]
        /\ k.kind = call[c].kind /\ k.since = call[c].since /\ k.value = call[c].value
    BY <1>1 DEF Fits, RequestFields
  <2> HIDE DEF k
  <2>3. Fits(k) /\ Follows(call[c], k)
    BY <1>1, <2>1, <2>2, KindsAssumption DEF Fits, Follows, Gated
  <2>4. Follows(call[c], Done)
    BY <2>1, DoneIs DEF Follows
  <2> QED BY <2>1, <2>3, <2>4, DoneIs DEF Moves, TypeOK
<1>6. ASSUME load_cloud_lease_stored(c), NEW answer \in {store["lease"], file["lease"], Err},
             Readable(answer), call' = [call EXCEPT ![c].at = "lease_fill", ![c].lease = answer]
      PROVE  Moves(c)
  <2> DEFINE k == [call[c] EXCEPT !.at = "lease_fill", !.lease = answer]
  <2>1. call' = [call EXCEPT ![c] = k] /\ call[c].at = "lease" /\ answer \in Lease
    BY <1>1, <1>6, AnswerIsSetting DEF load_cloud_lease_stored
  <2>2. /\ DOMAIN k = RequestFields /\ k.at = "lease_fill" /\ k.lease = answer
        /\ k.kind = call[c].kind /\ k.since = call[c].since /\ k.value = call[c].value
    BY <1>1 DEF Fits, RequestFields
  <2> HIDE DEF k
  <2>3. Fits(k) /\ Follows(call[c], k)
    BY <1>1, <2>1, <2>2, KindsAssumption DEF Fits, Follows, Gated
  <2> QED BY <2>1, <2>3 DEF Moves, TypeOK
<1>7. CASE load_cloud_lease_fill(c)
  <2> DEFINE k == [call[c] EXCEPT !.at = "fingerprint"]
  <2>1. /\ call' = [call EXCEPT ![c] = IF validate_cloud_lease_with_feature(call[c].lease)
                                       THEN k ELSE Done]
        /\ call[c].at = "lease_fill"
    BY <1>7 DEF load_cloud_lease_fill
  <2>2. /\ DOMAIN k = RequestFields /\ k.at = "fingerprint" /\ k.lease = call[c].lease
        /\ k.kind = call[c].kind /\ k.since = call[c].since /\ k.value = call[c].value
    BY <1>1 DEF Fits, RequestFields
  <2> HIDE DEF k
  <2>3. Fits(k) /\ Follows(call[c], k)
    BY <1>1, <2>1, <2>2, KindsAssumption DEF Fits, Follows, Gated
  <2>4. Follows(call[c], Done)
    BY <2>1, DoneIs DEF Follows
  <2> QED BY <2>1, <2>3, <2>4, DoneIs DEF Moves, TypeOK
<1> QED
  BY <1>3, <1>4, <1>5, <1>6, <1>7 DEF load_cloud_lease, load_cloud_lease_stored

\* Identified: what follows once the fingerprint is known.
LEMMA IdentifiedMoves ==
    ASSUME TypeOK, NEW c \in Calls, NEW fingerprint, NEW lost, Identified(c, fingerprint, lost),
           call[c].at \in {"fingerprint", "mint"}
    PROVE  Moves(c)
<1>1. Fits(call[c])
  BY DEF TypeOK
<1>2. \A kind \in Gated : Admitted(kind) \in {"engine", "cred"}
  BY DEF Admitted
<1>3. CASE Finish(c)
  BY <1>3, FinishMoves
<1>4. CASE call[c].kind = "save_lease" /\ Goto(c, "put")
  BY <1>1, <1>4, GotoMoves DEF Moves, Follows, Fits, Gated
<1>5. CASE call[c].kind \notin {"save_lease", "portal_status"} /\ Goto(c, Admitted(call[c].kind))
  <2>1. call[c].kind \in Gated
    BY <1>1, <1>5 DEF Fits
  <2> QED BY <1>1, <1>2, <1>5, <2>1, GotoMoves, KindsAssumption DEF Moves, Follows, Fits, Gated
<1>6. CASE call[c].kind = "portal_status" /\ Goto(c, "inspect")
  BY <1>1, <1>6, GotoMoves DEF Moves, Follows, Fits, Gated
<1> QED BY <1>3, <1>4, <1>5, <1>6 DEF Identified

\* The fingerprint, and the account.
LEMMA DeviceMoves ==
    ASSUME TypeOK, NEW c \in Calls,
           load_or_create_device_fingerprint(c) \/ mint_fingerprint(c) \/ load_credentials(c)
    PROVE  Moves(c)
<1>1. Fits(call[c])
  BY DEF TypeOK
<1>2. ASSUME NEW f, NEW lost, Identified(c, f, lost), call[c].at \in {"fingerprint", "mint"} PROVE Moves(c)
  BY <1>2, IdentifiedMoves
<1>3. CASE Finish(c) /\ call[c].at # "done"
  BY <1>3, FinishMoves
<1>4. CASE Goto(c, "mint") /\ call[c].at = "fingerprint"
  BY <1>1, <1>4, GotoMoves DEF Moves, Follows, Fits, Gated
<1>5. CASE load_credentials(c)
  <2>1. PICK answer \in {store["ozon"], file["ozon"], Err} :
           call' = [call EXCEPT ![c] =
              IF config.use_real_ozon /\ load_ozon_credentials(answer) # Err
                 /\ call[c].todo \in 1..MaxBatch
              THEN [call[c] EXCEPT !.at = "ozon", !.account = load_ozon_credentials(answer)]
              ELSE Done]
    BY <1>5 DEF load_credentials
  <2> DEFINE k == [call[c] EXCEPT !.at = "ozon", !.account = load_ozon_credentials(answer)]
  <2>2. call[c].at = "cred" /\ (call' = [call EXCEPT ![c] = k] \/ Finish(c))
    BY <1>5, <2>1 DEF load_credentials, Finish
  <2>3. /\ DOMAIN k = RequestFields /\ k.at = "ozon" /\ k.lease = call[c].lease
        /\ k.kind = call[c].kind /\ k.since = call[c].since /\ k.value = call[c].value
    BY <1>1 DEF Fits, RequestFields
  <2> HIDE DEF k
  <2>4. Fits(k) /\ Follows(call[c], k)
    BY <1>1, <2>2, <2>3 DEF Fits, Follows
  <2>5. CASE call' = [call EXCEPT ![c] = k]
    BY <2>4, <2>5 DEF Moves, TypeOK
  <2> QED BY <1>3, <2>2, <2>5
<1>6. CASE load_or_create_device_fingerprint(c)
  BY <1>2, <1>3, <1>4, <1>6 DEF load_or_create_device_fingerprint
<1>7. CASE mint_fingerprint(c)
  BY <1>2, <1>3, <1>7 DEF mint_fingerprint
<1> QED BY <1>5, <1>6, <1>7

\* The console's edit leaves a registry that has every slot it had, and the new one.
LEMMA MergeKeepsSlots ==
    ASSUME NEW registry \in Seq(ProviderEntry), NEW e \in ProviderEntry
    PROVE  /\ MergeEntry(registry, e) \in Seq(ProviderEntry)
           /\ SlotsOf(registry) \subseteq SlotsOf(MergeEntry(registry, e))
<1>1. CASE Slot(e) \in SlotsOf(registry)
  <2> DEFINE merged == [i \in 1..Len(registry) |->
                           IF Slot(registry[i]) = Slot(e) THEN e ELSE registry[i]]
  <2>1. MergeEntry(registry, e) = merged
    BY <1>1 DEF MergeEntry
  <2>2. \A i \in 1..Len(registry) : registry[i] \in ProviderEntry
    OBVIOUS
  <2>3. merged \in Seq(ProviderEntry) /\ Len(merged) = Len(registry)
    BY <2>2
  <2>4. \A i \in 1..Len(registry) : Slot(merged[i]) = Slot(registry[i])
    OBVIOUS
  <2> HIDE DEF merged
  <2> QED BY <2>1, <2>3, <2>4 DEF SlotsOf
<1>2. CASE Slot(e) \notin SlotsOf(registry)
  <2> DEFINE merged == Append(registry, e)
  <2>1. MergeEntry(registry, e) = merged
    BY <1>2 DEF MergeEntry
  <2>2. merged \in Seq(ProviderEntry) /\ Len(merged) = Len(registry) + 1 /\ Len(registry) \in Nat
    OBVIOUS
  <2>3. \A i \in 1..Len(registry) : merged[i] = registry[i] /\ i \in 1..Len(merged)
    BY <2>2
  <2> HIDE DEF merged
  <2> QED BY <2>1, <2>2, <2>3 DEF SlotsOf
<1> QED BY <1>1, <1>2

\* The registry is loaded from the copy or the store, and edited.
LEMMA RegistryMoves ==
    ASSUME TypeOK, NEW c \in Calls,
           \/ load_persisted_model_registry(c) \/ load_persisted_model_registry_stored(c)
           \/ load_persisted_model_registry_fill(c) \/ get_model_registry(c)
           \/ save_model_registry(c) \/ inspect_settings(c)
    PROVE  Moves(c)
<1>1. /\ Fits(call[c]) /\ "registry" \in Names /\ "registry" \in Cached
      /\ Setting("registry") = Seq(ProviderEntry)
  BY DEF TypeOK, Names, Reserved, Cached, Setting
<1>2. CASE Finish(c) /\ call[c].at # "done"
  BY <1>2, FinishMoves
<1>3. ASSUME NEW place \in {"registry_fill", "routed"}, NEW registry \in Seq(ProviderEntry),
             call[c].at = "registry",
             call' = [call EXCEPT ![c].at = place, ![c].value = <<registry, call[c].value>>]
      PROVE  Moves(c)
  <2> DEFINE k == [call[c] EXCEPT !.at = place, !.value = <<registry, call[c].value>>]
  <2>1. call' = [call EXCEPT ![c] = k]
    BY <1>3
  <2>2. /\ DOMAIN k = RequestFields /\ k.at = place /\ k.lease = call[c].lease
        /\ k.kind = call[c].kind /\ k.since = call[c].since
        /\ k.value[1] = registry /\ k.value[2] = call[c].value
    BY <1>1 DEF Fits, RequestFields
  <2> HIDE DEF k
  <2>3. Fits(k) /\ Follows(call[c], k)
    BY <1>1, <1>3, <2>2 DEF Fits, Follows, Gated
  <2> QED BY <2>1, <2>3 DEF Moves, TypeOK
<1>4. CASE load_persisted_model_registry(c)
  <2>1. cache["registry"] \in Seq(ProviderEntry)
    BY <1>1, <1>4 DEF load_persisted_model_registry, TypeOK
  <2>2. call' = [call EXCEPT ![c].at = "routed", ![c].value = <<cache["registry"], call[c].value>>]
    BY <1>1, <1>4 DEF load_persisted_model_registry, TypeOK, Fits, RequestFields
  <2> QED BY <1>3, <1>4, <2>1, <2>2 DEF load_persisted_model_registry
<1>5. CASE load_persisted_model_registry_stored(c)
  <2>1. PICK answer \in {store["registry"], file["registry"], Err} :
           call' = [call EXCEPT ![c].at = "registry_fill",
                      ![c].value = <<IF Readable(answer) THEN answer ELSE <<>>, call[c].value>>]
    BY <1>1, <1>5 DEF load_persisted_model_registry_stored, TypeOK, Fits, RequestFields
  <2>2. PICK registry \in Seq(ProviderEntry) :
           registry = IF Readable(answer) THEN answer ELSE <<>>
    <3>1. <<>> \in Seq(ProviderEntry)
      OBVIOUS
    <3>2. Readable(answer) => answer \in Seq(ProviderEntry)
      BY <1>1, AnswerIsSetting
    <3> QED BY <3>1, <3>2
  <2> QED BY <1>3, <1>5, <2>1, <2>2 DEF load_persisted_model_registry_stored
<1>6. CASE load_persisted_model_registry_fill(c)
  BY <1>1, <1>6, GotoMoves DEF load_persisted_model_registry_fill, Moves, Follows, Fits, Gated
<1>7. CASE get_model_registry(c)
  <2> DEFINE merged == MergeEntry(call[c].value[1], call[c].value[2])
             k == [call[c] EXCEPT !.at = "refs", !.value = merged]
  <2>1. merged \in Seq(ProviderEntry)
    BY <1>1, <1>7, MergeKeepsSlots DEF get_model_registry, Fits
  <2>2. call' = [call EXCEPT ![c] = k] /\ call[c].at = "routed" /\ call[c].kind = "save_registry"
    BY <1>1, <1>7 DEF get_model_registry, TypeOK, Fits, RequestFields
  <2> HIDE DEF merged
  <2>3. /\ DOMAIN k = RequestFields /\ k.at = "refs" /\ k.lease = call[c].lease
        /\ k.kind = call[c].kind /\ k.since = call[c].since /\ k.value = merged
    BY <1>1 DEF Fits, RequestFields
  <2> HIDE DEF k
  <2>4. Fits(k) /\ Follows(call[c], k)
    BY <1>1, <2>1, <2>2, <2>3 DEF Fits, Follows, Gated
  <2> QED BY <2>2, <2>4 DEF Moves, TypeOK
<1>8. CASE save_model_registry(c) /\ Goto(c, "put")
  BY <1>1, <1>8, GotoMoves DEF save_model_registry, Moves, Follows, Fits, Gated
<1> QED BY <1>2, <1>4, <1>5, <1>6, <1>7, <1>8 DEF save_model_registry, inspect_settings

\* What a save puts is a setting of its name.
LEMMA SaveIs ==
    ASSUME NEW k, Fits(k), k.at \in {"put", "fill"}
    PROVE  /\ Target(k.kind) \in (IF k.at = "fill" THEN Cached ELSE Cached \cup {"key"})
           /\ k.value \in Setting(Target(k.kind))
           /\ Target(k.kind) = "registry" <=> k.kind = "save_registry"
BY DEF Fits, Target, Setting, Cached

\* The saves of the settings, and a client that disconnects.
LEMMA SaveMoves ==
    ASSUME TypeOK, NEW c \in Calls,
           \/ load_persisted_openai_config(c) \/ put_setting(c) \/ fill_setting(c) \/ drop_call(c)
    PROVE  Moves(c)
<1>1. /\ Fits(call[c]) /\ "openai" \in Names /\ "openai" \in Cached /\ Setting("openai") = Keys
  BY DEF TypeOK, Names, Reserved, Cached, Setting
<1>2. CASE Finish(c) /\ call[c].at # "done"
  BY <1>2, FinishMoves
<1>3. CASE load_persisted_openai_config(c)
  <2>1. PICK answer \in {store["openai"], file["openai"], Err} :
           LET key == IF cache["openai"] # None THEN cache["openai"] ELSE answer
           IN  IF Readable(key)
               THEN call' = [call EXCEPT ![c].at = "put", ![c].value = key]
               ELSE Finish(c)
    BY <1>3 DEF load_persisted_openai_config
  <2>2. PICK key : key = IF cache["openai"] # None THEN cache["openai"] ELSE answer
    OBVIOUS
  <2>3. CASE ~ Readable(key)
    BY <1>2, <1>3, <2>1, <2>2, <2>3 DEF load_persisted_openai_config
  <2>4. CASE Readable(key)
    <3> DEFINE k == [call[c] EXCEPT !.at = "put", !.value = key]
    <3>1. call' = [call EXCEPT ![c] = k] /\ call[c].at = "persisted"
      BY <1>3, <2>1, <2>2, <2>4 DEF load_persisted_openai_config
    <3>2. key \in Keys
      <4>1. CASE cache["openai"] # None
        BY <1>1, <2>2, <4>1 DEF TypeOK
      <4>2. CASE cache["openai"] = None
        BY <1>1, <2>2, <2>4, <4>2, AnswerIsSetting
      <4> QED BY <4>1, <4>2
    <3>3. /\ DOMAIN k = RequestFields /\ k.at = "put" /\ k.lease = call[c].lease
          /\ k.kind = call[c].kind /\ k.since = call[c].since /\ k.value = key
      BY <1>1 DEF Fits, RequestFields
    <3> HIDE DEF k
    <3>4. Fits(k) /\ Follows(call[c], k)
      BY <1>1, <3>1, <3>2, <3>3 DEF Fits, Follows, Gated
    <3> QED BY <3>1, <3>4 DEF Moves, TypeOK
  <2> QED BY <2>3, <2>4
<1>4. CASE put_setting(c) /\ Target(call[c].kind) \in Cached /\ Goto(c, "fill")
  <2>1. call[c].kind # "save_secret"
    BY <1>4 DEF Target, Cached
  <2> QED BY <1>1, <1>4, <2>1, GotoMoves DEF put_setting, Moves, Follows, Fits, Gated
<1> QED BY <1>2, <1>3, <1>4 DEF put_setting, fill_setting, drop_call

\* A request of the given kind that has just arrived.
Arrived(kind, place, value) ==
    [Idle EXCEPT !.kind = kind, !.at = place, !.since = now, !.value = value]

\* Requests that write a setting, or read the settings.
LEMMA RequestMoves ==
    ASSUME TypeOK, NEW c \in Calls, NEW token
    PROVE  /\ \A a : save_ozon_config(c, token, a) => Moves(c)
           /\ \A url : \A k \in Keys \cup {Blank} : save_openai_config(c, token, k, url) => Moves(c)
           /\ \A e \in Entries : edit_model_registry(c, token, e) => Moves(c)
           /\ \A name, k : save_secret(c, token, name, k) => Moves(c)
           /\ portal_status(c) => Moves(c)
           /\ config_status(c, token) => Moves(c)
           /\ start_openclaw_pairing(c, token) => Moves(c)
           /\ \A origin : \A code \in Codes \cup {Blank} :
                claim_openclaw_pairing(c, origin, code) => Moves(c)
<1>1. now \in Nat
  BY DEF TypeOK
<1>2. \A a \in Accounts : Fits(Arrived("save_ozon", "put", a))
  BY <1>1 DEF Arrived, Idle, Fits, RequestFields, Gated
<1>3. /\ Fits(Arrived("save_openai", "persisted", Blank))
      /\ \A k \in Keys : Fits(Arrived("save_openai", "put", k))
  BY <1>1 DEF Arrived, Idle, Fits, RequestFields, Gated
<1>4. \A e \in Entries : Fits(Arrived("save_registry", "registry", e))
  BY <1>1, ValuesAssumption DEF Arrived, Idle, Fits, RequestFields, Gated
<1>5. \A k \in Keys : Fits(Arrived("save_secret", "put", k))
  BY <1>1 DEF Arrived, Idle, Fits, RequestFields, Gated
<1>6. /\ Fits(Arrived("portal_status", "fingerprint", None))
      /\ Fits(Arrived("config_status", "registry", None))
      /\ Fits(Arrived("start_pairing", "start", None))
      /\ \A code \in Codes : Fits(Arrived("claim_pairing", "claim", code))
  BY <1>1 DEF Arrived, Idle, Fits, RequestFields, Gated
<1>7. ASSUME NEW kind, NEW admitted, NEW place, NEW value, Begin(c, kind, admitted, place, value),
             place \in {"put", "persisted", "registry", "fingerprint", "start", "claim"},
             kind \notin Gated,
             admitted => Fits(Arrived(kind, place, value))
      PROVE  Moves(c)
  BY <1>7, BeginMoves DEF Arrived
<1> HIDE DEF Arrived
<1>8. ASSUME NEW a, save_ozon_config(c, token, a) PROVE Moves(c)
  BY <1>2, <1>7, <1>8 DEF save_ozon_config, Gated
<1>9. ASSUME NEW k \in Keys \cup {Blank}, NEW url, save_openai_config(c, token, k, url)
      PROVE  Moves(c)
  <2>1. CASE k = Blank
    BY <1>3, <1>7, <1>9, <2>1 DEF save_openai_config, Gated
  <2>2. CASE k # Blank
    BY <1>3, <1>7, <1>9, <2>2 DEF save_openai_config, Gated
  <2> QED BY <2>1, <2>2
<1>10. ASSUME NEW e \in Entries, edit_model_registry(c, token, e) PROVE Moves(c)
  BY <1>4, <1>7, <1>10 DEF edit_model_registry, Gated
<1>11. ASSUME NEW name, NEW k, save_secret(c, token, name, k) PROVE Moves(c)
  BY <1>5, <1>7, <1>11 DEF save_secret, Gated
<1>12. ASSUME portal_status(c) \/ config_status(c, token) \/ start_openclaw_pairing(c, token)
       PROVE  Moves(c)
  BY <1>6, <1>7, <1>12 DEF portal_status, config_status, start_openclaw_pairing, Gated
<1>13. ASSUME NEW origin, NEW code \in Codes \cup {Blank}, claim_openclaw_pairing(c, origin, code)
       PROVE  Moves(c)
  BY <1>6, <1>7, <1>13 DEF claim_openclaw_pairing, Gated
<1> QED BY <1>8, <1>9, <1>10, <1>11, <1>12, <1>13

\* Requests that have to pass the gate, or bring a lease.
LEMMA GatedMoves ==
    ASSUME TypeOK, NEW c \in Calls, NEW token
    PROVE  /\ \A l \in Lease : save_portal_lease(c, l) => Moves(c)
           /\ validate_ozon_config(c, token) => Moves(c)
           /\ \A kind, value, items : gated_request(c, kind, token, value, items) => Moves(c)
<1>1. now \in Nat
  BY DEF TypeOK
<1>2. ASSUME NEW k, Fits(k), k.at \in {"fingerprint", "cred", "lease"}, k.since = now,
             k.kind \in Gated => k.at = "lease", call[c].at = "idle",
             call' = [call EXCEPT ![c] = k] \/ call' = [call EXCEPT ![c] = Done]
      PROVE  Moves(c)
  <2>1. Follows(call[c], k) /\ Follows(call[c], Done)
    BY <1>2, DoneIs DEF Follows
  <2> QED BY <1>2, <2>1, DoneIs DEF Moves, TypeOK
<1>3. ASSUME NEW l \in Lease, save_portal_lease(c, l) PROVE Moves(c)
  <2> DEFINE k == [Idle EXCEPT !.kind = "save_lease", !.at = "fingerprint", !.since = now,
                               !.value = l, !.lease = l]
  <2>1. /\ call[c].at = "idle"
        /\ call' = [call EXCEPT ![c] = k] \/ call' = [call EXCEPT ![c] = Done]
    BY <1>3 DEF save_portal_lease
  <2>2. Fits(k) /\ k.at = "fingerprint" /\ k.since = now /\ k.kind \notin Gated
    BY <1>1 DEF Idle, Fits, RequestFields, Gated
  <2> HIDE DEF k
  <2> QED BY <1>2, <2>1, <2>2
<1>4. ASSUME validate_ozon_config(c, token) PROVE Moves(c)
  <2> DEFINE k == [Idle EXCEPT !.kind = "validate", !.at = "cred", !.since = now, !.todo = 1]
  <2>1. /\ call[c].at = "idle"
        /\ call' = [call EXCEPT ![c] = k] \/ call' = [call EXCEPT ![c] = Done]
    BY <1>4 DEF validate_ozon_config
  <2>2. Fits(k) /\ k.at = "cred" /\ k.since = now /\ k.kind \notin Gated
    BY <1>1 DEF Idle, Fits, RequestFields, Gated
  <2> HIDE DEF k
  <2> QED BY <1>2, <2>1, <2>2
<1>5. ASSUME NEW kind, NEW value, NEW items, gated_request(c, kind, token, value, items)
      PROVE  Moves(c)
  <2> DEFINE k == [Idle EXCEPT !.kind = kind, !.at = "lease", !.since = now, !.value = value,
                               !.todo = items]
  <2>1. /\ call[c].at = "idle" /\ kind \in Gated
        /\ call' = [call EXCEPT ![c] = k] \/ call' = [call EXCEPT ![c] = Done]
    BY <1>5 DEF gated_request
  <2>2. /\ DOMAIN k = RequestFields /\ k.at = "lease" /\ k.since = now /\ k.kind = kind
    BY DEF Idle, RequestFields
  <2> HIDE DEF k
  <2>3. Fits(k)
    BY <1>1, <2>1, <2>2 DEF Fits, Gated
  <2> QED BY <1>2, <2>1, <2>2, <2>3
<1> QED BY <1>3, <1>4, <1>5

\* The pairing table, and the export: the handler waits for its pipeline.
LEMMA OtherMoves ==
    ASSUME TypeOK, NEW c \in Calls,
           start_locked(c) \/ claim_locked(c) \/ relist_export(c) \/ answer_export(c)
    PROVE  Moves(c)
<1>1. Fits(call[c])
  BY DEF TypeOK
<1>2. CASE Finish(c) /\ call[c].at # "done"
  BY <1>2, FinishMoves
<1>3. CASE call[c].at = "engine" /\ Goto(c, "waiting")
  BY <1>1, <1>3, GotoMoves DEF Moves, Follows, Fits, Gated
<1> QED BY <1>2, <1>3 DEF start_locked, claim_locked, relist_export, answer_export

\* A batch goes on to its next item, or is answered.
LEMMA NextItemMoves ==
    ASSUME TypeOK, NEW c \in Calls, NextItem(c),
           call[c].at \in {"ozon", "routed", "import", "dictionary", "update"},
           call[c].kind # "save_registry"
    PROVE  Moves(c)
<1> DEFINE k == [call[c] EXCEPT !.at = "ozon", !.todo = call[c].todo - 1, !.product = None,
                                !.round = 0, !.made = {}]
<1>1. Fits(call[c])
  BY DEF TypeOK
<1>2. call' = [call EXCEPT ![c] = k] \/ Finish(c)
  BY DEF NextItem, Finish
<1>3. /\ DOMAIN k = RequestFields /\ k.at = "ozon" /\ k.lease = call[c].lease
      /\ k.kind = call[c].kind /\ k.since = call[c].since /\ k.value = call[c].value
  BY <1>1 DEF Fits, RequestFields
<1> HIDE DEF k
<1>4. Fits(k) /\ Follows(call[c], k)
  BY <1>1, <1>3 DEF Fits, Follows
<1>5. CASE call' = [call EXCEPT ![c] = k]
  BY <1>4, <1>5 DEF Moves, TypeOK
<1> QED BY <1>2, <1>5, FinishMoves

\* The reads from Ozon and the write-backs.
LEMMA ListingMoves ==
    ASSUME TypeOK, NEW c \in Calls, ListingStep(c)
    PROVE  Moves(c)
<1>1. Fits(call[c])
  BY DEF TypeOK
<1>2. CASE Finish(c) /\ call[c].at # "done"
  BY <1>2, FinishMoves
<1>3. CASE /\ NextItem(c) /\ call[c].at \in {"ozon", "routed", "import", "dictionary", "update"}
           /\ call[c].kind # "save_registry"
  BY <1>3, NextItemMoves
<1>4. call[c].at \in {"ozon", "import", "dictionary", "update"} =>
          call[c].kind \notin {"save_registry", "save_ozon", "save_openai", "save_lease", "save_secret"}
  BY <1>1 DEF Fits
<1>5. CASE ozon_products_read(c) \/ poster_generate(c)
  BY <1>2, <1>5 DEF ozon_products_read, poster_generate
<1>6. CASE chat_completion(c)
  BY <1>3, <1>6 DEF chat_completion
<1>7. CASE relist_push_one(c)
  BY <1>3, <1>4, <1>7 DEF relist_push_one
<1>8. CASE module3_push_one(c)
  <2>1. CASE Goto(c, "update")
    BY <1>1, <1>4, <1>8, <2>1, GotoMoves DEF module3_push_one, Moves, Follows, Fits
  <2> QED BY <1>3, <1>4, <1>8, <2>1 DEF module3_push_one
<1>9. CASE module3_push_write(c)
  BY <1>3, <1>4, <1>9 DEF module3_push_write
<1>10. ASSUME product_get(c), NEW product,
              call' = [call EXCEPT ![c].at = AfterGet(call[c].kind), ![c].product = product]
       PROVE  Moves(c)
  <2> DEFINE k == [call[c] EXCEPT !.at = AfterGet(call[c].kind), !.product = product]
  <2>1. call' = [call EXCEPT ![c] = k] /\ call[c].at = "ozon"
    BY <1>10 DEF product_get
  <2>2. AfterGet(call[c].kind) \in {"import", "dictionary", "registry"}
    BY DEF AfterGet
  <2>3. /\ DOMAIN k = RequestFields /\ k.at \in {"import", "dictionary", "registry"}
        /\ k.lease = call[c].lease /\ k.kind = call[c].kind /\ k.since = call[c].since
    BY <1>1, <2>2 DEF Fits, RequestFields
  <2> HIDE DEF k
  <2>4. Fits(k) /\ Follows(call[c], k)
    BY <1>1, <1>4, <2>1, <2>3 DEF Fits, Follows, Gated
  <2> QED BY <2>1, <2>4 DEF Moves, TypeOK
<1>11. CASE product_get(c)
  <2>1. CASE NextItem(c)
    BY <1>3, <1>4, <1>11, <2>1 DEF product_get
  <2> QED BY <1>10, <1>11, <2>1 DEF product_get
<1>12. CASE relist_edit_image(c)
  <2>1. CASE NextItem(c)
    BY <1>3, <1>12, <2>1 DEF relist_edit_image
  <2>2. ASSUME NEW round, NEW made,
               call' = [call EXCEPT ![c].at = "registry", ![c].round = round, ![c].made = made,
                                    ![c].value = call[c].value[2]]
        PROVE  Moves(c)
    <3> DEFINE k == [call[c] EXCEPT !.at = "registry", !.round = round, !.made = made,
                                    !.value = call[c].value[2]]
    <3>1. call' = [call EXCEPT ![c] = k] /\ call[c].at = "routed" /\ call[c].kind = "generate"
      BY <1>12, <2>2 DEF relist_edit_image
    <3>2. /\ DOMAIN k = RequestFields /\ k.at = "registry"
          /\ k.lease = call[c].lease /\ k.kind = call[c].kind /\ k.since = call[c].since
      BY <1>1 DEF Fits, RequestFields
    <3> HIDE DEF k
    <3>3. Fits(k) /\ Follows(call[c], k)
      BY <1>1, <3>1, <3>2 DEF Fits, Follows, Gated
    <3> QED BY <3>1, <3>3 DEF Moves, TypeOK
  <2>3. CASE call[c].round + 1 = MaxCandidates
    BY <1>12, <2>1, <2>3 DEF relist_edit_image
  <2>4. CASE call[c].round + 1 # MaxCandidates
    <3>1. PICK made : call' = [call EXCEPT ![c].at = "registry", ![c].round = call[c].round + 1,
                                           ![c].made = made, ![c].value = @[2]]
      BY <1>12, <2>4 DEF relist_edit_image
    <3>2. call' = [call EXCEPT ![c].at = "registry", ![c].round = call[c].round + 1,
                               ![c].made = made, ![c].value = call[c].value[2]]
      BY <1>1, <3>1 DEF TypeOK, Fits, RequestFields
    <3> QED BY <2>2, <3>2
  <2> QED BY <2>3, <2>4
<1> QED
  BY <1>5, <1>6, <1>7, <1>8, <1>9, <1>11, <1>12 DEF ListingStep

\* Every step of a request moves it as it should; those of its pipeline do not.
LEMMA RequestsMove ==
    ASSUME TypeOK, NEW c \in Calls,
           SettingsStep(c) \/ SettingsRequest(c) \/ PairingStep(c) \/ ExportStep(c) \/ ListingStep(c)
    PROVE  Moves(c) \/ (ExportStep(c) /\ UNCHANGED call)
<1>1. CASE SettingsStep(c)
  BY <1>1, LeaseMoves, DeviceMoves, RegistryMoves, SaveMoves DEF SettingsStep
<1>2. CASE SettingsRequest(c)
  BY <1>2, RequestMoves, GatedMoves DEF SettingsRequest
<1>3. CASE PairingStep(c)
  BY <1>3, RequestMoves, OtherMoves DEF PairingStep
<1>4. CASE ExportStep(c)
  BY <1>4, OtherMoves DEF ExportStep, run_inject, run_process, run_verify
<1>5. CASE ListingStep(c)
  BY <1>5, ListingMoves
<1> QED BY <1>1, <1>2, <1>3, <1>4, <1>5

-----------------------------------------------------------------------------
(* Types.                                                                  *)

LEMMA StoreIs == LayersOK => StoreOK
BY DEF LayersOK, StoreOK, Holding, store

LEMMA StoreIsNext == LayersOK' => StoreOK'
BY DEF LayersOK, StoreOK, Holding, store

LEMMA StoreStays ==
    ASSUME UNCHANGED <<keyring, file>>
    PROVE  store' = store
BY DEF store

\* A read moves values between the layers: what reads answer stays the same.
LEMMA SettleKeeps ==
    ASSUME LayersOK, NEW names, Settle(names), UNCHANGED late
    PROVE  LayersOK' /\ store' = store
<1>1. StoreOK
  BY StoreIs
<1>2. /\ DOMAIN keyring' = Names /\ DOMAIN file' = Names
      /\ \A n \in Names : /\ keyring'[n] = IF n \in names THEN store[n] ELSE keyring[n]
                          /\ file'[n] = IF n \in names THEN None ELSE file[n]
  BY DEF Settle
<1>3. LayersOK'
  BY <1>1, <1>2 DEF LayersOK, StoreOK, Holding
<1>4. \A n \in Names : store'[n] = store[n]
  <2> SUFFICES ASSUME NEW n \in Names PROVE store'[n] = store[n]
    OBVIOUS
  <2>1. /\ store'[n] = IF keyring'[n] # None THEN keyring'[n] ELSE file'[n]
        /\ store[n] = IF keyring[n] # None THEN keyring[n] ELSE file[n]
    BY DEF store
  <2> QED BY <1>2, <2>1
<1>5. store' = store
  BY <1>4 DEF store
<1> QED BY <1>3, <1>5

\* The writes that moves leave behind are of values of their names.
LEMMA MovingIs ==
    ASSUME LayersOK, NEW names \in SUBSET Names, NEW more \in SUBSET Moving(names),
           late' = late \cup more, UNCHANGED <<keyring, file>>
    PROVE  LayersOK'
<1>1. \A w \in Moving(names) : w[1] \in Names /\ w[2] \in Holding(w[1]) \ {None}
  BY DEF Moving, LayersOK
<1> QED BY <1>1 DEF LayersOK

LEMMA GetKeeps ==
    ASSUME LayersOK, NEW n \in Names, NEW answer, Get(n, answer)
    PROVE  LayersOK' /\ store' = store
<1>1. CASE Settle({n}) /\ UNCHANGED late
  BY <1>1, SettleKeeps
<1>2. CASE late' = late \cup Moving({n}) /\ UNCHANGED <<keyring, file>>
  BY <1>2, MovingIs, StoreStays
<1>3. CASE UNCHANGED <<keyring, file, late>>
  BY <1>3, StoreStays DEF LayersOK
<1> QED BY <1>1, <1>2, <1>3 DEF Get, layers

LEMMA SkipKeeps ==
    ASSUME LayersOK, NEW n, NEW answer, Skip(n, answer)
    PROVE  LayersOK' /\ store' = store
BY StoreStays DEF Skip, LayersOK

LEMMA InspectKeeps ==
    ASSUME LayersOK, NEW names \in SUBSET Names, Inspect(names)
    PROVE  LayersOK' /\ store' = store
<1>1. PICK read \in SUBSET {n \in names : file[n] # None} :
         /\ Settle(read)
         /\ late' \in {late} \cup {late \cup {w} : w \in Moving(names \ read)}
  BY DEF Inspect
<1>2. /\ DOMAIN keyring' = Names /\ DOMAIN file' = Names
      /\ \A n \in Names : /\ keyring'[n] = IF n \in read THEN store[n] ELSE keyring[n]
                          /\ file'[n] = IF n \in read THEN None ELSE file[n]
  BY <1>1 DEF Settle
<1>3. \A w \in Moving(names \ read) : w[1] \in Names /\ w[2] \in Holding(w[1]) \ {None}
  BY DEF Moving, LayersOK
<1>4. \A w \in late' : w[1] \in Names /\ w[2] \in Holding(w[1]) \ {None}
  BY <1>1, <1>3 DEF LayersOK
<1>5. LayersOK'
  BY <1>2, <1>4, StoreIs DEF LayersOK, StoreOK, Holding
<1>6. \A n \in Names : store'[n] = store[n]
  <2> SUFFICES ASSUME NEW n \in Names PROVE store'[n] = store[n]
    OBVIOUS
  <2>1. /\ store'[n] = IF keyring'[n] # None THEN keyring'[n] ELSE file'[n]
        /\ store[n] = IF keyring[n] # None THEN keyring[n] ELSE file[n]
    BY DEF store
  <2> QED BY <1>2, <2>1
<1>7. store' = store
  BY <1>6 DEF store
<1> QED BY <1>5, <1>7

\* A put that is not lost is what reads answer, and touches no other name.
LEMMA PutStores ==
    ASSUME LayersOK, NEW n \in Names, NEW v \in Setting(n), NEW lost, Put(n, v, lost)
    PROVE  /\ LayersOK'
           /\ lost \in {{}, {n}}
           /\ lost = {} => store'[n] = v
           /\ \A m \in Names : m # n => store'[m] = store[m]
<1>1. v # None /\ v \in Holding(n)
  BY ValuesAssumption DEF Holding
<1>2. \A m \in Names : /\ store'[m] = IF keyring'[m] # None THEN keyring'[m] ELSE file'[m]
                       /\ store[m] = IF keyring[m] # None THEN keyring[m] ELSE file[m]
  BY DEF store
<1>3. CASE /\ keyring' = [keyring EXCEPT ![n] = v] /\ file' = [file EXCEPT ![n] = None]
           /\ lost = {} /\ UNCHANGED late
  BY <1>1, <1>2, <1>3 DEF LayersOK, Holding
<1>4. CASE /\ file' = [file EXCEPT ![n] = v] /\ late' \in {late, late \cup {<<n, v>>}}
           /\ lost = (IF keyring[n] \in {None, v} THEN {} ELSE {n})
           /\ UNCHANGED keyring
  <2>1. LayersOK'
    BY <1>1, <1>4 DEF LayersOK
  <2>2. /\ \A m \in Names : m # n => file'[m] = file[m]
        /\ file'[n] = v
    BY <1>4 DEF LayersOK
  <2> QED BY <1>1, <1>2, <1>4, <2>1, <2>2
<1> QED BY <1>3, <1>4 DEF Put

LEMMA PutFailsKeeps ==
    ASSUME LayersOK, NEW n \in Names, NEW v \in Setting(n), PutFails(n, v)
    PROVE  LayersOK' /\ store' = store
<1>1. v # None /\ v \in Holding(n)
  BY ValuesAssumption DEF Holding
<1> QED BY <1>1, StoreStays DEF PutFails, LayersOK

\* A late write changes what reads answer for a spoiled name only.
LEMMA LateWriteKeeps ==
    ASSUME LayersOK, late_write
    PROVE  /\ LayersOK'
           /\ spoiled \subseteq spoiled'
           /\ \A m \in Names : m \in spoiled' \/ store'[m] = store[m]
<1>1. PICK w \in late :
         /\ late' = late \ {w}
         /\ keyring' = [keyring EXCEPT ![w[1]] = w[2]]
         /\ spoiled' = IF store[w[1]] = w[2] THEN spoiled ELSE spoiled \cup {w[1]}
         /\ UNCHANGED file
  BY DEF late_write
<1>2. PICK n, v : n = w[1] /\ v = w[2]
  OBVIOUS
<1>3. n \in Names /\ v \in Holding(n) /\ v # None
  BY <1>2 DEF LayersOK
<1>4. LayersOK'
  BY <1>1, <1>2, <1>3 DEF LayersOK
<1>5. \A m \in Names : /\ store'[m] = IF keyring'[m] # None THEN keyring'[m] ELSE file'[m]
                       /\ store[m] = IF keyring[m] # None THEN keyring[m] ELSE file[m]
  BY DEF store
<1>6. \A m \in Names : keyring'[m] = IF m = n THEN v ELSE keyring[m]
  BY <1>1, <1>2, <1>3 DEF LayersOK
<1>7. \A m \in Names : m # n => store'[m] = store[m]
  BY <1>1, <1>5, <1>6
<1>8. store'[n] = v
  BY <1>3, <1>5, <1>6
<1> QED BY <1>1, <1>2, <1>3, <1>4, <1>7, <1>8

LEMMA TypeInit == Init => TypeOK
<1> SUFFICES ASSUME Init PROVE TypeOK
  OBVIOUS
<1>1. Fits(Done)
  BY DoneIs
<1>2. Fits(Idle)
  BY KindsAssumption DEF Idle, Fits, RequestFields
<1>3. PICK w \in Worlds :
         /\ config = w.config /\ keyring = w.keyring /\ file = w.file /\ now = w.now
         /\ call = [c \in Calls |-> IF c \in w.calls THEN Idle ELSE Done]
  BY DEF Init, SettingsInit
<1>4. /\ config \in Config /\ DOMAIN keyring = Names /\ DOMAIN file = Names
      /\ \A n \in Names : {keyring[n], file[n]} \subseteq {None, Corrupt} \cup Setting(n)
  BY <1>3, WorldsAssumption, Zenon
<1>5. LayersOK /\ StoreOK
  <2>1. late = {}
    BY DEF Init, SettingsInit
  <2> QED BY <1>4, <2>1, StoreIs DEF LayersOK, Holding
<1>6. now \in Nat
  <2>1. now \in 0..MaxTime
    BY <1>3, WorldsAssumption, Zenon
  <2>2. MaxTime \in Nat
    BY SettingsAssumption, Zenon
  <2> QED BY <2>1, <2>2
<1>7. DOMAIN cache = Cached /\ \A n \in Cached : cache[n] = None
  BY DEF Init, SettingsInit
<1>8. DOMAIN call = Calls /\ \A c \in Calls : Fits(call[c])
  BY <1>1, <1>2, <1>3
<1> QED BY <1>4, <1>5, <1>6, <1>7, <1>8 DEF TypeOK

\* What a request stores is a setting, and the layers are of their types.
LEMMA WritesKeepLayers ==
    ASSUME TypeOK, NEW c \in Calls,
           mint_fingerprint(c) \/ put_setting(c) \/ drop_call(c)
    PROVE  LayersOK'
<1>1. Fits(call[c]) /\ LayersOK /\ Cached \subseteq Names /\ "key" \in Names
  BY DEF TypeOK, Names, Reserved
<1>2. /\ "fingerprint" \in Names
      /\ \A f \in Fresh : f \in Setting("fingerprint")
  BY DEF Names, Reserved, Fresh, Setting
<1>3. ASSUME call[c].at = "put"
      PROVE  Target(call[c].kind) \in Names /\ call[c].value \in Setting(Target(call[c].kind))
  BY <1>1, <1>3, SaveIs
<1>4. CASE mint_fingerprint(c)
  <2>1. PICK f \in Fresh :
          (\E lost \in SUBSET {"fingerprint"} : Put("fingerprint", f, lost))
          \/ PutFails("fingerprint", f)
    BY <1>4 DEF mint_fingerprint
  <2> QED BY <1>1, <1>2, <2>1, PutStores, PutFailsKeeps
<1>5. CASE put_setting(c)
  <2>1. PICK n, v : n = Target(call[c].kind) /\ v = call[c].value
    OBVIOUS
  <2>2. (\E lost : Put(n, v, lost)) \/ PutFails(n, v)
    BY <1>5, <2>1 DEF put_setting
  <2>3. n \in Names /\ v \in Setting(n)
    BY <1>3, <1>5, <2>1 DEF put_setting
  <2> QED BY <1>1, <2>2, <2>3, PutStores, PutFailsKeeps
<1>6. CASE drop_call(c)
  <2>1. \A w \in InFlight(c) : w[1] \in Names /\ w[2] \in Setting(w[1])
    BY <1>2, <1>3 DEF InFlight
  <2>2. \A n \in Names : \A v \in Setting(n) : v \in Holding(n) \ {None}
    BY ValuesAssumption DEF Holding
  <2>3. UNCHANGED <<keyring, file>> /\ late' \in {late} \cup {late \cup {w} : w \in InFlight(c)}
    BY <1>6 DEF drop_call
  <2>4. \A w \in late' : w[1] \in Names /\ w[2] \in Holding(w[1]) \ {None}
    BY <1>1, <2>1, <2>2, <2>3 DEF LayersOK
  <2> QED BY <1>1, <2>3, <2>4 DEF LayersOK
<1> QED BY <1>4, <1>5, <1>6

\* Steps of requests through the settings that only read the store.
Reads(c) ==
    \/ load_cloud_lease_stored(c) \/ load_or_create_device_fingerprint(c) \/ load_credentials(c)
    \/ load_persisted_model_registry_stored(c) \/ save_model_registry(c) \/ inspect_settings(c)
    \/ load_persisted_openai_config(c)

LEMMA ReadsKeepStore ==
    ASSUME TypeOK, NEW c \in Calls, Reads(c)
    PROVE  LayersOK' /\ store' = store
<1>1. LayersOK /\ {"ozon", "openai", "registry", "lease", "fingerprint", "key"} = Names
  BY DEF TypeOK, Names, Reserved, Cached
<1>2. ASSUME NEW n \in Names, NEW answer, Get(n, answer) \/ Skip(n, answer)
      PROVE  LayersOK' /\ store' = store
  BY <1>1, <1>2, GetKeeps, SkipKeeps
<1>3. CASE UNCHANGED <<keyring, file, late>>
  BY <1>1, <1>3, StoreStays DEF LayersOK
<1>4. CASE load_cloud_lease_stored(c)
  BY <1>1, <1>2, <1>4 DEF load_cloud_lease_stored
<1>5. CASE load_or_create_device_fingerprint(c)
  BY <1>1, <1>2, <1>3, <1>5 DEF load_or_create_device_fingerprint, layers
<1>6. CASE load_credentials(c)
  BY <1>1, <1>2, <1>6 DEF load_credentials
<1>7. CASE load_persisted_model_registry_stored(c)
  BY <1>1, <1>2, <1>7 DEF load_persisted_model_registry_stored, get_secret_for_status
<1>8. CASE save_model_registry(c)
  <2> DEFINE refs == {call[c].value[i].ref : i \in 1..Len(call[c].value)}
  <2>1. call[c].value \in Seq(ProviderEntry)
    BY <1>8 DEF save_model_registry, TypeOK, Fits
  <2>2. refs \subseteq {"openai", "key"}
    <3>1. \A i \in 1..Len(call[c].value) : call[c].value[i] \in ProviderEntry
      BY <2>1
    <3>2. \A e \in ProviderEntry : e.ref \in {"openai", "key"}
      BY DEF ProviderEntry
    <3> QED BY <3>1, <3>2
  <2>3. Inspect(refs)
    BY <1>8 DEF save_model_registry
  <2> HIDE DEF refs
  <2> QED BY <1>1, <2>2, <2>3, InspectKeeps
<1>9. CASE inspect_settings(c)
  <2>1. PICK names \in SUBSET Names : Inspect(names)
    BY <1>1, <1>9 DEF inspect_settings
  <2> QED BY <1>1, <2>1, InspectKeeps
<1>10. CASE load_persisted_openai_config(c)
  BY <1>1, <1>2, <1>10 DEF load_persisted_openai_config
<1> QED BY <1>4, <1>5, <1>6, <1>7, <1>8, <1>9, <1>10 DEF Reads

\* The other steps through the settings leave the layers alone.
LEMMA OthersKeepStore ==
    ASSUME TypeOK, NEW c \in Calls, SettingsStep(c), ~ Reads(c),
           ~ mint_fingerprint(c), ~ put_setting(c), ~ drop_call(c)
    PROVE  LayersOK' /\ store' = store
<1>1. UNCHANGED <<keyring, file, late>>
  BY DEF SettingsStep, Reads, settings, layers, load_cloud_lease, load_cloud_lease_fill,
         load_persisted_model_registry, load_persisted_model_registry_fill, get_model_registry,
         fill_setting
<1> QED BY <1>1, StoreStays DEF TypeOK, LayersOK

\* The copies hold settings of their names.
LEMMA ValuesStep ==
    ASSUME TypeOK, NEW c \in Calls, SettingsStep(c)
    PROVE  /\ LayersOK'
           /\ DOMAIN cache' = Cached /\ \A n \in Cached : cache'[n] \in {None} \cup Setting(n)
<1>1. Fits(call[c]) /\ Cached \subseteq Names /\ "key" \in Names
  BY DEF TypeOK, Names, Reserved
<1>2. LayersOK'
  BY WritesKeepLayers, ReadsKeepStore, OthersKeepStore
<1>3. CASE UNCHANGED cache
  BY <1>2, <1>3 DEF TypeOK
<1>4. CASE load_cloud_lease_fill(c)
  BY <1>1, <1>2, <1>4 DEF load_cloud_lease_fill, TypeOK, Fits, Setting, Cached
<1>5. CASE load_persisted_model_registry_fill(c)
  BY <1>1, <1>2, <1>5 DEF load_persisted_model_registry_fill, TypeOK, Fits, Setting, Cached
<1>6. CASE fill_setting(c)
  <2>1. call[c].at = "fill"
    BY <1>6 DEF fill_setting
  <2>2. Target(call[c].kind) \in Cached /\ call[c].value \in Setting(Target(call[c].kind))
    BY <1>1, <2>1, SaveIs
  <2>3. PICK n : n = Target(call[c].kind)
    OBVIOUS
  <2> QED BY <1>2, <1>6, <2>2, <2>3 DEF fill_setting, TypeOK
<1> QED
  BY <1>3, <1>4, <1>5, <1>6
     DEF SettingsStep, settings, copies, load_cloud_lease, load_cloud_lease_stored,
         load_or_create_device_fingerprint, mint_fingerprint, load_credentials,
         load_persisted_model_registry, load_persisted_model_registry_stored, get_model_registry,
         save_model_registry, inspect_settings, load_persisted_openai_config, put_setting, drop_call

\* A set of indices has a least one.
LEMMA LeastIndex ==
    ASSUME NEW S \in SUBSET Nat, S # {}
    PROVE  Min(S) \in S /\ \A j \in S : Min(S) <= j
<1> DEFINE Less == {ss \in Nat \X Nat : ss[1] < ss[2]}
<1>1. IsWellFoundedOn(Less, Nat)
  BY NatLessThanWellFounded, Zenon DEF OpToRel
<1>2. PICK x \in S : \A y \in S : ~ (<<y, x>> \in Less)
  <2> HIDE DEF Less
  <2> QED BY <1>1, WFMin, Zenon
<1>3. \A y \in S : ~ (y < x)
  BY <1>2
<1>4. \A y \in S : x <= y
  BY <1>3
<1>5. Min(S) = CHOOSE y \in S : \A z \in S : y <= z
  BY Zenon DEF Min
<1> QED BY <1>4, <1>5, Zenon

\* The first enabled entry of a capability is an entry of the registry, and there is
\* one whenever any entry of the capability is enabled.
LEMMA FirstEnabledIs ==
    ASSUME NEW registry \in Seq(ProviderEntry), NEW cap
    PROVE  LET i == FirstEnabled(registry, cap)
           IN  /\ i # 0 => /\ i \in 1..Len(registry) /\ registry[i] \in ProviderEntry
                           /\ registry[i].cap = cap /\ registry[i].enabled
               /\ i = 0 => ~ \E j \in 1..Len(registry) :
                                registry[j].cap = cap /\ registry[j].enabled
<1> DEFINE I == {i \in 1..Len(registry) : registry[i].cap = cap /\ registry[i].enabled}
           first == FirstEnabled(registry, cap)
<1>1. first = IF I # {} THEN Min(I) ELSE 0
  BY DEF FirstEnabled, SelectInSeq
<1>2. CASE I = {}
  BY <1>1, <1>2
<1>3. CASE I # {}
  <2>1. Min(I) \in I
    <3>1. I \in SUBSET Nat
      OBVIOUS
    <3> HIDE DEF I
    <3> QED BY <1>3, <3>1, LeastIndex
  <2>2. first \in 1..Len(registry) /\ registry[first].cap = cap /\ registry[first].enabled
    <3>1. first \in I
      BY <1>1, <1>3, <2>1
    <3> QED BY <3>1
  <2> QED BY <2>2
<1> QED BY <1>2, <1>3

LEMMA ProviderRefIs ==
    ASSUME NEW registry \in Seq(ProviderEntry), NEW cap \in Capability
    PROVE  ProviderRef(registry, cap) \in {"openai", "key", None}
<1>1. FirstEnabled(registry, cap) # 0 => registry[FirstEnabled(registry, cap)] \in ProviderEntry
  BY FirstEnabledIs
<1>2. \A e \in ProviderEntry : e.ref \in {"openai", "key"}
  BY DEF ProviderEntry
<1> QED BY <1>1, <1>2 DEF ProviderRef

\* The steps of the listings that look up a provider.
LEMMA ProviderKeeps ==
    ASSUME TypeOK, NEW c \in Calls, NEW cap \in Capability, NEW key, Provider(c, cap, key),
           call[c].at = "routed"
    PROVE  LayersOK' /\ store' = store
<1>1. LayersOK /\ call[c].value[1] \in Seq(ProviderEntry)
  BY DEF TypeOK, Fits
<1>2. PICK ref : ref = ProviderRef(call[c].value[1], cap)
  OBVIOUS
<1>3. CASE ref = None
  <2>1. UNCHANGED <<keyring, file, late>>
    BY <1>2, <1>3 DEF Provider, layers
  <2> QED BY <1>1, <2>1, StoreStays DEF LayersOK
<1>4. CASE ref # None
  <2>1. ref \in {"openai", "key"} /\ ref \in Names
    BY <1>1, <1>2, <1>4, ProviderRefIs DEF Names, Reserved, Cached
  <2>2. PICK answer : Resolve(ref, answer)
    BY <1>2, <1>4 DEF Provider
  <2> QED BY <1>1, <2>1, <2>2, GetKeeps, SkipKeeps DEF Resolve
<1> QED BY <1>3, <1>4

\* What the other steps of requests leave alone.
LEMMA SettingsStay ==
    ASSUME TypeOK, NEW c \in Calls,
           SettingsRequest(c) \/ PairingStep(c) \/ ExportStep(c) \/ ListingStep(c)
    PROVE  UNCHANGED <<cache, shown, saved, config, now>> /\ LayersOK' /\ store' = store
<1>1. CASE SettingsRequest(c) \/ PairingStep(c) \/ ExportStep(c)
  <2>1. UNCHANGED <<cache, shown, saved, config, now, keyring, file, late>>
    BY <1>1 DEF SettingsRequest, PairingStep, ExportStep, settings, copies, layers, world,
       save_ozon_config, save_openai_config, edit_model_registry, save_secret, save_portal_lease,
       portal_status, config_status, validate_ozon_config, gated_request,
       start_openclaw_pairing, claim_openclaw_pairing, start_locked, claim_locked,
       relist_export, run_inject, run_process, run_verify, answer_export
  <2> QED BY <2>1, StoreStays DEF TypeOK, LayersOK
<1>2. CASE poster_generate(c) \/ relist_edit_image(c) \/ chat_completion(c)
  <2>1. PICK cap \in {"image", "text"} : (\E key : Provider(c, cap, key)) /\ call[c].at = "routed"
    BY <1>2 DEF poster_generate, relist_edit_image, chat_completion
  <2>2. UNCHANGED <<cache, shown, saved, config, now>>
    BY <1>2 DEF poster_generate, relist_edit_image, chat_completion, copies, world
  <2>3. PICK key : Provider(c, cap, key)
    BY <2>1
  <2> QED BY <2>1, <2>2, <2>3, ProviderKeeps DEF Capability
<1>3. CASE \/ ozon_products_read(c) \/ product_get(c) \/ relist_push_one(c)
           \/ module3_push_one(c) \/ module3_push_write(c)
  <2>1. UNCHANGED <<cache, shown, saved, config, now, keyring, file, late>>
    BY <1>3 DEF settings, copies, layers, world, ozon_products_read, product_get,
       relist_push_one, module3_push_one, module3_push_write
  <2> QED BY <2>1, StoreStays DEF TypeOK, LayersOK
<1> QED BY <1>1, <1>2, <1>3 DEF ListingStep

LEMMA TypeStep == TypeOK /\ [Next]_vars => TypeOK'
<1> SUFFICES ASSUME TypeOK, [Next]_vars PROVE TypeOK'
  OBVIOUS
<1>1. ASSUME NEW c \in Calls, LayersOK', DOMAIN cache' = Cached,
             \A n \in Cached : cache'[n] \in {None} \cup Setting(n),
             UNCHANGED <<config, now>>, Moves(c) \/ UNCHANGED call
      PROVE  TypeOK'
  <2>1. StoreOK'
    BY <1>1, StoreIsNext
  <2> QED BY <1>1, <2>1 DEF TypeOK, Moves
<1>2. ASSUME NEW c \in Calls,
             SettingsStep(c) \/ SettingsRequest(c) \/ PairingStep(c) \/ ExportStep(c) \/ ListingStep(c)
      PROVE  TypeOK'
  <2>1. Moves(c) \/ UNCHANGED call
    BY <1>2, RequestsMove
  <2>2. CASE SettingsStep(c)
    <3>1. UNCHANGED <<config, now>>
      BY <2>2 DEF SettingsStep, world, load_cloud_lease, load_cloud_lease_stored,
         load_cloud_lease_fill, load_or_create_device_fingerprint, mint_fingerprint,
         load_credentials, load_persisted_model_registry, load_persisted_model_registry_stored,
         load_persisted_model_registry_fill, get_model_registry, save_model_registry,
         inspect_settings, load_persisted_openai_config, put_setting, fill_setting, drop_call
    <3> QED BY <1>1, <2>1, <2>2, <3>1, ValuesStep
  <2>3. CASE ~ SettingsStep(c)
    BY <1>1, <1>2, <2>1, <2>3, SettingsStay DEF TypeOK
  <2> QED BY <2>2, <2>3
<1>3. ASSUME NEW a \in Accounts, seller_edit(a) PROVE TypeOK'
  <2>1. UNCHANGED <<config, now, cache, call, keyring, file, late>>
    BY <1>3 DEF seller_edit, world, layers
  <2> QED BY <2>1, StoreIsNext DEF TypeOK, LayersOK
<1>4. CASE tick
  <2>1. UNCHANGED <<config, cache, call, keyring, file, late>> /\ now' \in Nat
    BY <1>4 DEF tick, settings, layers, copies, TypeOK
  <2>2. LayersOK'
    BY <2>1 DEF TypeOK, LayersOK
  <2>3. StoreOK'
    BY <2>2, StoreIsNext
  <2> QED BY <2>1, <2>2, <2>3 DEF TypeOK
<1>5. CASE late_write
  <2>1. UNCHANGED <<config, now, cache, call>>
    BY <1>5 DEF late_write, world
  <2>2. LayersOK' /\ StoreOK'
    BY <1>5, LateWriteKeeps, StoreIsNext DEF TypeOK
  <2> QED BY <2>1, <2>2 DEF TypeOK
<1>6. CASE restart
  <2>1. /\ UNCHANGED <<keyring, file, now>> /\ late' = {}
        /\ DOMAIN cache' = Cached /\ \A n \in Cached : cache'[n] = None
        /\ DOMAIN call' = Calls
        /\ \A c \in Calls : call'[c] = IF call[c].at = "idle" THEN Idle ELSE Done
    BY <1>6 DEF restart, restart_settings
  <2>2. config' \in Config
    <3>1. config \in Config
      BY DEF TypeOK
    <3>2. config' \in {[config EXCEPT !.stable = s] : s \in {FALSE, config.mac}}
      BY <1>6 DEF restart, restart_settings
    <3>3. PICK s \in {FALSE, config.mac} : config' = [config EXCEPT !.stable = s]
      BY <3>2
    <3>4. s \in BOOLEAN
      BY <3>1 DEF Config
    <3> QED BY <3>1, <3>3, <3>4 DEF Config
  <2>3. Fits(Idle) /\ Fits(Done)
    BY DoneIs, KindsAssumption DEF Idle, Fits, RequestFields
  <2>4. LayersOK' /\ StoreOK'
    BY <2>1, StoreIsNext DEF TypeOK, LayersOK
  <2> QED BY <2>1, <2>2, <2>3, <2>4 DEF TypeOK
<1>7. CASE UNCHANGED vars
  <2>1. UNCHANGED <<config, now, cache, call, keyring, file, late>>
    BY <1>7 DEF vars, settings, copies, layers, world
  <2>2. LayersOK'
    BY <2>1 DEF TypeOK, LayersOK
  <2>3. StoreOK'
    BY <2>2, StoreIsNext
  <2> QED BY <2>1, <2>2, <2>3 DEF TypeOK
<1> QED
  BY <1>2, <1>3, <1>4, <1>5, <1>6, <1>7 DEF Next

\* Every value is of its type: what the node stores, keeps in memory and carries
\* through a request is a setting, or the absence of one.
THEOREM TypeCorrect == Spec => []TypeOK
BY TypeInit, TypeStep, PTL DEF Spec

-----------------------------------------------------------------------------
(* Pairing.                                                                *)

\* A code in the table is the one that was issued, and no token was given for it.
PairingOK ==
    /\ DOMAIN pairings = Codes /\ DOMAIN issued = Codes
    /\ claims \in Seq(Codes \X Nat)
    /\ \A k \in Codes : pairings[k] # None => pairings[k] \in Nat /\ issued[k] = pairings[k]
    /\ \A i \in 1..Len(claims) : pairings[claims[i][1]] = None
    /\ CodeIsOneTime

\* The steps that leave the pairing table alone.
LEMMA PairingStays ==
    ASSUME NEW c \in Calls,
           SettingsStep(c) \/ SettingsRequest(c) \/ PairingStep(c) \/ ExportStep(c) \/ ListingStep(c)
    PROVE  UNCHANGED pairing \/ start_locked(c) \/ claim_locked(c)
BY DEF SettingsStep, SettingsRequest, PairingStep, ExportStep, ListingStep,
       start_openclaw_pairing, claim_openclaw_pairing

\* A code that is in the table when the lock is taken.
LEMMA RetainedIs ==
    ASSUME PairingOK, NEW t \in Nat
    PROVE  /\ DOMAIN Retained(t) = Codes
           /\ \A k \in Codes : /\ Retained(t)[k] \in {None, pairings[k]}
                               /\ Retained(t)[k] # None => t < Retained(t)[k]
BY DEF Retained, PairingOK

LEMMA StartKeepsPairing ==
    ASSUME TypeOK, PairingOK, NEW c \in Calls, start_locked(c)
    PROVE  PairingOK'
<1>1. Fits(call[c]) /\ call[c].since \in Nat
  BY DEF TypeOK, Fits
<1>2. PICK t, table : t = call[c].since /\ table = Retained(t)
  OBVIOUS
<1>3. PICK k \in Codes : /\ issued[k] = None
                         /\ pairings' = [table EXCEPT ![k] = t + PairingTtl]
                         /\ issued' = [issued EXCEPT ![k] = t + PairingTtl]
                         /\ claims' = claims
  BY <1>2 DEF start_locked
<1>4. t + PairingTtl \in Nat
  BY <1>1, <1>2, PairingAssumption
<1>5. /\ DOMAIN table = Codes
      /\ \A m \in Codes : table[m] \in {None, pairings[m]}
  BY <1>1, <1>2, RetainedIs
<1>6. ASSUME NEW i \in 1..Len(claims)
      PROVE  claims[i][1] \in Codes /\ claims[i][1] # k
  <2>1. claims[i] \in Codes \X Nat
    BY DEF PairingOK
  <2>2. issued[claims[i][1]] # None
    BY DEF PairingOK, CodeIsOneTime
  <2> QED BY <1>3, <2>1, <2>2
<1>7. /\ DOMAIN pairings' = Codes /\ DOMAIN issued' = Codes
      /\ \A m \in Codes : pairings'[m] # None => pairings'[m] \in Nat /\ issued'[m] = pairings'[m]
  <2>1. \A m \in Codes : table[m] # None => table[m] \in Nat /\ issued[m] = table[m]
    BY <1>5 DEF PairingOK
  <2>2. DOMAIN pairings' = Codes /\ DOMAIN issued' = Codes
    BY <1>3, <1>5 DEF PairingOK
  <2>3. pairings'[k] = t + PairingTtl /\ issued'[k] = t + PairingTtl
    BY <1>3, <1>5 DEF PairingOK
  <2>4. \A m \in Codes \ {k} : pairings'[m] = table[m] /\ issued'[m] = issued[m]
    BY <1>3, <1>5 DEF PairingOK
  <2> QED BY <1>4, <2>1, <2>2, <2>3, <2>4
<1>8. \A i \in 1..Len(claims') : pairings'[claims'[i][1]] = None
  BY <1>3, <1>5, <1>6 DEF PairingOK
<1>9. CodeIsOneTime'
  BY <1>3, <1>6 DEF PairingOK, CodeIsOneTime
<1> QED BY <1>3, <1>7, <1>8, <1>9 DEF PairingOK

LEMMA ClaimKeepsPairing ==
    ASSUME TypeOK, PairingOK, NEW c \in Calls, claim_locked(c)
    PROVE  PairingOK'
<1>1. call[c].since \in Nat /\ call[c].value \in Codes
  BY DEF claim_locked, TypeOK, Fits
<1>2. PICK t \in Nat, k \in Codes : t = call[c].since /\ k = call[c].value
  BY <1>1
<1> DEFINE table == Retained(t)
<1>3. /\ pairings' = [table EXCEPT ![k] = None]
      /\ claims' = IF table[k] # None THEN Append(claims, <<k, t>>) ELSE claims
      /\ issued' = issued
  BY <1>2 DEF claim_locked
<1>4. /\ DOMAIN table = Codes
      /\ \A m \in Codes : table[m] \in {None, pairings[m]} /\ (table[m] # None => t < table[m])
  BY <1>2, RetainedIs
<1> HIDE DEF table
<1>5. /\ DOMAIN pairings' = Codes /\ DOMAIN issued' = Codes /\ pairings'[k] = None
      /\ \A m \in Codes : pairings'[m] \in {None, pairings[m]}
  BY <1>3, <1>4 DEF PairingOK
<1>6. CASE table[k] = None
  <2>1. CodeIsOneTime'
    BY <1>3, <1>6 DEF PairingOK, CodeIsOneTime
  <2> QED BY <1>3, <1>5, <1>6, <2>1 DEF PairingOK
<1>7. CASE table[k] # None
  <2> DEFINE n == Len(claims)
  <2>1. /\ claims' \in Seq(Codes \X Nat) /\ Len(claims') = n + 1 /\ n \in Nat
        /\ claims'[n + 1] = <<k, t>> /\ \A i \in 1..n : claims'[i] = claims[i]
    BY <1>3, <1>7 DEF PairingOK
  <2>2. \A i \in 1..n : claims[i][1] # k /\ claims[i][1] \in Codes
    BY <1>4, <1>7 DEF PairingOK
  <2>3. issued[k] # None /\ t < issued[k]
    BY <1>4, <1>7 DEF PairingOK
  <2>4. \A i \in 1..Len(claims') :
           /\ issued'[claims'[i][1]] # None /\ claims'[i][2] < issued'[claims'[i][1]]
           /\ pairings'[claims'[i][1]] = None
    <3> TAKE i \in 1..Len(claims')
    <3>1. CASE i = n + 1
      BY <1>3, <1>5, <2>1, <2>3, <3>1
    <3>2. CASE i # n + 1
      <4>1. i \in 1..n /\ claims'[i] = claims[i]
        BY <2>1, <3>2
      <4> QED BY <1>3, <1>5, <2>2, <4>1 DEF PairingOK, CodeIsOneTime
    <3> QED BY <3>1, <3>2
  <2>5. \A i, j \in 1..Len(claims') : claims'[i][1] = claims'[j][1] => i = j
    <3> TAKE i, j \in 1..Len(claims')
    <3>1. (i = n + 1 \/ (i \in 1..n /\ claims'[i] = claims[i]))
          /\ (j = n + 1 \/ (j \in 1..n /\ claims'[j] = claims[j]))
      BY SMTT(30), <2>1
    <3> QED BY SMTT(30), <2>1, <2>2, <3>1 DEF PairingOK, CodeIsOneTime
  <2>6. CodeIsOneTime'
    BY <2>4, <2>5 DEF CodeIsOneTime
  <2> QED BY <1>3, <1>5, <2>1, <2>4, <2>6 DEF PairingOK
<1> QED BY <1>6, <1>7

LEMMA PairingStepKeeps == TypeOK /\ PairingOK /\ [Next]_vars => PairingOK'
<1> SUFFICES ASSUME TypeOK, PairingOK, [Next]_vars PROVE PairingOK'
  OBVIOUS
<1>1. CASE UNCHANGED pairing
  BY <1>1 DEF pairing, PairingOK, CodeIsOneTime
<1>2. CASE restart
  <2>1. pairings' = [k \in Codes |-> None] /\ UNCHANGED <<issued, claims>>
    BY <1>2 DEF restart
  <2>2. \A i \in 1..Len(claims) : claims[i][1] \in Codes
    BY DEF PairingOK
  <2>3. CodeIsOneTime'
    BY <2>1 DEF PairingOK, CodeIsOneTime
  <2> QED BY <2>1, <2>2, <2>3 DEF PairingOK
<1>3. ASSUME NEW c \in Calls, start_locked(c) \/ claim_locked(c) PROVE PairingOK'
  BY <1>3, StartKeepsPairing, ClaimKeepsPairing
<1>4. ASSUME NEW c \in Calls,
             SettingsStep(c) \/ SettingsRequest(c) \/ PairingStep(c) \/ ExportStep(c) \/ ListingStep(c)
      PROVE  PairingOK'
  BY <1>1, <1>3, <1>4, PairingStays
<1> QED BY <1>1, <1>2, <1>4 DEF Next, vars

LEMMA PairingInitOK == Init => PairingOK
BY DEF Init, PairingInit, PairingOK, CodeIsOneTime

\* A pairing code is answered with the bridge token at most once, and only to a
\* claim that arrived before the code expired, in whatever order the handlers
\* take the lock of the table and however often the node restarts.
THEOREM PairingCodesAreOneTime == Spec => []CodeIsOneTime
<1>1. PairingOK => CodeIsOneTime
  BY DEF PairingOK
<1> QED BY <1>1, TypeInit, TypeStep, PairingInitOK, PairingStepKeeps, PTL DEF Spec

-----------------------------------------------------------------------------
(* The export of workbooks.                                                *)

\* What the pipeline has on disk at every stage.
EngineFields == {"at", "files", "tainted", "leak"}
PipelineOK(e) ==
    /\ DOMAIN e = EngineFields
    /\ e.at = "inject" => e.files = {"rows"}
    /\ e.at = "process" => e.files = {"rows", "populated"}
    /\ e.at = "verify" => e.files = Files
    /\ e.at \in {"none", "inject", "process", "verify"} => ~ e.tainted /\ e.leak = "none"
    /\ e.at = "made" => "deliverable" \in e.files /\ ~ e.tainted
    /\ e.at = "made" /\ e.leak = "none" => e.files = {"deliverable"}
    /\ e.at = "failed" /\ e.leak = "none" => e.files = {}

\* A pipeline runs for a request that waits or is gone, and the answer is what it
\* made.
ExportOK ==
    /\ DOMAIN engine = Calls
    /\ \A c \in Calls :
         /\ PipelineOK(engine[c])
         /\ call[c].at \notin {"waiting", "done"} => engine[c] = NoEngine
         /\ c \in answered => engine[c].at = "made"

\* A pipeline that has advanced.
LEMMA PipelineMoves ==
    ASSUME TypeOK, ExportOK, NEW c \in Calls, NEW e, PipelineOK(e),
           engine' = [engine EXCEPT ![c] = e], UNCHANGED answered, c \notin answered,
           \/ Moves(c) /\ call'[c].at = "waiting"
           \/ UNCHANGED call /\ engine[c] # NoEngine
    PROVE  ExportOK'
<1> HIDE DEF PipelineOK
<1> QED BY DEF ExportOK, Moves, TypeOK

\* What removing files leaves.
LEMMA CleanUpLeaves ==
    ASSUME NEW c, NEW k, NEW gone, DOMAIN k = EngineFields, CleanUp(c, k, gone)
    PROVE  \E e : /\ engine' = [engine EXCEPT ![c] = e] /\ DOMAIN e = EngineFields
                  /\ e.at = k.at /\ e.tainted = k.tainted
                  /\ k.files \ gone \subseteq e.files
                  /\ \/ e.leak = "removal" /\ gone # {}
                     \/ e.leak = k.leak /\ e.files = k.files \ gone
<1>1. PICK left \in SUBSET (k.files \cap gone) :
         engine' = [engine EXCEPT ![c] = [k EXCEPT !.files = (k.files \ gone) \cup left,
                                                   !.leak = IF left = {} THEN k.leak ELSE "removal"]]
  BY DEF CleanUp, EngineFields
<1> DEFINE e == [k EXCEPT !.files = (k.files \ gone) \cup left,
                          !.leak = IF left = {} THEN k.leak ELSE "removal"]
<1>2. /\ DOMAIN e = EngineFields /\ e.at = k.at /\ e.tainted = k.tainted
      /\ e.files = (k.files \ gone) \cup left
      /\ e.leak = IF left = {} THEN k.leak ELSE "removal"
  BY DEF EngineFields
<1>3. engine' = [engine EXCEPT ![c] = e]
  BY <1>1
<1> HIDE DEF e
<1> QED BY <1>1, <1>2, <1>3

LEMMA EngineKeepsExport ==
    ASSUME TypeOK, ExportOK, NEW c \in Calls,
           run_inject(c) \/ run_process(c) \/ run_verify(c)
    PROVE  ExportOK'
<1> DEFINE o == engine[c]
<1>1. /\ o.at \in {"inject", "process", "verify"} /\ UNCHANGED <<call, answered>>
      /\ PipelineOK(o)
  BY DEF run_inject, run_process, run_verify, ExportOK
<1>2. o # NoEngine /\ c \notin answered
  BY <1>1 DEF NoEngine, ExportOK
<1>3. ASSUME NEW e, engine' = [engine EXCEPT ![c] = e], PipelineOK(e)
      PROVE  ExportOK'
  BY <1>1, <1>2, <1>3, PipelineMoves
<1>4. ASSUME NEW files, NEW gone, NEW tainted, NEW panic, Fail(c, files, gone, tainted, panic),
             panic \/ files \subseteq gone
      PROVE  ExportOK'
  <2> DEFINE k == [at |-> "failed", files |-> files, tainted |-> tainted,
                   leak |-> IF panic THEN "panic" ELSE "none"]
  <2>1. CleanUp(c, k, IF panic THEN {} ELSE gone)
    BY <1>4 DEF Fail
  <2>2. /\ DOMAIN k = EngineFields /\ k.at = "failed" /\ k.files = files
        /\ k.leak = IF panic THEN "panic" ELSE "none"
    BY DEF EngineFields
  <2> HIDE DEF k
  <2>3. PICK g : g = IF panic THEN {} ELSE gone
    OBVIOUS
  <2>4. PICK e : /\ engine' = [engine EXCEPT ![c] = e] /\ DOMAIN e = EngineFields
                 /\ e.at = k.at
                 /\ \/ e.leak = "removal" /\ g # {}
                    \/ e.leak = k.leak /\ e.files = k.files \ g
    BY <2>1, <2>2, <2>3, CleanUpLeaves
  <2>5. e.leak = "none" => e.files = {}
    BY <1>4, <2>2, <2>3, <2>4
  <2>6. PipelineOK(e)
    BY <2>2, <2>4, <2>5 DEF PipelineOK
  <2> QED BY <1>3, <2>4, <2>6
<1>5. ASSUME NEW at \in {"process", "verify"}, NEW files,
             engine' = [engine EXCEPT ![c].at = at, ![c].files = files],
             at = "process" => files = {"rows", "populated"},
             at = "verify" => files = Files
      PROVE  ExportOK'
  <2> DEFINE e == [o EXCEPT !.at = at, !.files = files]
  <2>1. engine' = [engine EXCEPT ![c] = e]
    BY <1>5
  <2>2. /\ DOMAIN e = EngineFields /\ e.at = at /\ e.files = files
        /\ e.tainted = o.tainted /\ e.leak = o.leak
    BY <1>1 DEF PipelineOK, EngineFields
  <2> HIDE DEF e, o
  <2>3. PipelineOK(e)
    BY <1>1, <1>5, <2>2 DEF PipelineOK
  <2> QED BY <1>3, <2>1, <2>2, <2>3
<1>6. CASE run_inject(c)
  <2>1. o.files = {"rows"}
    BY <1>1, <1>6 DEF run_inject, PipelineOK
  <2>2. CASE engine' = [engine EXCEPT ![c].at = "process", ![c].files = @ \cup {"populated"}]
    <3>1. o.files \cup {"populated"} = {"rows", "populated"}
      BY <2>1
    <3>2. engine' = [engine EXCEPT ![c].at = "process", ![c].files = o.files \cup {"populated"}]
      BY <1>1, <2>2 DEF ExportOK
    <3> QED BY <1>5, <3>1, <3>2
  <2>3. CASE Fail(c, engine[c].files, {"rows"}, FALSE, FALSE)
    BY <1>4, <2>1, <2>3
  <2>4. CASE \E left \in SUBSET {"populated"}, panic \in BOOLEAN :
               Fail(c, engine[c].files \cup left, {"rows", "populated"}, FALSE, panic)
    <3>1. PICK left \in SUBSET {"populated"}, panic \in BOOLEAN :
             Fail(c, engine[c].files \cup left, {"rows", "populated"}, FALSE, panic)
      BY <2>4
    <3>2. PICK files, gone : files = engine[c].files \cup left /\ gone = {"rows", "populated"}
      OBVIOUS
    <3>3. Fail(c, files, gone, FALSE, panic)
      BY <3>1, <3>2
    <3>4. files \subseteq gone
      BY <2>1, <3>2
    <3> HIDE DEF Fail
    <3> QED BY <1>4, <3>3, <3>4
  <2> QED BY <1>6, <2>2, <2>3, <2>4 DEF run_inject
<1>7. CASE run_process(c)
  <2>1. o.files = {"rows", "populated"}
    BY <1>1, <1>7 DEF run_process, PipelineOK
  <2>2. CASE engine' = [engine EXCEPT ![c].at = "verify", ![c].files = @ \cup {"deliverable"}]
    <3>1. o.files \cup {"deliverable"} = Files
      BY <2>1 DEF Files
    <3>2. engine' = [engine EXCEPT ![c].at = "verify", ![c].files = o.files \cup {"deliverable"}]
      BY <1>1, <2>2 DEF ExportOK
    <3> QED BY <1>5, <3>1, <3>2
  <2>3. CASE Fail(c, engine[c].files, {"rows", "populated"}, FALSE, FALSE)
    BY <1>4, <2>1, <2>3
  <2>4. CASE \E left \in SUBSET {"deliverable"}, panic \in BOOLEAN :
               Fail(c, engine[c].files \cup left, Files, left # {}, panic)
    <3>1. PICK left \in SUBSET {"deliverable"}, panic \in BOOLEAN :
             Fail(c, engine[c].files \cup left, Files, left # {}, panic)
      BY <2>4
    <3>2. engine[c].files \cup left \subseteq Files
      BY <2>1 DEF Files
    <3> QED BY <1>4, <3>1, <3>2
  <2> QED BY <1>7, <2>2, <2>3, <2>4 DEF run_process
<1>8. CASE run_verify(c)
  <2> DEFINE k == [o EXCEPT !.at = "made"]
  <2>1. o.files = Files /\ ~ o.tainted /\ o.leak = "none"
    BY <1>1, <1>8 DEF run_verify, PipelineOK
  <2>2. /\ DOMAIN k = EngineFields /\ k.at = "made" /\ k.files = Files
        /\ k.tainted = o.tainted /\ k.leak = "none"
    BY <1>1, <2>1 DEF PipelineOK, EngineFields
  <2>3. CleanUp(c, k, {"rows", "populated"})
    BY <1>8 DEF run_verify
  <2> HIDE DEF k
  <2>4. PICK g : g = {"rows", "populated"}
    OBVIOUS
  <2>5. PICK e : /\ engine' = [engine EXCEPT ![c] = e] /\ DOMAIN e = EngineFields
                 /\ e.at = k.at /\ e.tainted = k.tainted
                 /\ k.files \ g \subseteq e.files
                 /\ \/ e.leak = "removal" /\ g # {}
                    \/ e.leak = k.leak /\ e.files = k.files \ g
    BY <2>2, <2>3, <2>4, CleanUpLeaves
  <2>6. k.files \ g = {"deliverable"}
    BY <2>2, <2>4 DEF Files
  <2>7. PipelineOK(e)
    BY <2>1, <2>2, <2>5, <2>6 DEF PipelineOK
  <2> QED BY <1>3, <2>5, <2>7
<1> QED BY <1>6, <1>7, <1>8

LEMMA HandlerKeepsExport ==
    ASSUME TypeOK, ExportOK, NEW c \in Calls, relist_export(c) \/ answer_export(c)
    PROVE  ExportOK'
<1>1. Moves(c)
  BY OtherMoves
<1>2. CASE UNCHANGED <<engine, answered>>
  BY <1>1, <1>2 DEF ExportOK, Moves, Follows, TypeOK
<1>3. CASE answer_export(c)
  BY <1>1, <1>3 DEF answer_export, ExportOK, Moves, Follows, TypeOK
<1>4. CASE relist_export(c) /\ ~ UNCHANGED <<engine, answered>>
  <2>1. PICK e : /\ call[c].at = "engine" /\ engine' = [engine EXCEPT ![c] = e]
                 /\ Goto(c, "waiting") /\ UNCHANGED answered
                 /\ \/ e = [NoEngine EXCEPT !.at = "inject", !.files = {"rows"}]
                    \/ \E left : e = [NoEngine EXCEPT !.at = "failed", !.files = left,
                                                      !.leak = "rows"]
    BY <1>4, Zenon DEF relist_export
  <2>2. PipelineOK(e)
    <3>1. CASE e = [NoEngine EXCEPT !.at = "inject", !.files = {"rows"}]
      <4>1. e.at = "inject" /\ e.files = {"rows"} /\ ~ e.tainted /\ e.leak = "none"
        BY <3>1 DEF NoEngine
      <4>2. DOMAIN e = EngineFields
        BY <3>1 DEF NoEngine, EngineFields
      <4> QED BY <4>1, <4>2 DEF PipelineOK
    <3>2. CASE \E left : e = [NoEngine EXCEPT !.at = "failed", !.files = left, !.leak = "rows"]
      <4>1. e.at = "failed" /\ ~ e.tainted /\ e.leak = "rows"
        BY <3>2 DEF NoEngine
      <4>2. DOMAIN e = EngineFields
        BY <3>2 DEF NoEngine, EngineFields
      <4> QED BY <4>1, <4>2 DEF PipelineOK
    <3> QED BY <2>1, <3>1, <3>2
  <2>3. engine[c] = NoEngine /\ c \notin answered
    <3>1. call[c].at = "engine"
      BY <2>1
    <3> QED BY <3>1 DEF ExportOK, NoEngine
  <2>4. call'[c].at = "waiting"
    BY <2>1, GotoMoves
  <2> QED BY <1>1, <2>1, <2>2, <2>3, <2>4, PipelineMoves
<1> QED BY <1>2, <1>3, <1>4

\* The steps that leave the pipelines alone.
LEMMA ExportStays ==
    ASSUME NEW c \in Calls,
           SettingsStep(c) \/ SettingsRequest(c) \/ PairingStep(c) \/ ExportStep(c) \/ ListingStep(c)
    PROVE  UNCHANGED export \/ ExportStep(c)
BY DEF SettingsStep, SettingsRequest, PairingStep, ListingStep

LEMMA ExportStepKeeps == TypeOK /\ ExportOK /\ [Next]_vars => ExportOK'
<1> SUFFICES ASSUME TypeOK, ExportOK, [Next]_vars PROVE ExportOK'
  OBVIOUS
<1>1. CASE UNCHANGED export /\ UNCHANGED call
  BY <1>1 DEF export, ExportOK
<1>2. CASE restart
  <2>1. /\ UNCHANGED answered
        /\ DOMAIN call' = Calls
        /\ \A c \in Calls : call'[c] = IF call[c].at = "idle" THEN Idle ELSE Done
        /\ DOMAIN engine' = Calls
        /\ \A c \in Calls : engine'[c] = IF engine[c].at \in {"inject", "process", "verify"}
                                         THEN [engine[c] EXCEPT !.at = "killed"] ELSE engine[c]
    BY <1>2 DEF restart, restart_settings, restart_engine
  <2>2. Idle.at = "idle" /\ Done.at = "done"
    BY DEF Idle, Done
  <2> SUFFICES ASSUME NEW c \in Calls
               PROVE  /\ PipelineOK(engine'[c])
                      /\ call'[c].at \notin {"waiting", "done"} => engine'[c] = NoEngine
                      /\ c \in answered => engine'[c].at = "made"
    BY <2>1 DEF ExportOK
  <2>3. CASE engine[c].at \notin {"inject", "process", "verify"}
    BY <2>1, <2>2, <2>3 DEF ExportOK
  <2>4. CASE engine[c].at \in {"inject", "process", "verify"}
    <3>1. engine[c] # NoEngine
      BY <2>4 DEF NoEngine
    <3>2. engine'[c] = [engine[c] EXCEPT !.at = "killed"]
      BY <2>1, <2>4
    <3>3. engine'[c].at = "killed" /\ DOMAIN engine'[c] = EngineFields
      BY <3>2 DEF ExportOK, PipelineOK, EngineFields
    <3>4. PipelineOK(engine'[c])
      BY <3>3 DEF PipelineOK
    <3> QED BY <2>1, <2>2, <2>4, <3>1, <3>3, <3>4 DEF ExportOK
  <2> QED BY <2>3, <2>4
<1>3. ASSUME NEW c \in Calls,
             SettingsStep(c) \/ SettingsRequest(c) \/ PairingStep(c) \/ ExportStep(c) \/ ListingStep(c)
      PROVE  ExportOK'
  <2>1. CASE ExportStep(c)
    BY <2>1, EngineKeepsExport, HandlerKeepsExport DEF ExportStep
  <2>2. CASE ~ ExportStep(c)
    <3>1. UNCHANGED export /\ Moves(c)
      BY <1>3, <2>2, ExportStays, RequestsMove
    <3> QED BY <3>1 DEF export, ExportOK, Moves, Follows, TypeOK
  <2> QED BY <2>1, <2>2
<1>4. ASSUME NEW a \in Accounts, seller_edit(a), UNCHANGED export PROVE ExportOK'
  BY <1>1, <1>4 DEF seller_edit
<1>5. CASE (tick \/ late_write) /\ UNCHANGED export
  BY <1>1, <1>5 DEF tick, late_write
<1> QED BY <1>1, <1>2, <1>3, <1>4, <1>5 DEF Next, vars

LEMMA ExportInitOK == Init => ExportOK
BY DEF Init, ExportInit, ExportOK, PipelineOK, EngineFields, NoEngine

\* A finished pipeline leaves the verified deliverable alone or nothing, and only
\* a verified deliverable is an answer, whichever stage failed and whether or not
\* the client or the process was still there; what a panic, a failing removal or a
\* disk that is full leaves behind is never an answer.
THEOREM DeliverablesAreVerified == Spec => []DeliverableIsVerified
<1>1. ExportOK => DeliverableIsVerified
  BY DEF ExportOK, PipelineOK, DeliverableIsVerified
<1> QED BY <1>1, TypeInit, TypeStep, ExportInitOK, ExportStepKeeps, PTL DEF Spec

-----------------------------------------------------------------------------
(* Copies pushed to listings.                                              *)

IsProduct(p) ==
    /\ DOMAIN p = {"title", "description", "gallery"}
    /\ DOMAIN p.gallery = {"images", "colour", "extra", "unlisted"}

\* Every account has its product, with a title and a description.
ShopOK ==
    /\ DOMAIN shop = Accounts
    /\ \A a \in Accounts : IsProduct(shop[a])
    /\ CopyIsNotBlanked

\* A product that only gets other pictures, or a copy, keeps its texts.
LEMMA ProductKeepsTexts ==
    ASSUME NEW p, IsProduct(p),
           p.title # Blank, p.description # Blank, NEW fields, NEW images
    PROVE  /\ IsProduct(pictures_import(p, images))
           /\ pictures_import(p, images).title # Blank
           /\ pictures_import(p, images).description # Blank
           /\ IsProduct(product_update_copy(p, fields))
           /\ product_update_copy(p, fields).title # Blank
           /\ product_update_copy(p, fields).description # Blank
BY DEF IsProduct, pictures_import, product_update_copy

\* The product of one account is replaced.
LEMMA ShopMoves ==
    ASSUME ShopOK, NEW a, NEW p, shop' = [shop EXCEPT ![a] = p],
           a \in Accounts => /\ IsProduct(p)
                             /\ p.title # Blank /\ p.description # Blank
    PROVE  ShopOK'
BY DEF ShopOK, CopyIsNotBlanked

\* The steps that leave the products, or the report, alone.
LEMMA ListingsStay ==
    ASSUME NEW c \in Calls,
           SettingsStep(c) \/ SettingsRequest(c) \/ PairingStep(c) \/ ExportStep(c) \/ ListingStep(c)
    PROVE  /\ UNCHANGED shop \/ relist_push_one(c) \/ module3_push_write(c)
           /\ UNCHANGED report \/ module3_push_one(c)
BY DEF SettingsStep, SettingsRequest, PairingStep, ExportStep, ListingStep, listing,
       start_openclaw_pairing, claim_openclaw_pairing, start_locked, claim_locked,
       ozon_products_read, product_get, poster_generate, relist_edit_image, chat_completion,
       relist_push_one, module3_push_one, module3_push_write

LEMMA PushKeepsShop ==
    ASSUME ShopOK, NEW c \in Calls, relist_push_one(c) \/ module3_push_write(c)
    PROVE  ShopOK'
<1> DEFINE a == call[c].account
<1>1. CASE UNCHANGED shop
  BY <1>1 DEF ShopOK, CopyIsNotBlanked
<1>2. a \in Accounts => /\ IsProduct(shop[a])
                        /\ shop[a].title # Blank /\ shop[a].description # Blank
  BY DEF ShopOK, CopyIsNotBlanked
<1>3. CASE relist_push_one(c) /\ ~ UNCHANGED shop
  <2>1. PICK images : shop' = [shop EXCEPT ![a] = pictures_import(@, images)]
    BY <1>3 DEF relist_push_one
  <2>2. shop' = [shop EXCEPT ![a] = pictures_import(shop[a], images)]
    <3>1. CASE a \in Accounts
      BY <2>1, <3>1 DEF ShopOK
    <3>2. CASE a \notin Accounts
      BY <2>1, <3>2 DEF ShopOK
    <3> QED BY <3>1, <3>2
  <2>3. PICK p : p = pictures_import(shop[a], images)
    OBVIOUS
  <2>4. a \in Accounts => /\ IsProduct(p)
                          /\ p.title # Blank /\ p.description # Blank
    BY <1>2, <2>3, ProductKeepsTexts
  <2> HIDE DEF a
  <2> QED BY <2>2, <2>3, <2>4, ShopMoves
<1>4. CASE module3_push_write(c) /\ ~ UNCHANGED shop
  <2>1. PICK fields : shop' = [shop EXCEPT ![a] = product_update_copy(@, fields)]
    BY <1>4 DEF module3_push_write
  <2>2. shop' = [shop EXCEPT ![a] = product_update_copy(shop[a], fields)]
    <3>1. CASE a \in Accounts
      BY <2>1, <3>1 DEF ShopOK
    <3>2. CASE a \notin Accounts
      BY <2>1, <3>2 DEF ShopOK
    <3> QED BY <3>1, <3>2
  <2>3. PICK p : p = product_update_copy(shop[a], fields)
    OBVIOUS
  <2>4. a \in Accounts => /\ IsProduct(p)
                          /\ p.title # Blank /\ p.description # Blank
    BY <1>2, <2>3, ProductKeepsTexts
  <2> HIDE DEF a
  <2> QED BY <2>2, <2>3, <2>4, ShopMoves
<1> QED BY <1>1, <1>3, <1>4

LEMMA ShopStepKeeps == ShopOK /\ [Next]_vars => ShopOK'
<1> SUFFICES ASSUME ShopOK, [Next]_vars PROVE ShopOK'
  OBVIOUS
<1>1. CASE UNCHANGED shop
  BY <1>1 DEF ShopOK, CopyIsNotBlanked
<1>2. ASSUME NEW c \in Calls,
             SettingsStep(c) \/ SettingsRequest(c) \/ PairingStep(c) \/ ExportStep(c) \/ ListingStep(c)
      PROVE  ShopOK'
  BY <1>1, <1>2, ListingsStay, PushKeepsShop
<1>3. ASSUME NEW a \in Accounts, seller_edit(a) PROVE ShopOK'
  <2>1. PICK s : shop' = [shop EXCEPT ![a].gallery.images = @ \cup {s}]
    BY <1>3 DEF seller_edit
  <2> DEFINE g == [shop[a].gallery EXCEPT !.images = shop[a].gallery.images \cup {s}]
             p == [shop[a] EXCEPT !.gallery = g]
  <2>2. shop' = [shop EXCEPT ![a] = p]
    BY <2>1 DEF ShopOK
  <2>3. /\ IsProduct(p)
        /\ p.title # Blank /\ p.description # Blank
    BY DEF IsProduct, ShopOK, CopyIsNotBlanked
  <2> HIDE DEF p
  <2> QED BY <2>2, <2>3, ShopMoves
<1> QED BY <1>1, <1>2, <1>3 DEF Next, vars, listing, restart

LEMMA ShopInitOK == Init => ShopOK
<1>1. \A g \in Galleries : DOMAIN g = {"images", "colour", "extra", "unlisted"}
  BY GalleriesAssumption DEF Gallery
<1> QED BY <1>1, TextsAssumption DEF Init, ListingsInit, ShopOK, IsProduct, CopyIsNotBlanked

\* No push of pictures or of a copy empties the title or the description of a
\* product, whatever the model or a degraded read proposed.
THEOREM CopiesAreNotBlanked == Spec => []CopyIsNotBlanked
<1>1. ShopOK => CopyIsNotBlanked
  BY DEF ShopOK
<1> QED BY <1>1, ShopInitOK, ShopStepKeeps, PTL DEF Spec

\* The dictionary of the category ends within the pages the connector reads, and
\* only its last page may be without ids.
WholeDictionaryIsRead ==
    /\ Len(Pages) \in Nat /\ MaxPages \in Nat
    /\ 1 <= Len(Pages) /\ Len(Pages) <= MaxPages
    /\ \A i \in 1..Len(Pages) : i = Len(Pages) \/ Pages[i] # {}

Dictionary == UNION {Pages[i] : i \in 1..Len(Pages)}

\* Then the connector returns every value of it that is not blank.
LEMMA DictionaryIsRead ==
    ASSUME WholeDictionaryIsRead
    PROVE  \A v : v \in description_category_attribute_values <=>
                    v # Blank /\ v \in Dictionary
<1> DEFINE Stops(n) == /\ n = Len(Pages) \/ Pages[n] = {} \/ n = MaxPages
                       /\ \A i \in 1..(n - 1) : Pages[i] # {} /\ i # MaxPages
<1>1. Len(Pages) \in 1..Len(Pages) /\ Stops(Len(Pages))
  BY DEF WholeDictionaryIsRead
<1>2. PagesRead \in 1..Len(Pages) /\ Stops(PagesRead)
  <2> HIDE DEF Stops
  <2>1. PagesRead = CHOOSE n \in 1..Len(Pages) : Stops(n)
    BY DEF PagesRead, Stops
  <2> QED BY <1>1, <2>1
<1>3. PagesRead = Len(Pages)
  BY <1>2 DEF WholeDictionaryIsRead
<1> QED BY <1>3 DEF description_category_attribute_values, Dictionary

\* The match of a copy with the dictionary, when what it needs of it was fetched.
LEMMA MatchIsAccounted ==
    ASSUME NEW attributes, NEW values, NEW dictionary,
           module3_referenced_dictionary_ids(attributes) # {} =>
             \A v : v \in values <=> v # Blank /\ v \in dictionary,
           NEW a \in attributes
    PROVE  LET outcome == module3_match_attributes(attributes, values)
               known(v) == a.name \in FreeNames \/ (a.name \in DictionaryNames /\ v \in dictionary)
           IN  /\ \A v \in a.values \ {Blank} :
                    /\ <<a.name, v>> \in outcome.written <=> known(v)
                    /\ known(v) \/ {<<a.name, v>>, <<a.name, None>>} \cap outcome.dropped # {}
               /\ a.values \subseteq {Blank} /\ a.name \notin DictionaryNames
                    => <<a.name, None>> \in outcome.dropped
<1> DEFINE outcome == module3_match_attributes(attributes, values)
           known(v) == a.name \in FreeNames \/ (a.name \in DictionaryNames /\ v \in dictionary)
<1>1. a.name \in DictionaryNames => \A v : v \in values <=> v # Blank /\ v \in dictionary
  BY DEF module3_referenced_dictionary_ids
<1>2. /\ outcome.written = UNION {Written(b, values) : b \in attributes}
      /\ outcome.dropped = UNION {Dropped(b, values) : b \in attributes}
  BY DEF module3_match_attributes
<1>3. Dropped(a, values) \subseteq outcome.dropped /\ Written(a, values) \subseteq outcome.written
  BY <1>2
<1> HIDE DEF outcome
<1>4. ASSUME NEW v \in a.values \ {Blank}, known(v) PROVE <<a.name, v>> \in outcome.written
  <2>1. <<a.name, v>> \in Written(a, values)
    BY <1>1, <1>4 DEF Written
  <2> QED BY <1>3, <2>1
<1>5. ASSUME NEW v \in a.values \ {Blank}, <<a.name, v>> \in outcome.written PROVE known(v)
  <2>1. PICK b \in attributes : <<a.name, v>> \in Written(b, values)
    BY <1>2, <1>5
  <2>2. PICK w : /\ <<a.name, v>> = <<b.name, w>>
                 /\ b.name \in FreeNames \/ (b.name \in DictionaryNames /\ w \in values)
    BY <2>1 DEF Written
  <2>3. a.name = b.name /\ v = w
    BY <2>2
  <2> QED BY <1>1, <2>2, <2>3
<1>6. ASSUME NEW v \in a.values \ {Blank}, ~ known(v)
      PROVE  {<<a.name, v>>, <<a.name, None>>} \cap outcome.dropped # {}
  <2>1. CASE a.name \in DictionaryNames
    <3>1. v \in a.values \ (values \cup {Blank})
      BY <1>1, <1>6, <2>1
    <3>2. <<a.name, v>> \in Dropped(a, values)
      BY <2>1, <3>1 DEF Dropped
    <3> QED BY <1>3, <3>2
  <2>2. CASE a.name \notin DictionaryNames
    <3>1. <<a.name, None>> \in Dropped(a, values)
      BY <1>6, <2>2 DEF Dropped
    <3> QED BY <1>3, <3>1
  <2> QED BY <2>1, <2>2
<1>7. ASSUME a.values \subseteq {Blank}, a.name \notin DictionaryNames
      PROVE  <<a.name, None>> \in outcome.dropped
  <2>1. <<a.name, None>> \in Dropped(a, values)
    BY <1>7 DEF Dropped
  <2> QED BY <1>3, <2>1
<1> QED BY <1>4, <1>5, <1>6, <1>7 DEF outcome

\* A copy push reports the match it made.
LEMMA MatchKeepsReport ==
    ASSUME WholeDictionaryIsRead, NEW c \in Calls, module3_push_one(c), CopyIsAccountedFor
    PROVE  CopyIsAccountedFor'
<1>1. CASE UNCHANGED report
  BY <1>1 DEF CopyIsAccountedFor
<1>2. CASE ~ UNCHANGED report
  <2> DEFINE attributes == call[c].value[1].attributes
             values == IF module3_referenced_dictionary_ids(attributes) = {} THEN {}
                       ELSE description_category_attribute_values
             outcome == module3_match_attributes(attributes, values)
  <2>1. report' = [fields |-> call[c].value[1], written |-> outcome.written,
                   dropped |-> outcome.dropped]
    BY <1>2 DEF module3_push_one
  <2>2. module3_referenced_dictionary_ids(attributes) # {} =>
          \A v : v \in values <=> v # Blank /\ v \in Dictionary
    BY DictionaryIsRead
  <2>3. /\ report'.fields.attributes = attributes
        /\ report'.written = outcome.written /\ report'.dropped = outcome.dropped
    BY <2>1
  <2> HIDE DEF attributes, values
  <2>4. ASSUME NEW a \in attributes
        PROVE  LET known(v) == a.name \in FreeNames
                               \/ (a.name \in DictionaryNames /\ v \in Dictionary)
               IN  /\ \A v \in a.values \ {Blank} :
                        /\ <<a.name, v>> \in outcome.written <=> known(v)
                        /\ known(v) \/ {<<a.name, v>>, <<a.name, None>>} \cap outcome.dropped # {}
                   /\ a.values \subseteq {Blank} /\ a.name \notin DictionaryNames
                        => <<a.name, None>> \in outcome.dropped
    BY <2>2, MatchIsAccounted
  <2>5. \A v : v \in Dictionary <=> \E i \in 1..Len(Pages) : v \in Pages[i]
    BY DEF Dictionary
  <2> HIDE DEF outcome
  <2> QED BY <2>3, <2>4, <2>5 DEF CopyIsAccountedFor
<1> QED BY <1>1, <1>2

LEMMA ReportStepKeeps ==
    ASSUME WholeDictionaryIsRead PROVE CopyIsAccountedFor /\ [Next]_vars => CopyIsAccountedFor'
<1> SUFFICES ASSUME CopyIsAccountedFor, [Next]_vars PROVE CopyIsAccountedFor'
  OBVIOUS
<1>1. CASE UNCHANGED report
  BY <1>1 DEF CopyIsAccountedFor
<1>2. ASSUME NEW c \in Calls,
             SettingsStep(c) \/ SettingsRequest(c) \/ PairingStep(c) \/ ExportStep(c) \/ ListingStep(c)
      PROVE  CopyIsAccountedFor'
  BY <1>1, <1>2, ListingsStay, MatchKeepsReport
<1> QED BY <1>1, <1>2 DEF Next, vars, listing, tick, restart, seller_edit

\* When the connector reads the whole dictionary of the category, every value of
\* a reviewed copy is written exactly when the category knows it and is reported
\* otherwise, whatever the copy, the category and the dictionary.
THEOREM CopiesAreAccountedFor ==
    ASSUME WholeDictionaryIsRead PROVE Spec => []CopyIsAccountedFor
<1>1. Init => CopyIsAccountedFor
  BY DEF Init, ListingsInit, CopyIsAccountedFor
<1>2. CopyIsAccountedFor /\ [Next]_vars => CopyIsAccountedFor'
  BY ReportStepKeeps
<1> QED BY <1>1, <1>2, PTL DEF Spec

-----------------------------------------------------------------------------
(* The device and the lease gate.                                          *)

\* Where a request stands when it takes a step that is not one of the settings.
LEMMA Places ==
    ASSUME NEW c \in Calls
    PROVE  /\ SettingsRequest(c) => call[c].at = "idle"
           /\ PairingStep(c) => call[c].at \in {"idle", "start", "claim"}
           /\ ExportStep(c) => call[c].at \in {"engine", "waiting"} \/ UNCHANGED call
           /\ ListingStep(c) => call[c].at \in {"ozon", "routed", "import", "dictionary", "update"}
<1>1. SettingsRequest(c) => call[c].at = "idle"
  BY DEF SettingsRequest, Begin, save_ozon_config, save_openai_config, edit_model_registry,
         save_secret, save_portal_lease, portal_status, config_status, validate_ozon_config,
         gated_request
<1>2. PairingStep(c) => call[c].at \in {"idle", "start", "claim"}
  BY DEF PairingStep, Begin, start_openclaw_pairing, claim_openclaw_pairing, start_locked,
         claim_locked
<1>3. ExportStep(c) => call[c].at \in {"engine", "waiting"} \/ UNCHANGED call
  BY DEF ExportStep, relist_export, run_inject, run_process, run_verify, answer_export
<1>4. ListingStep(c) => call[c].at \in {"ozon", "routed", "import", "dictionary", "update"}
  BY DEF ListingStep, ozon_products_read, product_get, poster_generate, relist_edit_image,
         chat_completion, relist_push_one, module3_push_one, module3_push_write
<1> QED BY <1>1, <1>2, <1>3, <1>4

\* The steps that can move a request along the gate.
LEMMA GateSteps ==
    ASSUME TypeOK, NEW c \in Calls,
           SettingsStep(c) \/ SettingsRequest(c) \/ PairingStep(c) \/ ExportStep(c) \/ ListingStep(c),
           call[c].at \in {"lease", "lease_fill", "fingerprint", "mint"}, ~ UNCHANGED call
    PROVE  \/ load_cloud_lease(c) \/ load_cloud_lease_stored(c) \/ load_cloud_lease_fill(c)
           \/ load_or_create_device_fingerprint(c) \/ mint_fingerprint(c)
           \/ drop_call(c) /\ call'[c] = Done
<1>1. SettingsStep(c)
  BY Places
<1>2. drop_call(c) => call'[c] = Done
  BY DEF drop_call, Finish, TypeOK
<1> QED
  BY <1>1, <1>2 DEF SettingsStep, load_credentials, load_persisted_model_registry,
     load_persisted_model_registry_stored, load_persisted_model_registry_fill,
     get_model_registry, save_model_registry, inspect_settings, load_persisted_openai_config,
     put_setting, fill_setting

\* What was spoiled stays spoiled.
LEMMA SpoiledGrows ==
    ASSUME NEW c \in Calls,
           SettingsStep(c) \/ SettingsRequest(c) \/ PairingStep(c) \/ ExportStep(c) \/ ListingStep(c)
    PROVE  spoiled \subseteq spoiled'
<1>1. \A n : EnterSave(c, n) => spoiled \subseteq spoiled'
  BY DEF EnterSave
<1>2. \A n, answer : EnterFill(c, n, answer) => spoiled \subseteq spoiled'
  BY DEF EnterFill
<1>3. \A f, lost : Identified(c, f, lost) => spoiled \subseteq spoiled'
  BY DEF Identified
<1>4. CASE SettingsStep(c)
  <2>1. CASE load_or_create_device_fingerprint(c)
    BY <1>3, <2>1 DEF load_or_create_device_fingerprint
  <2>2. CASE mint_fingerprint(c)
    BY <1>3, <2>2 DEF mint_fingerprint
  <2> QED
    BY <1>1, <1>2, <1>4, <2>1, <2>2
       DEF SettingsStep, settings, copies, load_cloud_lease, load_cloud_lease_stored,
           load_cloud_lease_fill, load_credentials, load_persisted_model_registry,
           load_persisted_model_registry_stored, load_persisted_model_registry_fill,
           get_model_registry, save_model_registry, inspect_settings,
           load_persisted_openai_config, put_setting, fill_setting, drop_call
<1>5. CASE SettingsRequest(c)
  BY <1>1, <1>5 DEF SettingsRequest, settings, copies, save_ozon_config, save_openai_config,
     edit_model_registry, save_secret, save_portal_lease, portal_status, config_status,
     validate_ozon_config, gated_request
<1>6. CASE PairingStep(c) \/ ExportStep(c) \/ ListingStep(c)
  BY <1>6 DEF PairingStep, ExportStep, ListingStep, settings, copies,
     start_openclaw_pairing, claim_openclaw_pairing, start_locked, claim_locked,
     relist_export, run_inject, run_process, run_verify, answer_export,
     ozon_products_read, product_get, poster_generate, relist_edit_image, chat_completion,
     relist_push_one, module3_push_one, module3_push_write
<1> QED BY <1>4, <1>5, <1>6

\* What a request is after its device was identified.
LEMMA IdentifiedIs ==
    ASSUME TypeOK, NEW c \in Calls, NEW f, NEW lost, Identified(c, f, lost),
           call[c].at \in {"fingerprint", "mint"}
    PROVE  /\ Moves(c) /\ shown' = shown \cup {f} /\ lost \subseteq spoiled'
           /\ call'[c].at \in {"done", "inspect", "put", "engine", "cred"}
           /\ call'[c].kind \in Gated => call[c].lease.device = f
<1>1. Moves(c) /\ shown' = shown \cup {f} /\ lost \subseteq spoiled'
  BY IdentifiedMoves DEF Identified
<1>2. CASE Finish(c)
  BY <1>1, <1>2, FinishMoves, DoneIs, KindsAssumption
<1>5. CASE Goto(c, "inspect") /\ call[c].kind = "portal_status"
  BY <1>1, <1>5, GotoMoves DEF Gated
<1>3. CASE Goto(c, "put") /\ call[c].kind = "save_lease"
  BY <1>1, <1>3, GotoMoves DEF Gated
<1>4. CASE Goto(c, Admitted(call[c].kind)) /\ call[c].lease.device = f
  BY <1>1, <1>4, GotoMoves DEF Admitted
<1> QED BY <1>1, <1>2, <1>3, <1>4, <1>5 DEF Identified, ensure_lease_bound_to_device

\* The node shows the fingerprint of its hardware, or the one it has stored; while
\* a fingerprint is being made there is none yet.
IdentityOK ==
    /\ config.stable => \A c \in Calls : call[c].at # "mint"
    /\ "fingerprint" \notin spoiled =>
         /\ config.stable => shown \subseteq {Hardware}
         /\ ~ config.stable => shown = {store["fingerprint"]} \cap Fingerprints
         /\ \A c \in Calls : call[c].at = "mint" => ~ Readable(store["fingerprint"])
         /\ \A c, d \in Calls : call[c].at = "mint" /\ call[d].at = "mint" => c = d

LEMMA IdentityInitOK == Init => IdentityOK
BY DoneIs DEF Init, SettingsInit, IdentityOK, Idle

\* A step that neither shows nor makes a fingerprint.
LEMMA IdentityStays ==
    ASSUME IdentityOK, spoiled \subseteq spoiled', UNCHANGED <<config, shown>>,
           store'["fingerprint"] = store["fingerprint"],
           \A c \in Calls : call'[c].at = "mint" => call[c].at = "mint"
    PROVE  IdentityOK'
BY DEF IdentityOK, Readable

\* The steps that change the fingerprint of the node or show it.
LEMMA IdentitySteps ==
    ASSUME TypeOK, NEW c \in Calls, SettingsStep(c)
    PROVE  \/ load_or_create_device_fingerprint(c) \/ mint_fingerprint(c)
           \/ UNCHANGED shown /\ store'["fingerprint"] = store["fingerprint"]
<1>1. LayersOK /\ "fingerprint" \in Names
  BY DEF TypeOK, Names, Reserved
<1>2. CASE put_setting(c)
  <2>1. PICK n, v : n = Target(call[c].kind) /\ v = call[c].value
    OBVIOUS
  <2>2. n \in Names /\ n # "fingerprint" /\ v \in Setting(n)
    BY <1>2, <2>1, SaveIs DEF put_setting, TypeOK, Cached, Names, Reserved
  <2>3. UNCHANGED shown /\ ((\E lost : Put(n, v, lost)) \/ PutFails(n, v))
    BY <1>2, <2>1 DEF put_setting
  <2> QED BY <1>1, <2>2, <2>3, PutStores, PutFailsKeeps
<1>3. CASE drop_call(c)
  BY <1>3, StoreStays DEF drop_call
<1>4. CASE Reads(c) /\ ~ load_or_create_device_fingerprint(c)
  <2>1. UNCHANGED shown
    BY <1>4 DEF Reads, copies, load_cloud_lease_stored, load_credentials,
       load_persisted_model_registry_stored, save_model_registry, inspect_settings,
       load_persisted_openai_config
  <2> QED BY <1>4, <2>1, ReadsKeepStore
<1>5. CASE ~ Reads(c) /\ ~ mint_fingerprint(c) /\ ~ put_setting(c) /\ ~ drop_call(c)
  <2>1. UNCHANGED shown
    BY <1>5 DEF SettingsStep, Reads, settings, copies, load_cloud_lease, load_cloud_lease_fill,
       load_persisted_model_registry, load_persisted_model_registry_fill, get_model_registry,
       fill_setting
  <2> QED BY <1>5, <2>1, OthersKeepStore
<1> QED BY <1>2, <1>3, <1>4, <1>5

LEMMA LoadKeepsIdentity ==
    ASSUME TypeOK, IdentityOK, NEW c \in Calls, load_or_create_device_fingerprint(c),
           spoiled \subseteq spoiled'
    PROVE  IdentityOK'
<1>1. /\ Moves(c) /\ UNCHANGED config /\ call[c].at = "fingerprint"
      /\ "fingerprint" \in Names /\ Setting("fingerprint") = Fingerprints
  BY DeviceMoves DEF load_or_create_device_fingerprint, world, Names, Reserved, Setting
<1>2. store' = store
  BY ReadsKeepStore DEF Reads
<1>3. ASSUME NEW f, NEW lost, Identified(c, f, lost), config.stable => f = Hardware,
             ~ config.stable => \/ f = store["fingerprint"] /\ Readable(f)
                                \/ lost = {"fingerprint"}
      PROVE  IdentityOK'
  <2>1. shown' = shown \cup {f} /\ call'[c].at # "mint" /\ lost \subseteq spoiled'
    BY <1>1, <1>3, IdentifiedIs
  <2>2. Readable(store["fingerprint"]) => store["fingerprint"] \in Fingerprints
    BY <1>1 DEF TypeOK, StoreOK, Readable
  <2> QED BY <1>1, <1>2, <1>3, <2>1, <2>2 DEF IdentityOK, Moves, Readable
<1>4. CASE config.stable
  BY <1>3, <1>4 DEF load_or_create_device_fingerprint
<1>5. CASE ~ config.stable
  <2>1. PICK answer :
           \/ Readable(answer) /\ Identified(c, answer, Mistaken(answer))
           \/ Finish(c) /\ UNCHANGED shown
           \/ /\ Goto(c, "mint") /\ UNCHANGED shown
              /\ \/ "fingerprint" \in spoiled'
                 \/ /\ ~ Readable(store["fingerprint"])
                    /\ \A d \in Calls : call[d].at # "mint"
    BY <1>5 DEF load_or_create_device_fingerprint
  <2>2. CASE Readable(answer) /\ Identified(c, answer, Mistaken(answer))
    BY <1>1, <1>3, <1>5, <2>2 DEF Mistaken
  <2>3. CASE Finish(c) /\ UNCHANGED shown
    <3>1. call'[c].at # "mint"
      BY <1>1, <2>3, FinishMoves, DoneIs
    <3> QED BY <1>1, <1>2, <2>3, <3>1, IdentityStays DEF Moves
  <2>4. CASE /\ Goto(c, "mint") /\ UNCHANGED shown
             /\ \/ "fingerprint" \in spoiled'
                \/ /\ ~ Readable(store["fingerprint"])
                   /\ \A d \in Calls : call[d].at # "mint"
    <3>1. ASSUME "fingerprint" \notin spoiled'
          PROVE  /\ ~ Readable(store["fingerprint"])
                 /\ \A d \in Calls : call'[d].at = "mint" => d = c
      BY <1>1, <2>4, <3>1 DEF Moves
    <3> QED BY <1>1, <1>2, <1>5, <2>4, <3>1 DEF IdentityOK, Readable
  <2> QED BY <2>1, <2>2, <2>3, <2>4
<1> QED BY <1>4, <1>5

LEMMA MintKeepsIdentity ==
    ASSUME TypeOK, IdentityOK, NEW c \in Calls, mint_fingerprint(c), spoiled \subseteq spoiled'
    PROVE  IdentityOK'
<1>1. /\ Moves(c) /\ UNCHANGED config /\ call[c].at = "mint" /\ ~ config.stable /\ LayersOK
      /\ "fingerprint" \in Names /\ Setting("fingerprint") = Fingerprints
  BY DeviceMoves DEF mint_fingerprint, world, IdentityOK, TypeOK, Names, Reserved, Setting
<1>2. PICK n : n = "fingerprint"
  OBVIOUS
<1>3. PICK f \in Fingerprints :
        \/ \E lost : Put(n, f, lost) /\ Identified(c, f, lost)
        \/ PutFails(n, f) /\ Finish(c) /\ UNCHANGED shown
  BY <1>2 DEF mint_fingerprint, Fresh
<1>4. n \in Names /\ f \in Setting(n)
  BY <1>1, <1>2
<1>5. CASE PutFails(n, f) /\ Finish(c) /\ UNCHANGED shown
  <2>1. call'[c].at # "mint"
    BY <1>1, <1>5, FinishMoves, DoneIs
  <2>2. store' = store
    BY <1>1, <1>4, <1>5, PutFailsKeeps
  <2> QED BY <1>1, <1>5, <2>1, <2>2, IdentityStays DEF Moves
<1>6. CASE \E lost : Put(n, f, lost) /\ Identified(c, f, lost)
  <2>1. PICK lost : Put(n, f, lost) /\ Identified(c, f, lost)
    BY <1>6
  <2>2. lost \in {{}, {n}} /\ (lost = {} => store'[n] = f)
    BY <1>1, <1>4, <2>1, PutStores
  <2>3. shown' = shown \cup {f} /\ call'[c].at # "mint" /\ lost \subseteq spoiled'
    BY <1>1, <2>1, IdentifiedIs
  <2>4. ASSUME "fingerprint" \notin spoiled'
        PROVE  /\ store'["fingerprint"] = f
               /\ shown = {} /\ \A d \in Calls : call'[d].at # "mint"
    <3>1. store'["fingerprint"] = f
      BY <1>2, <2>2, <2>3, <2>4
    <3>2. ~ Readable(store["fingerprint"]) /\ \A d \in Calls : call[d].at = "mint" => d = c
      BY <1>1, <2>4 DEF IdentityOK
    <3>3. store["fingerprint"] \notin Fingerprints
      BY <1>1, <3>2, ValuesAssumption DEF Readable
    <3>4. shown = {}
      BY <1>1, <2>4, <3>3 DEF IdentityOK
    <3> QED BY <1>1, <2>3, <3>1, <3>2, <3>4 DEF Moves
  <2> QED BY <1>1, <2>3, <2>4 DEF IdentityOK
<1> QED BY <1>3, <1>5, <1>6

LEMMA IdentityStepKeeps == TypeOK /\ IdentityOK /\ [Next]_vars => IdentityOK'
<1> SUFFICES ASSUME TypeOK, IdentityOK, [Next]_vars PROVE IdentityOK'
  OBVIOUS
<1>1. ASSUME NEW c \in Calls,
             SettingsStep(c) \/ SettingsRequest(c) \/ PairingStep(c) \/ ExportStep(c) \/ ListingStep(c)
      PROVE  IdentityOK'
  <2>1. spoiled \subseteq spoiled'
    BY <1>1, SpoiledGrows
  <2>2. CASE load_or_create_device_fingerprint(c) \/ mint_fingerprint(c)
    BY <2>1, <2>2, LoadKeepsIdentity, MintKeepsIdentity
  <2>3. CASE ~ load_or_create_device_fingerprint(c) /\ ~ mint_fingerprint(c)
    <3>1. UNCHANGED shown /\ store'["fingerprint"] = store["fingerprint"]
      BY <1>1, <2>3, SettingsStay, IdentitySteps
    <3>2. UNCHANGED config
      BY <1>1, SettingsStay DEF SettingsStep, world, load_cloud_lease, load_cloud_lease_stored,
         load_cloud_lease_fill, load_or_create_device_fingerprint, mint_fingerprint,
         load_credentials, load_persisted_model_registry, load_persisted_model_registry_stored,
         load_persisted_model_registry_fill, get_model_registry, save_model_registry,
         inspect_settings, load_persisted_openai_config, put_setting, fill_setting, drop_call
    <3>3. \A d \in Calls : call'[d].at = "mint" => call[d].at = "mint"
      <4>1. CASE UNCHANGED call
        BY <4>1
      <4>2. CASE ~ UNCHANGED call
        <5>1. Moves(c)
          BY <1>1, <4>2, RequestsMove
        <5>2. call[c].at = "fingerprint" => call'[c].at # "mint"
          BY <1>1, <2>3, <4>2, GateSteps, DoneIs
             DEF load_cloud_lease, load_cloud_lease_stored, load_cloud_lease_fill
        <5> QED BY <5>1, <5>2 DEF Moves, Follows
      <4> QED BY <4>1, <4>2
    <3> QED BY <2>1, <3>1, <3>2, <3>3, IdentityStays
  <2> QED BY <2>2, <2>3
<1>2. ASSUME NEW a \in Accounts, seller_edit(a) PROVE IdentityOK'
  <2>1. spoiled \subseteq spoiled' /\ UNCHANGED <<config, shown, keyring, file, call>>
    BY <1>2 DEF seller_edit, layers, world
  <2> QED BY <2>1, StoreStays, IdentityStays
<1>3. CASE restart
  <2>1. /\ UNCHANGED <<shown, keyring, file>> /\ \A c \in Calls : call'[c].at # "mint"
        /\ \/ UNCHANGED <<config, spoiled>>
           \/ spoiled' = spoiled \cup {"fingerprint"}
    BY <1>3, DoneIs DEF restart, restart_settings, Idle
  <2>2. store' = store
    BY <2>1, StoreStays
  <2>3. CASE UNCHANGED <<config, spoiled>>
    BY <2>1, <2>2, <2>3, IdentityStays
  <2>4. CASE spoiled' = spoiled \cup {"fingerprint"}
    BY <2>1, <2>4 DEF IdentityOK
  <2> QED BY <2>1, <2>3, <2>4
<1>4. CASE tick \/ UNCHANGED vars
  <2>1. UNCHANGED <<config, shown, call, spoiled, keyring, file>>
    BY <1>4 DEF tick, vars, settings, layers, copies, world
  <2> QED BY <2>1, StoreStays, IdentityStays
<1>5. CASE late_write
  <2>1. UNCHANGED <<config, shown, call>> /\ spoiled \subseteq spoiled'
    BY <1>5, LateWriteKeeps DEF late_write, world, TypeOK
  <2>2. "fingerprint" \in spoiled' \/ store'["fingerprint"] = store["fingerprint"]
    BY <1>5, LateWriteKeeps DEF TypeOK, Names, Reserved
  <2>3. CASE "fingerprint" \in spoiled'
    BY <2>1, <2>3 DEF IdentityOK
  <2> QED BY <2>1, <2>2, <2>3, IdentityStays
<1> QED BY <1>1, <1>2, <1>3, <1>4, <1>5 DEF Next

\* The node is one device: through restarts, failures of the store and every order
\* of requests, all that were answered got the same fingerprint, unless the first
\* requests overlapped, the store denied a fingerprint it held or lost one it had
\* accepted, or the hardware probe changed its answer.
THEOREM FingerprintsAreStable == Spec => []FingerprintIsStable
<1>1. IdentityOK => FingerprintIsStable
  <2> SUFFICES ASSUME IdentityOK, "fingerprint" \notin spoiled PROVE Cardinality(shown) <= 1
    BY DEF FingerprintIsStable
  <2>1. PICK f : shown \subseteq {f}
    BY DEF IdentityOK
  <2>2. shown = {} \/ shown = {f}
    BY <2>1
  <2> QED BY <2>2, FS_EmptySet, FS_Singleton
<1> QED BY <1>1, TypeInit, TypeStep, IdentityInitOK, IdentityStepKeeps, PTL DEF Spec

\* The lease of a request was valid when the request arrived.
Valid(k) ==
    /\ k.lease.expires > k.since
    /\ k.lease.defect = "no" \/ (k.lease.defect = "unsigned" /\ config.allow_unsigned_lease)

\* Once the lease was read it is valid, and once the device was identified the
\* lease is bound to it.
Passed(k) ==
    k.kind \in Gated /\ ~ GateIsOpen /\ k.at \notin {"lease", "lease_fill"} =>
        Valid(k) /\ (k.at \notin {"fingerprint", "mint"} => k.lease.device \in shown)

GateOK ==
    \A c \in Calls : /\ call[c].at \notin {"idle", "done"} => call[c].since <= now
                     /\ Passed(call[c])

LEMMA GateInitOK == Init => GateOK
BY DoneIs, KindsAssumption DEF Init, SettingsInit, GateOK, Passed, Idle

\* A validated lease is valid for the request it was read for.
LEMMA ValidatedIs ==
    ASSUME TypeOK, NEW k, k.since \in Nat, k.since <= now, k.lease \in Lease,
           validate_cloud_lease_with_feature(k.lease)
    PROVE  Valid(k)
<1>1. MaxTime \in Nat
  BY SettingsAssumption, Zenon
<1>2. k.lease.expires > now /\ now \in Nat /\ k.lease.expires \in Nat
  BY <1>1 DEF TypeOK, validate_cloud_lease_with_feature, validate_cloud_lease, Lease
<1>3. k.lease.defect = "no" \/ (k.lease.defect = "unsigned" /\ config.allow_unsigned_lease)
  BY DEF validate_cloud_lease_with_feature, validate_cloud_lease, verify_cloud_lease_signature,
         Lease
<1> QED BY <1>2, <1>3 DEF Valid

\* A request that moves elsewhere than at the gate.
LEMMA GateMoves ==
    ASSUME TypeOK, GateOK, NEW c \in Calls, Moves(c), UNCHANGED <<config, now>>,
           shown \subseteq shown', Passed(call[c])'
    PROVE  GateOK'
<1>1. call'[c].at \notin {"idle", "done"} => call'[c].since <= now
  BY DEF Moves, Follows, TypeOK, GateOK
<1>2. \A d \in Calls : d # c => Passed(call[d])' /\ call'[d] = call[d]
  BY DEF GateOK, Passed, Valid, GateIsOpen, Moves
<1> QED BY <1>1, <1>2 DEF GateOK

LEMMA PassedStays ==
    ASSUME TypeOK, GateOK, NEW c \in Calls, Moves(c), UNCHANGED config, shown \subseteq shown',
           \/ call'[c].at \in {"done", "lease", "lease_fill"}
           \/ call[c].at \notin {"lease", "lease_fill", "fingerprint", "mint"}
           \/ call'[c].at = "mint"
    PROVE  Passed(call[c])'
<1>1. call'[c].at = "done" => call'[c].kind \notin Gated
  BY KindsAssumption DEF Moves, Fits
<1>2. CASE call'[c].at \in {"done", "lease", "lease_fill"}
  BY <1>1, <1>2 DEF Passed
<1>3. CASE call[c].at = "idle"
  BY <1>2, <1>3 DEF Moves, Follows, Passed
<1>4. CASE call'[c].at \notin {"done", "lease", "lease_fill"} /\ call[c].at # "idle"
  <2>1. /\ call'[c].kind = call[c].kind /\ call'[c].since = call[c].since
        /\ call[c].at # "lease" => call'[c].lease = call[c].lease
        /\ call'[c].at = "mint" => call[c].at = "fingerprint"
    BY <1>4 DEF Moves, Follows
  <2>2. Passed(call[c]) /\ (GateIsOpen' <=> GateIsOpen)
    BY DEF GateOK, GateIsOpen
  <2> QED BY <1>4, <2>1, <2>2 DEF Passed, Valid
<1> QED BY <1>2, <1>3, <1>4

LEMMA LeasePasses ==
    ASSUME TypeOK, GateOK, NEW c \in Calls,
           load_cloud_lease(c) \/ load_cloud_lease_stored(c) \/ load_cloud_lease_fill(c)
    PROVE  Passed(call[c])'
<1>1. /\ Moves(c) /\ UNCHANGED <<config, now, shown>> /\ call[c].since \in Nat
      /\ call[c].at \notin {"idle", "done"} /\ call[c].since <= now
  BY LeaseMoves DEF load_cloud_lease, load_cloud_lease_stored, load_cloud_lease_fill, settings,
     copies, world, TypeOK, Fits, GateOK
<1>2. CASE call'[c].at \in {"done", "lease_fill"}
  BY <1>1, <1>2, PassedStays
<1>3. ASSUME NEW l \in Lease, validate_cloud_lease_with_feature(l), call'[c].lease = l,
             call'[c].at = "fingerprint"
      PROVE  Passed(call[c])'
  <2>1. call'[c].since = call[c].since
    BY <1>1, <1>3 DEF Moves, Follows
  <2>2. Valid(call'[c])
    BY <1>1, <1>3, <2>1, ValidatedIs
  <2> QED BY <1>1, <1>3, <2>2 DEF Passed, Valid
<1>4. CASE load_cloud_lease(c)
  <2>1. CASE GateIsOpen
    BY <1>1, <2>1 DEF Passed, GateIsOpen
  <2>2. CASE ~ GateIsOpen /\ validate_cloud_lease_with_feature(cache["lease"])
    <3>1. cache["lease"] \in Lease
      BY <1>4, <2>2 DEF load_cloud_lease, TypeOK, Cached, Setting
    <3>2. call'[c].lease = cache["lease"] /\ call'[c].at = "fingerprint"
      <4> DEFINE k == [call[c] EXCEPT !.at = "fingerprint", !.lease = cache["lease"]]
      <4>1. call' = [call EXCEPT ![c] = k] /\ c \in DOMAIN call
        BY <1>4, <2>2 DEF load_cloud_lease, TypeOK
      <4>2. k.lease = cache["lease"] /\ k.at = "fingerprint"
        BY DEF TypeOK, Fits, RequestFields
      <4> HIDE DEF k
      <4> QED BY <4>1, <4>2
    <3> QED BY <1>3, <2>2, <3>1, <3>2
  <2>3. CASE ~ GateIsOpen /\ ~ validate_cloud_lease_with_feature(cache["lease"])
    BY <1>2, <1>4, <2>3, DoneIs DEF load_cloud_lease, TypeOK
  <2> QED BY <2>1, <2>2, <2>3
<1>5. CASE load_cloud_lease_stored(c)
  <2>1. Finish(c) \/ \E answer : call' = [call EXCEPT ![c].at = "lease_fill", ![c].lease = answer]
    BY <1>5 DEF load_cloud_lease_stored
  <2>2. call'[c].at \in {"done", "lease_fill"}
    BY <2>1, DoneIs DEF Finish, TypeOK, Fits, RequestFields
  <2> QED BY <1>2, <2>2
<1>6. CASE load_cloud_lease_fill(c)
  <2>1. CASE validate_cloud_lease_with_feature(call[c].lease)
    <3>1. call[c].lease \in Lease
      BY <1>6 DEF load_cloud_lease_fill, TypeOK, Fits
    <3>2. call'[c].lease = call[c].lease /\ call'[c].at = "fingerprint"
      BY <1>6, <2>1 DEF load_cloud_lease_fill, TypeOK, Fits, RequestFields
    <3> QED BY <1>3, <2>1, <3>1, <3>2
  <2>2. CASE ~ validate_cloud_lease_with_feature(call[c].lease)
    BY <1>2, <1>6, <2>2, DoneIs DEF load_cloud_lease_fill, TypeOK
  <2> QED BY <2>1, <2>2
<1> QED BY <1>4, <1>5, <1>6

LEMMA DevicePasses ==
    ASSUME TypeOK, GateOK, NEW c \in Calls,
           load_or_create_device_fingerprint(c) \/ mint_fingerprint(c)
    PROVE  Passed(call[c])' /\ shown \subseteq shown'
<1>1. /\ Moves(c) /\ UNCHANGED config /\ call[c].at \in {"fingerprint", "mint"}
  BY DeviceMoves DEF load_or_create_device_fingerprint, mint_fingerprint, world
<1>2. ASSUME NEW f, NEW lost, Identified(c, f, lost)
      PROVE  Passed(call[c])' /\ shown \subseteq shown'
  <2>1. /\ shown' = shown \cup {f}
        /\ call'[c].at \in {"done", "inspect", "put", "engine", "cred"}
        /\ call'[c].kind \in Gated => call[c].lease.device = f
    BY <1>1, <1>2, IdentifiedIs
  <2>2. CASE call'[c].at = "done"
    BY <1>1, <2>1, <2>2, PassedStays
  <2>3. CASE call'[c].at # "done"
    <3>1. /\ call'[c].kind = call[c].kind /\ call'[c].since = call[c].since
          /\ call'[c].lease = call[c].lease
      BY <1>1, <2>3 DEF Moves, Follows
    <3>2. Passed(call[c]) /\ (GateIsOpen' <=> GateIsOpen)
      BY <1>1 DEF GateOK, GateIsOpen
    <3> QED BY <1>1, <2>1, <3>1, <3>2 DEF Passed, Valid
  <2> QED BY <2>2, <2>3
<1>3. CASE (Finish(c) \/ Goto(c, "mint")) /\ UNCHANGED shown
  <2>1. call'[c].at \in {"done", "mint"}
    BY <1>1, <1>3, FinishMoves, GotoMoves, DoneIs
  <2> QED BY <1>1, <1>3, <2>1, PassedStays
<1> QED BY <1>2, <1>3 DEF load_or_create_device_fingerprint, mint_fingerprint

LEMMA GateStepKeeps == TypeOK /\ GateOK /\ [Next]_vars => GateOK'
<1> SUFFICES ASSUME TypeOK, GateOK, [Next]_vars PROVE GateOK'
  OBVIOUS
<1>1. ASSUME UNCHANGED <<call, config, shown>>, now' \in Nat, now <= now' PROVE GateOK'
  BY <1>1 DEF GateOK, Passed, Valid, GateIsOpen, TypeOK, Fits
<1>2. now \in Nat /\ now <= now
  BY DEF TypeOK
<1>3. ASSUME NEW c \in Calls,
             SettingsStep(c) \/ SettingsRequest(c) \/ PairingStep(c) \/ ExportStep(c) \/ ListingStep(c)
      PROVE  GateOK'
  <2>1. UNCHANGED <<config, now>>
    BY <1>3, SettingsStay DEF SettingsStep, world, load_cloud_lease, load_cloud_lease_stored,
       load_cloud_lease_fill, load_or_create_device_fingerprint, mint_fingerprint,
       load_credentials, load_persisted_model_registry, load_persisted_model_registry_stored,
       load_persisted_model_registry_fill, get_model_registry, save_model_registry,
       inspect_settings, load_persisted_openai_config, put_setting, fill_setting, drop_call
  <2>2. shown \subseteq shown'
    BY <1>3, SettingsStay, IdentitySteps, DevicePasses
  <2>3. CASE UNCHANGED call
    BY <2>1, <2>2, <2>3 DEF GateOK, Passed, Valid, GateIsOpen
  <2>4. CASE ~ UNCHANGED call
    <3>1. Moves(c)
      BY <1>3, <2>4, RequestsMove
    <3>2. Passed(call[c])'
      <4>1. CASE call[c].at \notin {"lease", "lease_fill", "fingerprint", "mint"}
        BY <2>1, <2>2, <3>1, <4>1, PassedStays
      <4>2. CASE call'[c] = Done
        BY <2>1, <2>2, <3>1, <4>2, PassedStays, DoneIs
      <4> QED BY <1>3, <2>4, <4>1, <4>2, GateSteps, LeasePasses, DevicePasses
    <3> QED BY <2>1, <2>2, <3>1, <3>2, GateMoves
  <2> QED BY <2>3, <2>4
<1>4. ASSUME NEW a \in Accounts, seller_edit(a) PROVE GateOK'
  BY <1>1, <1>2, <1>4 DEF seller_edit, world
<1>5. CASE tick \/ late_write
  <2>1. now' \in {now, now + 1} /\ UNCHANGED <<call, config, shown>>
    BY <1>5 DEF tick, late_write, settings, copies, world
  <2> QED BY <1>1, <1>2, <2>1
<1>6. CASE restart
  <2>1. \A c \in Calls : call'[c] \in {Idle, Done}
    BY <1>6 DEF restart, restart_settings
  <2>2. \A c \in Calls : call'[c].at \in {"idle", "done"} /\ call'[c].kind \notin Gated
    BY <2>1, DoneIs, KindsAssumption DEF Idle
  <2> QED BY <2>2 DEF GateOK, Passed
<1>7. CASE UNCHANGED vars
  BY <1>1, <1>2, <1>7 DEF vars, settings, copies, world
<1> QED BY <1>3, <1>4, <1>5, <1>6, <1>7 DEF Next

\* No request passes the gate without a lease that is signed, grants the feature,
\* was running when the request arrived and is bound to this device, from
\* whichever source it came and however the awaits of requests interleave.
THEOREM TheGateHolds == Spec => []GateHolds
<1>1. TypeOK /\ IdentityOK /\ GateOK => GateHolds
  <2> SUFFICES ASSUME TypeOK, IdentityOK, GateOK, NEW c \in Calls,
                      call[c].kind \in Gated, ~ GateIsOpen,
                      call[c].at \notin {"lease", "lease_fill", "fingerprint", "mint"}
               PROVE  /\ Valid(call[c]) /\ call[c].lease.device \in shown
                      /\ "fingerprint" \notin spoiled =>
                           call[c].lease.device = IF config.stable THEN Hardware
                                                  ELSE store["fingerprint"]
    BY DEF GateHolds, Valid
  <2>1. Valid(call[c]) /\ call[c].lease.device \in shown
    BY DEF GateOK, Passed
  <2> QED BY <2>1 DEF IdentityOK
<1> QED
  BY <1>1, TypeInit, TypeStep, IdentityInitOK, IdentityStepKeeps, GateInitOK, GateStepKeeps, PTL
     DEF Spec

-----------------------------------------------------------------------------
(* The settings and their copies.                                          *)

\* A request that is saving setting n, that is about to fill its copy, and what
\* it will fill it with.
Saves(k, n) == k.at \in {"put", "fill"} /\ Target(k.kind) = n
Fills(k, n) == k.at = (IF n = "lease" THEN "lease_fill" ELSE "registry_fill")
               /\ n \in {"lease", "registry"}
Loaded(k, n) == IF n = "lease" THEN k.lease ELSE k.value[1]

\* The copy is what a restart would load, or the save that wrote the store is
\* about to fill it; a save is alone with its setting, and loads hold the truth.
CopyOK(n) ==
    /\ \/ cache[n] \in {None, AsLoaded(n)}
       \/ \E c \in Calls : Saves(call[c], n) /\ call[c].at = "fill"
    /\ \A c, d \in Calls :
         Saves(call[c], n) /\ (Saves(call[d], n) \/ Fills(call[d], n)) => c = d
    /\ \A c \in Calls : Saves(call[c], n) /\ call[c].at = "fill" => store[n] = call[c].value
    /\ \A c \in Calls : Fills(call[c], n) => AsLoaded(n) = Loaded(call[c], n)

CopiesOK == \A n \in Cached \ spoiled : CopyOK(n)

\* A step that has nothing to do with n.
LEMMA CopyStays ==
    ASSUME TypeOK, NEW n, CopyOK(n), NEW c \in Calls, Moves(c),
           cache'[n] = cache[n], store'[n] = store[n],
           ~ (Saves(call[c], n) /\ call[c].at = "fill"),
           ~ Saves(call'[c], n), ~ Fills(call'[c], n)
    PROVE  CopyOK(n)'
<1>1. AsLoaded(n)' = AsLoaded(n)
  BY DEF AsLoaded, Readable
<1>2. \A d \in Calls : d # c => call'[d] = call[d]
  BY DEF Moves
<1> HIDE DEF Saves, Fills, Loaded
<1>3. CASE cache[n] \in {None, AsLoaded(n)}
  BY <1>1, <1>2, <1>3 DEF CopyOK
<1>4. CASE \E d \in Calls : Saves(call[d], n) /\ call[d].at = "fill"
  BY <1>1, <1>2, <1>4 DEF CopyOK
<1> QED BY <1>3, <1>4 DEF CopyOK

\* A request begins to save n, and is alone.
LEMMA CopyIsTaken ==
    ASSUME TypeOK, NEW n, CopyOK(n), NEW c \in Calls, Moves(c),
           cache'[n] = cache[n], store'[n] = store[n],
           Overlap(c, n) \subseteq spoiled', n \notin spoiled',
           ~ Saves(call[c], n), call'[c].at = "put"
    PROVE  CopyOK(n)'
<1>1. AsLoaded(n)' = AsLoaded(n)
  BY DEF AsLoaded, Readable
<1>2. \A d \in Calls : d # c => call'[d] = call[d]
  BY DEF Moves
<1>3. \A d \in Calls : d # c => ~ Saves(call[d], n) /\ ~ Fills(call[d], n)
  <2>1. (Saving(n) \cup Filling(n)) \ {c} = {}
    BY DEF Overlap
  <2> QED BY <2>1 DEF Saving, Filling, Saves, Fills
<1>4. ~ Fills(call'[c], n)
  BY DEF Fills
<1> HIDE DEF Saves, Fills, Loaded
<1> QED BY <1>1, <1>2, <1>3, <1>4 DEF CopyOK

\* A request has read n from the store, and no save is under way.
LEMMA CopyIsRead ==
    ASSUME TypeOK, NEW n, CopyOK(n), NEW c \in Calls, Moves(c), NEW answer,
           cache'[n] = cache[n], store'[n] = store[n],
           EnterFill(c, n, answer), n \notin spoiled',
           ~ Saves(call[c], n), ~ Saves(call'[c], n), Loaded(call'[c], n) = AsLoaded(n)
    PROVE  CopyOK(n)'
<1>1. AsLoaded(n)' = AsLoaded(n)
  BY DEF AsLoaded, Readable
<1>2. \A d \in Calls : d # c => call'[d] = call[d]
  BY DEF Moves
<1>3. \A d \in Calls : d # c => ~ Saves(call[d], n)
  <2>1. Saving(n) \ {c} = {}
    BY DEF EnterFill
  <2> QED BY <2>1 DEF Saving, Saves
<1> HIDE DEF Saves, Fills, Loaded
<1> QED BY <1>1, <1>2, <1>3 DEF CopyOK

\* The store takes the value of the save.
LEMMA CopyIsPut ==
    ASSUME TypeOK, NEW n, CopyOK(n), NEW c \in Calls, Moves(c), Saves(call[c], n),
           cache'[n] = cache[n], store'[n] = call[c].value,
           call'[c].at = "fill", call'[c].value = call[c].value, Saves(call'[c], n)
    PROVE  CopyOK(n)'
<1>1. \A d \in Calls : d # c => call'[d] = call[d] /\ ~ Saves(call[d], n) /\ ~ Fills(call[d], n)
  BY DEF Moves, CopyOK
<1>2. ~ Fills(call'[c], n)
  BY DEF Fills
<1> HIDE DEF Saves, Fills, Loaded
<1> QED BY <1>1, <1>2 DEF CopyOK

\* The copy becomes what the store is worth.
LEMMA CopyIsFilled ==
    ASSUME TypeOK, NEW n, CopyOK(n), NEW c \in Calls, Moves(c),
           store'[n] = store[n], cache'[n] = AsLoaded(n),
           ~ Saves(call'[c], n), ~ Fills(call'[c], n)
    PROVE  CopyOK(n)'
<1>1. AsLoaded(n)' = AsLoaded(n)
  BY DEF AsLoaded, Readable
<1>2. \A d \in Calls : d # c => call'[d] = call[d]
  BY DEF Moves
<1> HIDE DEF Saves, Fills, Loaded
<1> QED BY <1>1, <1>2 DEF CopyOK

\* A request that arrives is refused or stands where it should.
LEMMA BeginIs ==
    ASSUME TypeOK, NEW c \in Calls, NEW kind, NEW admitted, NEW place, NEW value,
           Begin(c, kind, admitted, place, value)
    PROVE  \/ call'[c] = Done
           \/ call'[c].at = place /\ call'[c].kind = kind
BY DEF Begin, TypeOK, Idle

\* A step of a request that ends no save and begins no load, or begins a save.
LEMMA QuietStepKeepsCopies ==
    ASSUME TypeOK, NEW n \in Cached, CopyOK(n), n \notin spoiled', NEW c \in Calls, Moves(c),
           cache'[n] = cache[n], store'[n] = store[n],
           call[c].at # "fill", call'[c].at \notin {"fill", "lease_fill", "registry_fill"},
           call'[c].at = "put" =>
             /\ call[c].at # "put"
             /\ \/ Target(call'[c].kind) = "key"
                \/ Overlap(c, Target(call'[c].kind)) \subseteq spoiled'
    PROVE  CopyOK(n)'
<1>1. ~ Fills(call'[c], n) /\ n # "key"
  BY DEF Fills, Cached
<1>2. CASE Saves(call'[c], n)
  BY <1>1, <1>2, CopyIsTaken DEF Saves
<1>3. CASE ~ Saves(call'[c], n)
  BY <1>1, <1>3, CopyStays DEF Saves
<1> QED BY <1>2, <1>3

LEMMA GateKeepsCopies ==
    ASSUME TypeOK, NEW n \in Cached, CopyOK(n), n \notin spoiled', NEW c \in Calls,
           \/ load_cloud_lease(c) \/ load_cloud_lease_stored(c) \/ load_cloud_lease_fill(c)
           \/ load_or_create_device_fingerprint(c) \/ mint_fingerprint(c) \/ load_credentials(c)
    PROVE  CopyOK(n)'
<1>1. Moves(c) /\ n \in Names /\ n # "fingerprint"
  BY LeaseMoves, DeviceMoves DEF Cached, Names, Reserved
<1>8. mint_fingerprint(c) \/ store' = store
  <2>1. CASE Reads(c)
    BY <2>1, ReadsKeepStore
  <2>2. CASE load_cloud_lease(c) \/ load_cloud_lease_fill(c)
    BY <2>2, StoreStays DEF load_cloud_lease, load_cloud_lease_fill, settings, layers
  <2> QED BY <2>1, <2>2 DEF Reads
<1>2. CASE load_cloud_lease(c) \/ load_credentials(c)
  <2>1. cache' = cache /\ store' = store /\ call[c].at \in {"lease", "cred"}
    BY <1>2, <1>8 DEF load_cloud_lease, load_credentials, mint_fingerprint, settings, copies
  <2>2. call'[c].at # "lease_fill"
    <3>1. CASE load_credentials(c)
      BY <1>1, <3>1 DEF load_credentials, Moves, Follows
    <3>2. CASE load_cloud_lease(c) /\ GateIsOpen
      BY <3>2, GotoMoves DEF load_cloud_lease, Admitted
    <3>3. CASE load_cloud_lease(c) /\ ~ GateIsOpen
      <4> DEFINE k == [call[c] EXCEPT !.at = "fingerprint", !.lease = cache["lease"]]
      <4>1. call'[c] = k \/ call'[c] = Done
        BY <3>3 DEF load_cloud_lease, TypeOK
      <4>2. k.at = "fingerprint"
        BY DEF TypeOK, Fits, RequestFields
      <4> QED BY <4>1, <4>2, DoneIs
    <3> QED BY <1>2, <3>1, <3>2, <3>3
  <2>3. call'[c].at \notin {"put", "fill", "registry_fill"}
    BY <1>1, <2>1 DEF Moves, Follows
  <2> QED BY <1>1, <2>1, <2>2, <2>3, QuietStepKeepsCopies
<1>3. CASE load_cloud_lease_stored(c)
  <2>1. PICK answer :
           \/ /\ Readable(answer) /\ EnterFill(c, "lease", answer)
              /\ call' = [call EXCEPT ![c].at = "lease_fill", ![c].lease = answer]
           \/ Finish(c)
    BY <1>3 DEF load_cloud_lease_stored
  <2>2. cache' = cache /\ store' = store /\ call[c].at = "lease"
    BY <1>3, <1>8 DEF load_cloud_lease_stored, mint_fingerprint
  <2>3. CASE Finish(c)
    <3>1. call'[c].at = "done"
      BY <2>3, DoneIs DEF Finish, TypeOK
    <3> QED BY <1>1, <2>2, <3>1, QuietStepKeepsCopies
  <2>4. CASE /\ Readable(answer) /\ EnterFill(c, "lease", answer)
             /\ call' = [call EXCEPT ![c].at = "lease_fill", ![c].lease = answer]
    <3>1. call'[c].at = "lease_fill" /\ call'[c].lease = answer
      BY <2>4 DEF TypeOK, Fits, RequestFields
    <3>3. CASE n = "lease"
      <4>2. answer = store["lease"]
        BY <2>4, <3>3 DEF EnterFill
      <4>1. Loaded(call'[c], n) = AsLoaded(n)
        BY <3>1, <3>3, <4>2 DEF Loaded, AsLoaded
      <4> QED BY <1>1, <2>2, <2>4, <3>1, <3>3, <4>1, CopyIsRead DEF Saves
    <3>4. CASE n # "lease"
      BY <1>1, <2>2, <3>1, <3>4, CopyStays DEF Saves, Fills
    <3> QED BY <3>3, <3>4
  <2> QED BY <2>1, <2>3, <2>4
<1>4. CASE load_cloud_lease_fill(c)
  <2>1. /\ call[c].at = "lease_fill" /\ cache' = [cache EXCEPT !["lease"] = call[c].lease]
        /\ store' = store /\ call'[c].at \in {"fingerprint", "done"}
    BY <1>4, <1>8, DoneIs DEF load_cloud_lease_fill, mint_fingerprint, TypeOK, Fits, RequestFields
  <2>2. ~ Saves(call'[c], n) /\ ~ Fills(call'[c], n)
    BY <2>1 DEF Saves, Fills
  <2>3. CASE n = "lease"
    <3>1. cache'[n] = AsLoaded(n)
      BY <2>1, <2>3 DEF CopyOK, Fills, Loaded, TypeOK
    <3> QED BY <1>1, <2>1, <2>2, <3>1, CopyIsFilled
  <2>4. CASE n # "lease"
    BY <1>1, <2>1, <2>2, <2>4, CopyStays DEF TypeOK
  <2> QED BY <2>3, <2>4
<1>5. ASSUME NEW f, NEW lost, Identified(c, f, lost), call[c].at \in {"fingerprint", "mint"},
             cache'[n] = cache[n], store'[n] = store[n]
      PROVE  CopyOK(n)'
  <2>1. call'[c].at \in {"done", "inspect", "put", "engine", "cred"}
    BY <1>5, IdentifiedIs
  <2>2. call'[c].at = "put" => Overlap(c, "lease") \subseteq spoiled'
    BY <1>5 DEF Identified
  <2>3. call'[c].at = "put" => Target(call'[c].kind) = "lease"
    BY <1>5, DoneIs DEF Identified, Finish, Goto, Admitted, Target, TypeOK, Fits, RequestFields
  <2> QED BY <1>1, <1>5, <2>1, <2>2, <2>3, QuietStepKeepsCopies
<1>6. CASE load_or_create_device_fingerprint(c)
  <2>1. call[c].at = "fingerprint" /\ cache' = cache /\ store' = store
    BY <1>6, ReadsKeepStore DEF load_or_create_device_fingerprint, Reads
  <2>2. CASE Finish(c) \/ Goto(c, "mint")
    <3>1. call'[c].at \in {"done", "mint"}
      BY <2>2, DoneIs, GotoMoves DEF Finish, TypeOK
    <3> QED BY <1>1, <2>1, <3>1, QuietStepKeepsCopies
  <2> QED BY <1>5, <1>6, <2>1, <2>2 DEF load_or_create_device_fingerprint
<1>7. CASE mint_fingerprint(c)
  <2>1. call[c].at = "mint" /\ cache'[n] = cache[n] /\ store'[n] = store[n]
    <3>1. PICK m, f : /\ m = "fingerprint" /\ f \in Fresh
                      /\ (\E lost : Put(m, f, lost)) \/ PutFails(m, f)
      BY <1>7 DEF mint_fingerprint
    <3>2. m \in Names /\ f \in Setting(m) /\ m # n
      BY <1>1, <3>1 DEF Names, Reserved, Setting, Fresh
    <3>3. store'[n] = store[n]
      BY <1>1, <3>1, <3>2, PutStores, PutFailsKeeps DEF TypeOK
    <3> QED BY <1>7, <3>3 DEF mint_fingerprint
  <2>2. CASE Finish(c)
    <3>1. call'[c].at = "done"
      BY <2>2, DoneIs DEF Finish, TypeOK
    <3> QED BY <1>1, <2>1, <3>1, QuietStepKeepsCopies
  <2> QED BY <1>5, <1>7, <2>1, <2>2 DEF mint_fingerprint
<1> QED BY <1>2, <1>3, <1>4, <1>6, <1>7

LEMMA RegistryKeepsCopies ==
    ASSUME TypeOK, NEW n \in Cached, CopyOK(n), n \notin spoiled', NEW c \in Calls,
           \/ load_persisted_model_registry(c) \/ load_persisted_model_registry_stored(c)
           \/ load_persisted_model_registry_fill(c) \/ get_model_registry(c)
           \/ save_model_registry(c) \/ inspect_settings(c)
    PROVE  CopyOK(n)'
<1>1. Moves(c)
  BY RegistryMoves
<1>6. store' = store
  <2>1. CASE Reads(c)
    BY <2>1, ReadsKeepStore
  <2>2. CASE ~ Reads(c)
    BY <2>2, StoreStays DEF Reads, load_persisted_model_registry,
       load_persisted_model_registry_fill, get_model_registry, settings, layers
  <2> QED BY <2>1, <2>2
<1>2. CASE load_persisted_model_registry(c) \/ get_model_registry(c) \/ inspect_settings(c)
  <2>1. cache' = cache /\ store' = store /\ call[c].at \in {"registry", "routed", "inspect"}
    BY <1>2, <1>6 DEF load_persisted_model_registry, get_model_registry, inspect_settings,
       settings, copies
  <2>2. call'[c].at # "registry_fill"
    <3>1. CASE load_persisted_model_registry(c)
      BY <3>1 DEF load_persisted_model_registry, TypeOK, Fits, RequestFields
    <3>2. CASE get_model_registry(c) \/ inspect_settings(c)
      BY <1>1, <3>2 DEF get_model_registry, inspect_settings, Moves, Follows
    <3> QED BY <1>2, <3>1, <3>2
  <2>3. call'[c].at \notin {"put", "fill", "lease_fill"}
    BY <1>1, <2>1 DEF Moves, Follows
  <2> QED BY <1>1, <2>1, <2>2, <2>3, QuietStepKeepsCopies
<1>3. CASE load_persisted_model_registry_stored(c)
  <2>1. PICK answer :
           /\ EnterFill(c, "registry", answer)
           /\ call' = [call EXCEPT ![c].at = "registry_fill",
                         ![c].value = <<IF Readable(answer) THEN answer ELSE <<>>, call[c].value>>]
    BY <1>3 DEF load_persisted_model_registry_stored, TypeOK, Fits, RequestFields
  <2>2. cache' = cache /\ store' = store /\ call[c].at = "registry"
    BY <1>3, <1>6 DEF load_persisted_model_registry_stored
  <2>3. /\ call'[c].at = "registry_fill"
        /\ call'[c].value[1] = IF Readable(answer) THEN answer ELSE <<>>
    BY <2>1 DEF TypeOK, Fits, RequestFields
  <2>4. CASE n = "registry"
    <3>1. answer = store["registry"]
      BY <2>1, <2>4 DEF EnterFill
    <3>2. Loaded(call'[c], n) = AsLoaded(n)
      BY <2>3, <2>4, <3>1 DEF Loaded, AsLoaded
    <3> QED BY <1>1, <2>1, <2>2, <2>3, <2>4, <3>2, CopyIsRead DEF Saves
  <2>5. CASE n # "registry"
    BY <1>1, <2>2, <2>3, <2>5, CopyStays DEF Saves, Fills
  <2> QED BY <2>4, <2>5
<1>4. CASE load_persisted_model_registry_fill(c)
  <2>1. /\ call[c].at = "registry_fill" /\ cache' = [cache EXCEPT !["registry"] = call[c].value[1]]
        /\ store' = store /\ call'[c].at = "routed"
    BY <1>4, <1>6, GotoMoves DEF load_persisted_model_registry_fill
  <2>2. ~ Saves(call'[c], n) /\ ~ Fills(call'[c], n)
    BY <2>1 DEF Saves, Fills
  <2>3. CASE n = "registry"
    <3>1. cache'[n] = AsLoaded(n)
      BY <2>1, <2>3 DEF CopyOK, Fills, Loaded, TypeOK
    <3> QED BY <1>1, <2>1, <2>2, <3>1, CopyIsFilled
  <2>4. CASE n # "registry"
    BY <1>1, <2>1, <2>2, <2>4, CopyStays DEF TypeOK, Saves
  <2> QED BY <2>3, <2>4
<1>5. CASE save_model_registry(c)
  <2>1. /\ cache' = cache /\ store' = store
        /\ call[c].at = "refs" /\ call[c].kind = "save_registry"
    BY <1>5, <1>6 DEF save_model_registry, TypeOK, Fits
  <2>3. Finish(c) \/ (Goto(c, "put") /\ EnterSave(c, "registry"))
    BY <1>5 DEF save_model_registry
  <2>2. \/ call'[c].at = "done"
        \/ /\ call'[c].at = "put" /\ Target(call'[c].kind) = "registry"
           /\ Overlap(c, "registry") \subseteq spoiled'
    BY <2>1, <2>3, GotoMoves, DoneIs DEF Finish, EnterSave, TypeOK, Target
  <2> QED BY <1>1, <2>1, <2>2, QuietStepKeepsCopies
<1> QED BY <1>2, <1>3, <1>4, <1>5

LEMMA SavesKeepCopies ==
    ASSUME TypeOK, NEW n \in Cached, CopyOK(n), n \notin spoiled', NEW c \in Calls,
           \/ load_persisted_openai_config(c) \/ put_setting(c) \/ fill_setting(c) \/ drop_call(c)
    PROVE  CopyOK(n)'
<1>1. Moves(c) /\ Fits(call[c]) /\ Cached \subseteq Names
  BY SaveMoves DEF TypeOK, Names, Reserved
<1>2. CASE /\ Finish(c) /\ cache'[n] = cache[n] /\ store'[n] = store[n]
           /\ ~ (Saves(call[c], n) /\ call[c].at = "fill")
  <2>1. ~ Saves(call'[c], n) /\ ~ Fills(call'[c], n)
    BY <1>2, DoneIs DEF Saves, Fills, Finish, TypeOK
  <2> QED BY <1>1, <1>2, <2>1, CopyStays
<1>3. CASE load_persisted_openai_config(c)
  <2>1. /\ cache' = cache /\ store' = store
        /\ call[c].at = "persisted" /\ call[c].kind = "save_openai"
    BY <1>1, <1>3, ReadsKeepStore DEF load_persisted_openai_config, Reads, Fits
  <2>2. \/ Finish(c)
        \/ /\ EnterSave(c, "openai")
           /\ \E key : call' = [call EXCEPT ![c].at = "put", ![c].value = key]
    BY <1>3 DEF load_persisted_openai_config
  <2>3. \/ call'[c].at = "done"
        \/ /\ call'[c].at = "put" /\ Target(call'[c].kind) = "openai"
           /\ Overlap(c, "openai") \subseteq spoiled'
    BY <1>1, <2>1, <2>2, DoneIs DEF Finish, EnterSave, TypeOK, Target, RequestFields, Fits
  <2> QED BY <1>1, <2>1, <2>3, QuietStepKeepsCopies
<1>4. CASE put_setting(c)
  <2>1. PICK m, v : m = Target(call[c].kind) /\ v = call[c].value
    OBVIOUS
  <2>2. /\ call[c].at = "put" /\ UNCHANGED cache
        /\ \/ /\ \E lost : Put(m, v, lost) /\ spoiled' = spoiled \cup lost
              /\ IF m \in Cached THEN Goto(c, "fill") ELSE Finish(c)
           \/ PutFails(m, v) /\ Finish(c)
    BY <1>4, <2>1 DEF put_setting
  <2>3. m \in Names /\ v \in Setting(m) /\ LayersOK
    <3>1. call[c].at = "put"
      BY <2>2
    <3>2. Target(call[c].kind) \in Names /\ call[c].value \in Setting(Target(call[c].kind))
      BY <1>1, <3>1, SaveIs DEF Names, Reserved
    <3> QED BY <2>1, <3>2 DEF TypeOK
  <2>4. CASE PutFails(m, v) /\ Finish(c)
    BY <1>1, <1>2, <2>2, <2>3, <2>4, PutFailsKeeps
  <2>5. CASE /\ \E lost : Put(m, v, lost) /\ spoiled' = spoiled \cup lost
             /\ IF m \in Cached THEN Goto(c, "fill") ELSE Finish(c)
    <3>1. PICK lost : Put(m, v, lost) /\ spoiled' = spoiled \cup lost
      BY <2>5
    <3>2. /\ lost \in {{}, {m}} /\ (lost = {} => store'[m] = v)
          /\ \A x \in Names : x # m => store'[x] = store[x]
      BY <2>3, <3>1, PutStores
    <3>3. CASE m = n
      <4>1. Goto(c, "fill") /\ store'[n] = call[c].value
        BY <2>1, <2>5, <3>1, <3>2, <3>3
      <4>2. /\ call'[c].at = "fill" /\ call'[c].value = call[c].value
            /\ call'[c].kind = call[c].kind
        BY <4>1, GotoMoves
      <4>3. Saves(call[c], n) /\ Saves(call'[c], n)
        BY <2>1, <2>2, <3>3, <4>2 DEF Saves
      <4> QED BY <1>1, <2>2, <4>1, <4>2, <4>3, CopyIsPut
    <3>4. CASE m # n
      <4>1. store'[n] = store[n]
        BY <1>1, <3>2, <3>4
      <4>2. CASE Finish(c)
        BY <1>2, <2>2, <4>1, <4>2
      <4>3. CASE Goto(c, "fill")
        <5>1. call'[c].at = "fill" /\ call'[c].kind = call[c].kind
          BY <4>3, GotoMoves
        <5> QED BY <1>1, <2>1, <2>2, <3>4, <4>1, <5>1, CopyStays DEF Saves, Fills
      <4> QED BY <2>5, <4>2, <4>3
    <3> QED BY <3>3, <3>4
  <2> QED BY <2>2, <2>4, <2>5
<1>5. CASE fill_setting(c)
  <2> DEFINE m == Target(call[c].kind)
  <2>1. /\ call[c].at = "fill" /\ store' = store /\ Finish(c)
        /\ cache' = [cache EXCEPT ![m] = call[c].value]
    BY <1>5, StoreStays DEF fill_setting, layers
  <2>2. CASE m = n
    <3>1. Saves(call[c], n) /\ store[n] = call[c].value /\ call[c].value \in Setting(n)
      BY <1>1, <2>1, <2>2, SaveIs DEF Saves, CopyOK
    <3>2. Readable(store[n])
      BY <1>1, <3>1, ValuesAssumption DEF Readable
    <3>3. cache'[n] = AsLoaded(n)
      BY <2>1, <2>2, <3>1, <3>2 DEF AsLoaded, TypeOK
    <3>4. ~ Saves(call'[c], n) /\ ~ Fills(call'[c], n)
      BY <2>1, DoneIs DEF Saves, Fills, Finish, TypeOK
    <3> QED BY <1>1, <2>1, <3>3, <3>4, CopyIsFilled
  <2>3. CASE m # n
    <3>1. cache'[n] = cache[n]
      BY <2>1, <2>3 DEF TypeOK
    <3> QED BY <1>2, <2>1, <2>3, <3>1 DEF Saves
  <2> QED BY <2>2, <2>3
<1>6. CASE drop_call(c)
  <2>1. Saves(call[c], n) => call[c].at # "fill"
    BY <1>6 DEF drop_call, Saves
  <2> QED BY <1>2, <1>6, <2>1, StoreStays DEF drop_call
<1> QED BY <1>3, <1>4, <1>5, <1>6

\* Requests take their place among the saves of their setting.
LEMMA OthersKeepCopies ==
    ASSUME TypeOK, NEW n \in Cached, CopyOK(n), n \notin spoiled', NEW c \in Calls,
           SettingsRequest(c) \/ PairingStep(c) \/ ExportStep(c) \/ ListingStep(c)
    PROVE  CopyOK(n)'
<1>1. cache' = cache /\ store' = store
  BY SettingsStay
<1>2. CASE UNCHANGED call
  BY <1>1, <1>2 DEF CopyOK, Saves, Fills, Loaded, AsLoaded, Readable
<1>3. CASE ~ UNCHANGED call
  <2>1. /\ Moves(c)
        /\ call[c].at \in {"idle", "start", "claim", "engine", "waiting", "ozon", "routed",
                           "import", "dictionary", "update"}
    BY <1>3, Places, RequestsMove
  <2>2. call'[c].at \notin {"fill", "lease_fill", "registry_fill"}
    BY <2>1 DEF Moves, Follows
  <2>3. call'[c].at = "put" => \/ Target(call'[c].kind) = "key"
                               \/ Overlap(c, Target(call'[c].kind)) \subseteq spoiled'
    <3> SUFFICES ASSUME call'[c].at = "put"
                 PROVE  \/ Target(call'[c].kind) = "key"
                        \/ Overlap(c, Target(call'[c].kind)) \subseteq spoiled'
      OBVIOUS
    <3>1. call[c].at = "idle" /\ call'[c] # Done
      BY <2>1, DoneIs DEF Moves, Follows
    <3>2. ASSUME NEW kind, NEW admitted, NEW place, NEW value, Begin(c, kind, admitted, place, value)
          PROVE  place = "put" /\ call'[c].kind = kind
      BY <3>1, <3>2, BeginIs
    <3>3. ASSUME NEW token, NEW a, save_ozon_config(c, token, a)
          PROVE  Overlap(c, Target(call'[c].kind)) \subseteq spoiled'
      <4>1. call'[c].kind = "save_ozon" /\ EnterSave(c, "ozon")
        BY <3>2, <3>3 DEF save_ozon_config
      <4> QED BY <4>1 DEF Target, EnterSave
    <3>4. ASSUME NEW token, NEW k, NEW url, save_openai_config(c, token, k, url)
          PROVE  Overlap(c, Target(call'[c].kind)) \subseteq spoiled'
      <4>1. call'[c].kind = "save_openai" /\ EnterSave(c, "openai")
        BY <3>2, <3>4 DEF save_openai_config
      <4> QED BY <4>1 DEF Target, EnterSave
    <3>5. ASSUME NEW token, NEW name, NEW k, save_secret(c, token, name, k)
          PROVE  Target(call'[c].kind) = "key"
      <4>1. call'[c].kind = "save_secret"
        BY <3>2, <3>5 DEF save_secret
      <4> QED BY <4>1 DEF Target
    <3>6. ASSUME NEW token, NEW e, edit_model_registry(c, token, e) PROVE FALSE
      BY <3>2, <3>6 DEF edit_model_registry
    <3>7. ASSUME NEW token, \/ portal_status(c) \/ config_status(c, token)
                            \/ start_openclaw_pairing(c, token)
          PROVE  FALSE
      <4>1. ~ portal_status(c)
        BY <3>1 DEF portal_status, Begin, TypeOK, Idle
      <4> QED BY <3>2, <3>7, <4>1 DEF config_status, start_openclaw_pairing
    <3>8. ASSUME NEW origin, NEW code, claim_openclaw_pairing(c, origin, code) PROVE FALSE
      BY <3>2, <3>8 DEF claim_openclaw_pairing
    <3>9. ASSUME NEW l, save_portal_lease(c, l) PROVE FALSE
      BY <3>1, <3>9 DEF save_portal_lease, TypeOK, Idle
    <3>10. ASSUME NEW token, validate_ozon_config(c, token) PROVE FALSE
      BY <3>1, <3>10 DEF validate_ozon_config, TypeOK, Idle
    <3>11. ASSUME NEW kind, NEW token, NEW value, NEW items,
                  gated_request(c, kind, token, value, items)
           PROVE  FALSE
      BY <3>1, <3>11 DEF gated_request, TypeOK, Idle
    <3>12. SettingsRequest(c) \/ PairingStep(c)
      BY <1>3, <3>1, Places
    <3> QED
      BY <3>1, <3>3, <3>4, <3>5, <3>6, <3>7, <3>8, <3>9, <3>10, <3>11, <3>12
         DEF SettingsRequest, PairingStep, start_locked, claim_locked
  <2> QED BY <1>1, <2>1, <2>2, <2>3, QuietStepKeepsCopies
<1> QED BY <1>2, <1>3

LEMMA CopiesStepKeep == TypeOK /\ CopiesOK /\ [Next]_vars => CopiesOK'
<1> SUFFICES ASSUME TypeOK, CopiesOK, [Next]_vars PROVE CopiesOK'
  OBVIOUS
<1>1. ASSUME UNCHANGED <<cache, call>>, spoiled \subseteq spoiled',
             \A n \in Cached \ spoiled' : store'[n] = store[n]
      PROVE  CopiesOK'
  BY <1>1 DEF CopiesOK, CopyOK, Saves, Fills, Loaded, AsLoaded, Readable
<1>2. ASSUME NEW c \in Calls,
             SettingsStep(c) \/ SettingsRequest(c) \/ PairingStep(c) \/ ExportStep(c) \/ ListingStep(c)
      PROVE  CopiesOK'
  <2> SUFFICES ASSUME NEW n \in Cached, n \notin spoiled' PROVE CopyOK(n)'
    BY DEF CopiesOK
  <2>1. CopyOK(n)
    BY <1>2, SpoiledGrows DEF CopiesOK
  <2>2. CASE SettingsStep(c)
    BY <2>1, <2>2, GateKeepsCopies, RegistryKeepsCopies, SavesKeepCopies DEF SettingsStep
  <2> QED BY <1>2, <2>1, <2>2, OthersKeepCopies
<1>3. ASSUME NEW a \in Accounts, seller_edit(a) PROVE CopiesOK'
  BY <1>1, <1>3, StoreStays DEF seller_edit, layers
<1>4. CASE tick \/ UNCHANGED vars
  <2>1. UNCHANGED <<cache, call, spoiled, keyring, file>>
    BY <1>4 DEF tick, vars, settings, layers, copies
  <2> QED BY <1>1, <2>1, StoreStays
<1>6. CASE late_write
  <2>1. UNCHANGED <<cache, call>>
    BY <1>6 DEF late_write
  <2> QED BY <1>1, <1>6, <2>1, LateWriteKeeps DEF TypeOK, Names, Reserved
<1>5. CASE restart
  <2>1. /\ \A n \in Cached : cache'[n] = None
        /\ \A c \in Calls : call'[c].at \in {"idle", "done"}
    BY <1>5, DoneIs DEF restart, restart_settings, Idle
  <2> QED BY <2>1 DEF CopiesOK, CopyOK, Saves, Fills
<1> QED BY <1>2, <1>3, <1>4, <1>5, <1>6 DEF Next

LEMMA CopiesInitOK == Init => CopiesOK
BY DoneIs DEF Init, SettingsInit, CopiesOK, CopyOK, Saves, Fills, Idle

\* Whenever no request is under way, the copy of every setting is empty or what a
\* restart would load from the store, in whatever order saves, loads, failures of
\* the store and disconnects came, short of the overlaps SettingsAgree names.
THEOREM SettingsAgreeWithStore == Spec => []SettingsAgree
<1>1. CopiesOK => SettingsAgree
  BY DEF CopiesOK, CopyOK, Saves, SettingsAgree, Quiet
<1> QED BY <1>1, TypeInit, TypeStep, CopiesInitOK, CopiesStepKeep, PTL DEF Spec

-----------------------------------------------------------------------------
(* The model registry.                                                     *)

\* An edit of the registry holds every slot that was saved.
Holds(k) ==
    k.kind = "save_registry" =>
        /\ k.at \in {"registry_fill", "routed"} => saved \subseteq SlotsOf(k.value[1])
        /\ k.at \in {"refs", "put", "fill"} => saved \subseteq SlotsOf(k.value)

\* So does the store, and there is one edit at a time.
RegistryOK ==
    "registry" \notin spoiled =>
        /\ saved \subseteq SlotsOf(AsLoaded("registry"))
        /\ \A c, d \in Calls :
             call[c].kind = "save_registry" /\ call[d].kind = "save_registry" => c = d
        /\ \A c \in Calls : Holds(call[c])

LEMMA RegistryInitOK == Init => RegistryOK
<1>1. Init => saved \subseteq SlotsOf(AsLoaded("registry"))
  BY DEF Init, SettingsInit, AsLoaded
<1>2. Init => \A c \in Calls : call[c].kind = None
  BY DoneIs DEF Init, SettingsInit, Idle
<1> QED BY <1>1, <1>2, KindsAssumption DEF RegistryOK, Holds

\* A step that neither saves the registry nor begins an edit of it.
LEMMA RegistryStays ==
    ASSUME TypeOK, RegistryOK, spoiled \subseteq spoiled', NEW c \in Calls, Moves(c),
           UNCHANGED saved, store'["registry"] = store["registry"],
           call'[c].kind = "save_registry" => call[c].kind = "save_registry",
           "registry" \notin spoiled' => Holds(call[c])'
    PROVE  RegistryOK'
<1>1. AsLoaded("registry")' = AsLoaded("registry")
  BY DEF AsLoaded, Readable
<1>2. \A d \in Calls : d # c => call'[d] = call[d] /\ (Holds(call[d])' <=> Holds(call[d]))
  BY DEF Moves, Holds
<1> QED BY <1>1, <1>2 DEF RegistryOK

\* Edits end in one place only.
LEMMA SavedSteps ==
    ASSUME TypeOK, NEW c \in Calls, SettingsStep(c)
    PROVE  /\ fill_setting(c) \/ UNCHANGED saved
           /\ put_setting(c) \/ store'["registry"] = store["registry"]
<1>1. fill_setting(c) \/ UNCHANGED saved
  BY DEF SettingsStep, settings, copies, load_cloud_lease, load_cloud_lease_stored,
     load_cloud_lease_fill, load_or_create_device_fingerprint, mint_fingerprint,
     load_credentials, load_persisted_model_registry, load_persisted_model_registry_stored,
     load_persisted_model_registry_fill, get_model_registry, save_model_registry,
     inspect_settings, load_persisted_openai_config, put_setting, drop_call
<1>2. CASE mint_fingerprint(c)
  <2>1. PICK m, f : /\ m = "fingerprint" /\ f \in Fresh
                    /\ (\E lost : Put(m, f, lost)) \/ PutFails(m, f)
    BY <1>2 DEF mint_fingerprint
  <2>2. m \in Names /\ f \in Setting(m) /\ m # "registry" /\ "registry" \in Names
    BY <2>1 DEF Names, Reserved, Cached, Setting, Fresh
  <2>3. store'["registry"] = store["registry"]
    BY <2>1, <2>2, PutStores, PutFailsKeeps DEF TypeOK
  <2> QED BY <1>1, <2>3
<1>3. CASE Reads(c) \/ drop_call(c)
  BY <1>1, <1>3, ReadsKeepStore, StoreStays DEF drop_call
<1> QED BY <1>1, <1>2, <1>3, OthersKeepStore

\* The steps of an edit before it is saved.
LEMMA EditHolds ==
    ASSUME TypeOK, RegistryOK, CopiesOK, NEW c \in Calls, call[c].kind = "save_registry",
           spoiled \subseteq spoiled', "registry" \notin spoiled', UNCHANGED saved,
           \/ load_persisted_model_registry(c) \/ load_persisted_model_registry_stored(c)
           \/ load_persisted_model_registry_fill(c) \/ get_model_registry(c)
           \/ save_model_registry(c)
    PROVE  Holds(call[c])'
<1>1. /\ saved \subseteq SlotsOf(AsLoaded("registry")) /\ Holds(call[c])
      /\ \A d \in Calls : call[d].kind = "save_registry" => d = c
      /\ CopyOK("registry") /\ Fits(call[c])
  BY DEF RegistryOK, CopiesOK, Cached, TypeOK
<1>2. CASE load_persisted_model_registry(c)
  <2>1. /\ call[c].at = "registry" /\ cache["registry"] # None
        /\ call'[c].at = "routed" /\ call'[c].value[1] = cache["registry"]
    BY <1>1, <1>2 DEF load_persisted_model_registry, TypeOK, Fits, RequestFields
  <2>2. \A d \in Calls : Saves(call[d], "registry") => call[d].kind = "save_registry"
    BY SaveIs DEF Saves, TypeOK
  <2>3. cache["registry"] = AsLoaded("registry")
    BY <1>1, <2>1, <2>2 DEF CopyOK
  <2> QED BY <1>1, <2>1, <2>3 DEF Holds
<1>3. CASE load_persisted_model_registry_stored(c)
  <2>1. PICK answer \in {store["registry"], file["registry"], Err} :
           /\ EnterFill(c, "registry", answer)
           /\ call' = [call EXCEPT ![c].at = "registry_fill",
                         ![c].value = <<IF Readable(answer) THEN answer ELSE <<>>, call[c].value>>]
    BY <1>1, <1>3 DEF load_persisted_model_registry_stored, TypeOK, Fits, RequestFields
  <2>2. /\ call'[c].at = "registry_fill"
        /\ call'[c].value[1] = IF Readable(answer) THEN answer ELSE <<>>
    BY <1>1, <2>1 DEF TypeOK, Fits, RequestFields
  <2>3. answer = store["registry"]
    BY <2>1 DEF EnterFill
  <2> QED BY <1>1, <2>2, <2>3 DEF Holds, AsLoaded
<1>4. CASE load_persisted_model_registry_fill(c)
  <2>1. /\ call[c].at = "registry_fill" /\ call'[c].at = "routed"
        /\ call'[c].value = call[c].value
    BY <1>4, GotoMoves DEF load_persisted_model_registry_fill
  <2> QED BY <1>1, <2>1 DEF Holds
<1>5. CASE get_model_registry(c)
  <2>1. /\ call[c].at = "routed" /\ call'[c].at = "refs"
        /\ call'[c].value = MergeEntry(call[c].value[1], call[c].value[2])
    BY <1>1, <1>5 DEF get_model_registry, TypeOK, Fits, RequestFields
  <2>2. call[c].value[1] \in Seq(ProviderEntry) /\ call[c].value[2] \in ProviderEntry
    BY <1>1, <2>1 DEF Fits
  <2>3. SlotsOf(call[c].value[1]) \subseteq SlotsOf(call'[c].value)
    BY <2>1, <2>2, MergeKeepsSlots
  <2> QED BY <1>1, <2>1, <2>3 DEF Holds
<1>6. CASE save_model_registry(c)
  <2>1. /\ call[c].at = "refs"
        /\ \/ call'[c].at = "done"
           \/ call'[c].at = "put" /\ call'[c].value = call[c].value
    BY <1>6, GotoMoves, DoneIs DEF save_model_registry, Finish, TypeOK
  <2> QED BY <1>1, <2>1 DEF Holds
<1> QED BY <1>2, <1>3, <1>4, <1>5, <1>6

\* The store and the copy take the edit.
LEMMA EditIsSaved ==
    ASSUME TypeOK, RegistryOK, CopiesOK, NEW c \in Calls, put_setting(c) \/ fill_setting(c),
           spoiled \subseteq spoiled'
    PROVE  RegistryOK'
<1>1. Moves(c) /\ Fits(call[c]) /\ call[c].at \in {"put", "fill"} /\ "registry" \in Names
  BY SaveMoves DEF put_setting, fill_setting, TypeOK, Names, Reserved, Cached
<1>2. Target(call[c].kind) = "registry" <=> call[c].kind = "save_registry"
  BY <1>1, SaveIs
<1>3. call'[c].kind = "save_registry" => call[c].kind = "save_registry"
  BY <1>1, DoneIs, KindsAssumption DEF Moves, Follows, Fits
<1>6. CASE fill_setting(c)
  <2>1. /\ store' = store /\ Finish(c) /\ call[c].at = "fill"
        /\ saved' = IF call[c].kind = "save_registry" THEN saved \cup SlotsOf(call[c].value) ELSE saved
    BY <1>2, <1>6, StoreStays DEF fill_setting, layers
  <2>2. call'[c].kind # "save_registry"
    BY <2>1, DoneIs, KindsAssumption DEF Finish, TypeOK
  <2>3. CASE call[c].kind # "save_registry"
    BY <1>1, <2>1, <2>2, <2>3, RegistryStays DEF Holds
  <2>4. CASE call[c].kind = "save_registry" /\ "registry" \notin spoiled'
    <3>1. /\ saved \subseteq SlotsOf(call[c].value)
          /\ \A d \in Calls : d # c => call[d].kind # "save_registry"
          /\ CopyOK("registry")
      BY <1>1, <2>1, <2>4 DEF RegistryOK, Holds, CopiesOK, Cached
    <3>2. call[c].value \in Setting("registry") /\ Readable(call[c].value)
      BY <1>1, <1>2, <2>4, SaveIs, ValuesAssumption DEF Readable
    <3>3. store["registry"] = call[c].value
      BY <1>2, <2>1, <2>4, <3>1 DEF CopyOK, Saves
    <3>4. AsLoaded("registry")' = call[c].value
      BY <2>1, <3>2, <3>3 DEF AsLoaded, Readable
    <3> QED BY <1>1, <2>1, <2>2, <2>4, <3>1, <3>4 DEF RegistryOK, Holds, Moves
  <2> QED BY <2>3, <2>4 DEF RegistryOK
<1>7. CASE put_setting(c)
  <2>1. PICK m, v : m = Target(call[c].kind) /\ v = call[c].value
    OBVIOUS
  <2>2. /\ call[c].at = "put" /\ UNCHANGED saved
        /\ \/ /\ \E lost : Put(m, v, lost) /\ spoiled' = spoiled \cup lost
              /\ IF m \in Cached THEN Goto(c, "fill") ELSE Finish(c)
           \/ PutFails(m, v) /\ Finish(c)
    BY <1>7, <2>1 DEF put_setting
  <2>3. Target(call[c].kind) \in Names /\ call[c].value \in Setting(Target(call[c].kind))
    BY <1>1, <2>2, SaveIs DEF Names, Reserved
  <2>4. m \in Names /\ v \in Setting(m) /\ LayersOK
    BY <2>1, <2>3 DEF TypeOK
  <2>5. CASE call[c].kind # "save_registry"
    <3>1. m # "registry"
      BY <1>2, <2>1, <2>5
    <3>2. store'["registry"] = store["registry"]
      BY <1>1, <2>2, <2>4, <3>1, PutStores, PutFailsKeeps
    <3> QED BY <1>1, <1>3, <2>2, <2>5, <3>2, RegistryStays DEF Holds
  <2>6. CASE PutFails(m, v) /\ Finish(c)
    <3>1. call'[c].kind # "save_registry"
      BY <2>6, DoneIs, KindsAssumption DEF Finish, TypeOK
    <3>2. store' = store
      BY <2>4, <2>6, PutFailsKeeps
    <3> QED BY <1>1, <2>2, <3>1, <3>2, RegistryStays DEF Holds
  <2>7. CASE /\ call[c].kind = "save_registry" /\ "registry" \notin spoiled'
             /\ \E lost : Put(m, v, lost) /\ spoiled' = spoiled \cup lost
             /\ IF m \in Cached THEN Goto(c, "fill") ELSE Finish(c)
    <3>1. m = "registry" /\ Goto(c, "fill")
      BY <1>2, <2>1, <2>7 DEF Cached
    <3>2. /\ saved \subseteq SlotsOf(call[c].value)
          /\ \A d \in Calls : d # c => call[d].kind # "save_registry"
      BY <1>1, <2>2, <2>7 DEF RegistryOK, Holds
    <3>3. PICK lost : Put(m, v, lost) /\ spoiled' = spoiled \cup lost
      BY <2>7
    <3>4. lost \in {{}, {m}} /\ (lost = {} => store'[m] = v)
      BY <2>4, <3>3, PutStores
    <3>5. store'["registry"] = v
      BY <2>7, <3>1, <3>3, <3>4
    <3>6. v \in Setting("registry") /\ Readable(v)
      BY <1>1, <2>4, <3>1, ValuesAssumption DEF Readable
    <3>7. AsLoaded("registry")' = call[c].value
      BY <2>1, <3>5, <3>6 DEF AsLoaded, Readable
    <3>8. Holds(call[c])' /\ call'[c].kind = "save_registry"
      BY <2>2, <2>7, <3>1, <3>2, GotoMoves DEF Holds
    <3> QED BY <1>1, <2>2, <3>2, <3>7, <3>8 DEF RegistryOK, Holds, Moves
  <2> QED BY <2>2, <2>5, <2>6, <2>7 DEF RegistryOK
<1> QED BY <1>6, <1>7

\* The other steps of requests: an edit begins, ends or is not concerned.
LEMMA OtherStepsKeepRegistry ==
    ASSUME TypeOK, RegistryOK, NEW c \in Calls, spoiled \subseteq spoiled', Moves(c),
           UNCHANGED saved, store'["registry"] = store["registry"],
           \/ call[c].at # "idle" /\ (call[c].kind # "save_registry" \/ call'[c] = Done)
           \/ call[c].at = "idle" /\ (call'[c].kind # "save_registry" \/
                \E token, e : edit_model_registry(c, token, e))
    PROVE  RegistryOK'
<1>1. CASE call'[c].kind # "save_registry"
  BY <1>1, RegistryStays DEF Holds
<1>2. CASE call'[c].kind = "save_registry"
  <2>1. call[c].at = "idle" /\ \E token, e : edit_model_registry(c, token, e)
    BY <1>2, DoneIs, KindsAssumption DEF Moves, Follows, Fits
  <2>2. PICK token, e : edit_model_registry(c, token, e)
    BY <2>1
  <2> SUFFICES ASSUME "registry" \notin spoiled' PROVE RegistryOK'
    BY DEF RegistryOK
  <2>3. Editing = {}
    BY <2>2 DEF edit_model_registry
  <2>4. \A d \in Calls : d # c => call'[d].kind # "save_registry"
    BY <2>3 DEF Editing, Moves
  <2>5. call'[c].at = "registry"
    BY <1>2, <2>2, BeginIs, DoneIs, KindsAssumption DEF edit_model_registry
  <2>6. AsLoaded("registry")' = AsLoaded("registry")
    BY DEF AsLoaded, Readable
  <2> QED BY <2>4, <2>5, <2>6 DEF RegistryOK, Holds
<1> QED BY <1>1, <1>2

\* A request that is not an edit stays what it is.
LEMMA RequestsEdit ==
    ASSUME TypeOK, NEW c \in Calls, SettingsRequest(c) \/ PairingStep(c)
    PROVE  \/ call'[c].kind # "save_registry"
           \/ \E token, e : edit_model_registry(c, token, e)
<1>1. CASE call[c].at # "idle"
  <2>1. PairingStep(c) /\ (start_locked(c) \/ claim_locked(c))
    BY <1>1, Places DEF PairingStep, start_openclaw_pairing, claim_openclaw_pairing, Begin
  <2> QED BY <2>1, DoneIs, KindsAssumption DEF start_locked, claim_locked, Finish, TypeOK
<1>2. CASE call[c].at = "idle"
  <2>1. ASSUME NEW kind, NEW admitted, NEW place, NEW value, Begin(c, kind, admitted, place, value),
               kind # "save_registry"
        PROVE  call'[c].kind # "save_registry"
    BY <2>1, BeginIs, DoneIs, KindsAssumption
  <2>2. ASSUME NEW token, NEW a, save_ozon_config(c, token, a)
        PROVE  call'[c].kind # "save_registry"
    BY <2>1, <2>2 DEF save_ozon_config
  <2>3. ASSUME NEW token, NEW k, NEW url, save_openai_config(c, token, k, url)
        PROVE  call'[c].kind # "save_registry"
    BY <2>1, <2>3 DEF save_openai_config
  <2>4. ASSUME NEW token, NEW name, NEW k, save_secret(c, token, name, k)
        PROVE  call'[c].kind # "save_registry"
    BY <2>1, <2>4 DEF save_secret
  <2>5. portal_status(c) => call'[c].kind # "save_registry"
    BY DEF portal_status, Begin, TypeOK, Idle
  <2>6. ASSUME NEW token, config_status(c, token) \/ start_openclaw_pairing(c, token)
        PROVE  call'[c].kind # "save_registry"
    BY <2>1, <2>6 DEF config_status, start_openclaw_pairing
  <2>7. ASSUME NEW origin, NEW code, claim_openclaw_pairing(c, origin, code)
        PROVE  call'[c].kind # "save_registry"
    BY <2>1, <2>7 DEF claim_openclaw_pairing
  <2>8. ASSUME NEW l, save_portal_lease(c, l) PROVE call'[c].kind # "save_registry"
    BY <2>8, DoneIs, KindsAssumption DEF save_portal_lease, TypeOK, Idle
  <2>9. ASSUME NEW token, validate_ozon_config(c, token) PROVE call'[c].kind # "save_registry"
    BY <2>9, DoneIs, KindsAssumption DEF validate_ozon_config, TypeOK, Idle
  <2>10. ASSUME NEW kind, NEW token, NEW value, NEW items,
                gated_request(c, kind, token, value, items)
         PROVE  call'[c].kind # "save_registry"
    BY <2>10, DoneIs, KindsAssumption DEF gated_request, TypeOK, Idle, Gated
  <2> QED
    BY <1>2, <2>2, <2>3, <2>4, <2>5, <2>6, <2>7, <2>8, <2>9, <2>10
       DEF SettingsRequest, PairingStep, start_locked, claim_locked
<1> QED BY <1>1, <1>2

LEMMA RegistryStepKeeps == TypeOK /\ CopiesOK /\ RegistryOK /\ [Next]_vars => RegistryOK'
<1> SUFFICES ASSUME TypeOK, CopiesOK, RegistryOK, [Next]_vars PROVE RegistryOK'
  OBVIOUS
<1>1. ASSUME UNCHANGED <<saved, call>>, spoiled \subseteq spoiled',
             "registry" \in spoiled' \/ store'["registry"] = store["registry"]
      PROVE  RegistryOK'
  BY <1>1 DEF RegistryOK, Holds, AsLoaded, Readable
<1>2. ASSUME NEW c \in Calls, SettingsStep(c) PROVE RegistryOK'
  <2>1. spoiled \subseteq spoiled'
    BY <1>2, SpoiledGrows
  <2>2. CASE put_setting(c) \/ fill_setting(c)
    BY <2>1, <2>2, EditIsSaved
  <2>3. CASE ~ put_setting(c) /\ ~ fill_setting(c)
    <3>1. Moves(c) /\ UNCHANGED saved /\ store'["registry"] = store["registry"]
      BY <1>2, <2>3, SavedSteps, LeaseMoves, DeviceMoves, RegistryMoves, SaveMoves
         DEF SettingsStep
    <3>2. Fits(call[c]) /\ call[c].at # "idle"
      BY <1>2 DEF TypeOK, SettingsStep, load_cloud_lease, load_cloud_lease_stored,
         load_cloud_lease_fill, load_or_create_device_fingerprint, mint_fingerprint,
         load_credentials, load_persisted_model_registry, load_persisted_model_registry_stored,
         load_persisted_model_registry_fill, get_model_registry, save_model_registry,
         inspect_settings, load_persisted_openai_config, put_setting, fill_setting, drop_call
    <3>3. CASE call[c].kind # "save_registry" \/ call'[c] = Done
      BY <2>1, <3>1, <3>2, <3>3, OtherStepsKeepRegistry
    <3>4. CASE call[c].kind = "save_registry" /\ call'[c] # Done
      <4>1. call[c].at \in {"registry", "registry_fill", "routed", "refs", "put", "fill"}
        BY <3>2, <3>4 DEF Fits
      <4>2. ~ drop_call(c) /\ ~ inspect_settings(c)
        BY <3>4 DEF drop_call, inspect_settings, Finish, TypeOK
      <4>3. \/ load_persisted_model_registry(c) \/ load_persisted_model_registry_stored(c)
            \/ load_persisted_model_registry_fill(c) \/ get_model_registry(c)
            \/ save_model_registry(c)
        BY <1>2, <2>3, <4>1, <4>2 DEF SettingsStep, load_cloud_lease, load_cloud_lease_stored,
           load_cloud_lease_fill, load_or_create_device_fingerprint, mint_fingerprint,
           load_credentials, load_persisted_openai_config
      <4>4. "registry" \notin spoiled' => Holds(call[c])'
        BY <2>1, <3>1, <3>4, <4>3, EditHolds
      <4> QED BY <2>1, <3>1, <3>4, <4>4, RegistryStays
    <3> QED BY <3>3, <3>4
  <2> QED BY <2>2, <2>3
<1>3. ASSUME NEW c \in Calls,
             SettingsRequest(c) \/ PairingStep(c) \/ ExportStep(c) \/ ListingStep(c)
      PROVE  RegistryOK'
  <2>1. spoiled \subseteq spoiled' /\ store' = store /\ UNCHANGED saved
    BY <1>3, SpoiledGrows, SettingsStay
  <2>2. CASE UNCHANGED call
    BY <1>1, <2>1, <2>2
  <2>3. CASE ~ UNCHANGED call
    <3>1. Moves(c)
      BY <1>3, <2>3, RequestsMove
    <3>2. CASE SettingsRequest(c) \/ PairingStep(c)
      <4>1. call'[c].kind = "save_registry" => \E token, e : edit_model_registry(c, token, e)
        BY <3>2, RequestsEdit
      <4>2. call[c].at = "idle" \/ call[c].kind # "save_registry"
        BY <3>2, Places DEF TypeOK, Fits
      <4> QED BY <2>1, <3>1, <4>1, <4>2, OtherStepsKeepRegistry
    <3>3. CASE ExportStep(c) \/ ListingStep(c)
      <4>1. call[c].at \in {"engine", "waiting", "ozon", "routed", "import", "dictionary", "update"}
        BY <2>3, <3>3, Places
      <4>2. call[c].kind # "save_registry"
        <5>1. CASE call[c].at # "routed"
          BY <4>1, <5>1 DEF TypeOK, Fits
        <5>2. CASE call[c].at = "routed"
          BY <3>3, <2>3, <5>2 DEF ExportStep, ListingStep, relist_export, run_inject, run_process,
             run_verify, answer_export, ozon_products_read, product_get, poster_generate,
             relist_edit_image, chat_completion, relist_push_one, module3_push_one,
             module3_push_write
        <5> QED BY <5>1, <5>2
      <4> QED BY <2>1, <3>1, <4>1, <4>2, OtherStepsKeepRegistry
    <3> QED BY <1>3, <3>2, <3>3
  <2> QED BY <2>2, <2>3
<1>4. ASSUME NEW a \in Accounts, seller_edit(a) PROVE RegistryOK'
  BY <1>1, <1>4, StoreStays DEF seller_edit, layers
<1>5. CASE tick \/ UNCHANGED vars
  <2>1. UNCHANGED <<saved, call, spoiled, keyring, file>>
    BY <1>5 DEF tick, vars, settings, layers, copies
  <2> QED BY <1>1, <2>1, StoreStays
<1>7. CASE late_write
  <2>1. UNCHANGED <<saved, call>>
    BY <1>7 DEF late_write
  <2> QED BY <1>1, <1>7, <2>1, LateWriteKeeps DEF TypeOK, Names, Reserved, Cached
<1>6. CASE restart
  <2>1. /\ UNCHANGED saved /\ spoiled \subseteq spoiled' /\ store' = store
        /\ \A c \in Calls : call'[c] \in {Idle, Done}
    BY <1>6, StoreStays DEF restart, restart_settings
  <2>2. \A c \in Calls : call'[c].kind # "save_registry"
    BY <2>1, DoneIs, KindsAssumption DEF Idle
  <2> QED BY <2>1, <2>2 DEF RegistryOK, Holds, AsLoaded, Readable
<1> QED BY <1>2, <1>3, <1>4, <1>5, <1>6, <1>7 DEF Next

\* No entry of the registry whose save was acknowledged is lost from the store, by
\* any order of edits, loads, failures, disconnects and restarts short of two
\* overlapping edits, a registry read or put in an outage, or a late keyring write.
THEOREM EntriesAreKept == Spec => []RegistryKeepsEntries
<1>1. RegistryOK => RegistryKeepsEntries
  BY DEF RegistryOK, RegistryKeepsEntries
<1> QED
  BY <1>1, TypeInit, TypeStep, CopiesInitOK, CopiesStepKeep, RegistryInitOK, RegistryStepKeeps, PTL
     DEF Spec


-----------------------------------------------------------------------------
(* The status page and the request that follows it.                        *)

\* What the page says of a capability is what a request that resolves it finds.
LEMMA CapabilityIsTruthful ==
    ASSUME NEW registry \in Seq(ProviderEntry), NEW cap \in Capability,
           inspect_openai_config => load_openai_config(store["openai"]) # Err,
           inspect_capabilities(registry)[cap]
    PROVE  resolve_capability(registry, cap, store[ProviderRef(registry, cap)]) # Err
<1> DEFINE i == FirstEnabled(registry, cap)
<1>1. "openai" # None /\ "key" # None
  BY KindsAssumption DEF Names, Reserved, Cached
<1>2. CASE i = 0
  <2>1. cap = "image" /\ inspect_openai_config
    BY <1>2 DEF inspect_capabilities, generic_capability_status
  <2>2. ProviderRef(registry, cap) = "openai"
    BY <1>2, <2>1 DEF ProviderRef
  <2>3. resolve_capability(registry, cap, store["openai"]) = load_openai_config(store["openai"])
    BY <1>1, <2>2 DEF resolve_capability, resolve_secret_ref
  <2> QED BY <2>1, <2>2, <2>3
<1>3. CASE i # 0
  <2>1. registry[i].ref \in {"openai", "key"}
    BY <1>3, FirstEnabledIs DEF ProviderEntry
  <2>2. resolve_secret_ref(registry[i].ref, store[registry[i].ref]) # Err
    BY <1>3 DEF inspect_capabilities, generic_capability_status
  <2>3. ProviderRef(registry, cap) = registry[i].ref
    BY <1>3 DEF ProviderRef
  <2>4. ProviderRef(registry, cap) # None
    BY <1>1, <2>1, <2>3
  <2> QED BY <2>2, <2>3, <2>4 DEF resolve_capability
<1> QED BY <1>2, <1>3

\* Whatever the node went through, the page promises nothing that a request with the
\* store answering could not keep, and reports the credentials of a real connector
\* exactly.
THEOREM TheStatusIsTruthful == Spec => []StatusIsTruthful
<1> SUFFICES ASSUME TypeOK PROVE StatusIsTruthful
  BY TypeInit, TypeStep, PTL DEF Spec
<1> DEFINE registry == IF cache["registry"] # None THEN cache["registry"] ELSE AsLoaded("registry")
           lease == IF cache["lease"] # None THEN cache["lease"] ELSE store["lease"]
<1>1. /\ cache["ozon"] \in {None} \cup Accounts /\ cache["openai"] \in {None} \cup Keys
      /\ cache["registry"] \in {None} \cup Seq(ProviderEntry)
      /\ store["registry"] \in {None, Corrupt} \cup Seq(ProviderEntry)
  BY DEF TypeOK, StoreOK, Names, Reserved, Cached, Setting
<1>2. /\ config.ozon_env \in Accounts \cup {None, "partial"}
      /\ config.openai_env \in Keys \cup {None, "bad url"}
      /\ config.legacy \in Accounts \cup {None, "partial"}
  <2>1. config \in Config
    BY DEF TypeOK
  <2>2. config.ozon_env \in Accounts \cup {None, "partial"}
    BY <2>1, Zenon DEF Config
  <2>3. config.openai_env \in Keys \cup {None, "bad url"}
    BY <2>1, Zenon DEF Config
  <2>4. config.legacy \in Accounts \cup {None, "partial"}
    BY <2>1, Zenon DEF Config
  <2> QED BY <2>2, <2>3, <2>4, Zenon
<1>3. /\ None # Err /\ None # "partial"
      /\ Err \notin Accounts /\ Err \notin Keys /\ None \notin Accounts /\ None \notin Keys
      /\ "partial" \notin Accounts /\ "bad url" \notin Keys /\ Err # "mock"
  BY ValuesAssumption, SettingsAssumption, Zenon
<1>9. ~ config.use_real_ozon => load_ozon_credentials(store["ozon"]) # Err
  BY <1>3 DEF load_ozon_credentials
<1>4. config.use_real_ozon =>
        (inspect_ozon_credentials <=> load_ozon_credentials(store["ozon"]) # Err)
  <2> SUFFICES ASSUME config.use_real_ozon
               PROVE  inspect_ozon_credentials <=> load_ozon_credentials(store["ozon"]) # Err
    OBVIOUS
  <2> USE <1>1, <1>2, <1>3
      DEF inspect_ozon_credentials, inspect_ozon_env_credentials, inspect_legacy_ozon_credentials,
          load_ozon_credentials, load_ozon_env_credentials, load_legacy_ozon, Readable
  <2>1. CASE cache["ozon"] # None
    BY <2>1
  <2>2. CASE cache["ozon"] = None /\ config.ozon_env = "partial"
    BY <2>2
  <2>3. CASE cache["ozon"] = None /\ config.ozon_env \in Accounts
    BY <2>3
  <2>4. CASE cache["ozon"] = None /\ config.ozon_env = None
    BY <2>4
  <2> QED BY <2>1, <2>2, <2>3, <2>4
<1>5. inspect_openai_config => load_openai_config(store["openai"]) # Err
  <2> USE <1>1, <1>2, <1>3
      DEF inspect_openai_config, load_openai_config, load_openai_env_config, Readable
  <2>1. CASE cache["openai"] # None
    BY <2>1
  <2>2. CASE cache["openai"] = None /\ config.openai_env \in Keys
    BY <2>2
  <2>3. CASE cache["openai"] = None /\ config.openai_env \notin Keys
    BY <2>3
  <2> QED BY <2>1, <2>2, <2>3
<1>6. inspect_cloud_lease => lease.expires > now /\ lease.defect \notin {"forged", "featureless"}
  BY DEF inspect_cloud_lease, lease_status, validate_cloud_lease_with_feature,
         validate_cloud_lease, verify_cloud_lease_signature
<1>7. registry \in Seq(ProviderEntry)
  BY <1>1 DEF AsLoaded, Readable
<1>8. ASSUME NEW cap \in Capability, inspect_capabilities(registry)[cap]
      PROVE  resolve_capability(registry, cap, store[ProviderRef(registry, cap)]) # Err
  <2> HIDE DEF registry
  <2> QED BY <1>5, <1>7, <1>8, CapabilityIsTruthful
<1> QED BY <1>4, <1>5, <1>6, <1>8, <1>9 DEF StatusIsTruthful

-----------------------------------------------------------------------------
(* Pictures pushed to listings.                                            *)

\* A push that has read its product holds every picture of the seller.
PushOK(k) == k.at = "import" /\ k.account \in Accounts => owned[k.account] \subseteq k.product

GalleryOK ==
    /\ DOMAIN owned = Accounts
    /\ "gallery" \notin spoiled =>
         /\ \A a \in Accounts : owned[a] \subseteq PicturesOf(shop[a].gallery)
         /\ \A c \in Calls : PushOK(call[c])

\* What the steps of requests do to the seller's pictures and to the products.
LEMMA PicturesStay ==
    ASSUME NEW c \in Calls,
           SettingsStep(c) \/ SettingsRequest(c) \/ PairingStep(c) \/ ExportStep(c) \/ ListingStep(c)
    PROVE  UNCHANGED owned
BY DEF SettingsStep, SettingsRequest, PairingStep, ExportStep, ListingStep, listing,
       start_openclaw_pairing, claim_openclaw_pairing, start_locked, claim_locked,
       ozon_products_read, product_get, poster_generate, relist_edit_image, chat_completion,
       relist_push_one, module3_push_one, module3_push_write

\* A read that can have every picture has every picture.
LEMMA CompleteRead ==
    ASSUME NEW p, NEW attributes \in BOOLEAN, NEW description,
           NEW colour \in ColourPicture(p.gallery, attributes), ~ Incomplete(p.gallery, attributes)
    PROVE  PicturesOf(p.gallery) \subseteq Detail(p, colour, attributes, description).images
<1> DEFINE g == p.gallery
<1>1. (\A s, t \in g.colour : s = t) /\ (attributes \/ g.unlisted = {})
  BY DEF Incomplete
<1>2. PICK seen : /\ seen = (IF attributes /\ g.colour \subseteq g.unlisted THEN g.colour
                             ELSE g.colour \ g.unlisted)
                  /\ colour \in FirstOf(seen)
  BY DEF ColourPicture
<1>3. g.colour \subseteq seen
  BY <1>1, <1>2
<1>4. seen \subseteq colour
  BY <1>1, <1>2 DEF FirstOf
<1>5. Detail(p, colour, attributes, description).images
        = (g.images \cup colour \cup g.extra) \ (IF attributes THEN {} ELSE g.unlisted)
  BY DEF Detail, detail_from_info_item, push_images
<1> QED BY <1>1, <1>3, <1>4, <1>5 DEF PicturesOf

\* A request that goes to the import has just read all pictures of its product.
LEMMA ImportHasRead ==
    ASSUME TypeOK, NEW c \in Calls, ListingStep(c), call[c].at = "ozon", call'[c].at = "import",
           "gallery" \notin spoiled'
    PROVE  /\ call'[c].account = call[c].account
           /\ PicturesOf(shop[call[c].account].gallery) \subseteq call'[c].product
<1>1. Fits(call[c]) /\ c \in DOMAIN call
  BY DEF TypeOK
<1>2. ~ Finish(c)
  BY <1>1, DoneIs DEF Finish
<1>3. ~ NextItem(c)
  <2> DEFINE k == [call[c] EXCEPT !.at = "ozon", !.todo = call[c].todo - 1, !.product = None,
                                  !.round = 0, !.made = {}]
  <2>1. k.at = "ozon"
    BY <1>1 DEF Fits, RequestFields
  <2>2. NextItem(c) => call'[c] \in {k, Done}
    BY <1>1 DEF NextItem
  <2> HIDE DEF k
  <2> QED BY <2>1, <2>2, DoneIs
<1>4. product_get(c)
  BY <1>2 DEF ListingStep, ozon_products_read, product_get, poster_generate,
     relist_edit_image, chat_completion, relist_push_one, module3_push_one, module3_push_write
<1> DEFINE p == shop[call[c].account]
<1>5. PICK attributes \in BOOLEAN, description \in BOOLEAN :
        \E colour \in ColourPicture(p.gallery, attributes) :
          /\ call' = [call EXCEPT ![c].at = AfterGet(call[c].kind),
                         ![c].product = Kept(call[c].kind,
                                             Detail(p, colour, attributes, description))]
          /\ call[c].kind = "relist_push" => ~ Incomplete(p.gallery, attributes)
  BY <1>3, <1>4 DEF product_get
<1>6. PICK colour \in ColourPicture(p.gallery, attributes) :
        /\ call' = [call EXCEPT ![c].at = AfterGet(call[c].kind),
                       ![c].product = Kept(call[c].kind,
                                           Detail(p, colour, attributes, description))]
        /\ call[c].kind = "relist_push" => ~ Incomplete(p.gallery, attributes)
  BY <1>5
<1> DEFINE detail == Detail(p, colour, attributes, description)
           k == [call[c] EXCEPT !.at = AfterGet(call[c].kind),
                                !.product = Kept(call[c].kind, detail)]
<1>7. call'[c] = k
  BY <1>1, <1>6
<1>8. /\ k.at = AfterGet(call[c].kind) /\ k.product = Kept(call[c].kind, detail)
      /\ k.account = call[c].account
  BY <1>1 DEF Fits, RequestFields
<1> HIDE DEF detail, k, p
<1>9. call[c].kind = "relist_push"
  BY <1>7, <1>8 DEF AfterGet
<1>10. Kept(call[c].kind, detail) = detail.images
  BY <1>9 DEF Kept
<1>11. PicturesOf(p.gallery) \subseteq detail.images
  BY <1>6, <1>9, CompleteRead DEF detail
<1> QED BY <1>7, <1>8, <1>10, <1>11 DEF p

\* The import of a picture push puts the pictures that were read back.
LEMMA ImportPutsBack ==
    ASSUME ShopOK, NEW c \in Calls, relist_push_one(c), ~ UNCHANGED shop
    PROVE  \A a \in Accounts :
             IF a = call[c].account
             THEN call[c].product \subseteq PicturesOf(shop'[a].gallery)
             ELSE shop'[a] = shop[a]
<1> DEFINE images == {call[c].value} \cup call[c].product
<1>1. shop' = [shop EXCEPT ![call[c].account] = pictures_import(@, images)]
  BY DEF relist_push_one
<1> SUFFICES ASSUME NEW a \in Accounts
             PROVE  IF a = call[c].account THEN images \subseteq PicturesOf(shop'[a].gallery)
                    ELSE shop'[a] = shop[a]
  OBVIOUS
<1>2. CASE a = call[c].account
  <2>1. shop'[a] = pictures_import(shop[a], images)
    BY <1>1, <1>2 DEF ShopOK
  <2>2. pictures_import(shop[a], images).gallery.images = images
    BY DEF ShopOK, IsProduct, pictures_import
  <2> QED BY <1>2, <2>1, <2>2 DEF PicturesOf
<1>3. CASE a # call[c].account
  BY <1>1, <1>3 DEF ShopOK
<1> QED BY <1>2, <1>3

\* A copy push leaves the pictures alone.
LEMMA CopyLeavesPictures ==
    ASSUME ShopOK, NEW c \in Calls, module3_push_write(c)
    PROVE  \A a \in Accounts : shop'[a].gallery = shop[a].gallery
<1> SUFFICES ASSUME NEW a \in Accounts, ~ UNCHANGED shop
             PROVE  shop'[a].gallery = shop[a].gallery
  OBVIOUS
<1>1. PICK fields : shop' = [shop EXCEPT ![call[c].account] = product_update_copy(@, fields)]
  BY DEF module3_push_write
<1>2. CASE a = call[c].account
  <2>1. shop'[a] = product_update_copy(shop[a], fields)
    BY <1>1, <1>2 DEF ShopOK
  <2>2. product_update_copy(shop[a], fields).gallery = shop[a].gallery
    BY DEF ShopOK, IsProduct, product_update_copy
  <2> QED BY <2>1, <2>2
<1>3. CASE a # call[c].account
  BY <1>1, <1>3 DEF ShopOK
<1> QED BY <1>2, <1>3

LEMMA RequestsKeepGallery ==
    ASSUME TypeOK, ShopOK, GalleryOK, NEW c \in Calls,
           SettingsStep(c) \/ SettingsRequest(c) \/ PairingStep(c) \/ ExportStep(c) \/ ListingStep(c)
    PROVE  GalleryOK'
<1> SUFFICES ASSUME "gallery" \notin spoiled'
             PROVE  /\ \A a \in Accounts : owned[a] \subseteq PicturesOf(shop'[a].gallery)
                    /\ \A d \in Calls : PushOK(call'[d])
  BY PicturesStay DEF GalleryOK, PushOK
<1>1. /\ \A a \in Accounts : owned[a] \subseteq PicturesOf(shop[a].gallery)
      /\ \A d \in Calls : PushOK(call[d])
  BY SpoiledGrows DEF GalleryOK
<1>2. \A d \in Calls : PushOK(call'[d])
  <2> SUFFICES ASSUME NEW d \in Calls, call'[d] # call[d] PROVE PushOK(call'[d])
    BY <1>1
  <2>1. Moves(c) /\ d = c
    BY RequestsMove DEF Moves
  <2>2. CASE call'[c].at = "import"
    <3>1. call[c].at = "ozon"
      BY <2>1, <2>2 DEF Moves, Follows
    <3>2. ~ SettingsStep(c)
      BY <2>1, <2>2, <3>1, DoneIs
         DEF SettingsStep, load_cloud_lease, load_cloud_lease_stored, load_cloud_lease_fill,
             load_or_create_device_fingerprint, mint_fingerprint, load_credentials,
             load_persisted_model_registry, load_persisted_model_registry_stored,
             load_persisted_model_registry_fill, get_model_registry, save_model_registry,
             inspect_settings, load_persisted_openai_config, put_setting, fill_setting,
             drop_call, Finish, TypeOK
    <3>3. ListingStep(c)
      BY <2>1, <3>1, <3>2, Places
    <3> QED BY <1>1, <2>1, <2>2, <3>1, <3>3, ImportHasRead DEF PushOK
  <2> QED BY <2>1, <2>2 DEF PushOK
<1>3. \A a \in Accounts : owned[a] \subseteq PicturesOf(shop'[a].gallery)
  <2>1. CASE UNCHANGED shop
    BY <1>1, <2>1
  <2>2. CASE relist_push_one(c) /\ ~ UNCHANGED shop
    <3> SUFFICES ASSUME NEW a \in Accounts
                 PROVE  owned[a] \subseteq PicturesOf(shop'[a].gallery)
      OBVIOUS
    <3>1. call[c].at = "import"
      BY <2>2 DEF relist_push_one
    <3>2. CASE a = call[c].account
      <4>1. owned[a] \subseteq call[c].product
        BY <1>1, <3>1, <3>2 DEF PushOK
      <4> QED BY <2>2, <3>2, <4>1, ImportPutsBack
    <3>3. CASE a # call[c].account
      BY <1>1, <2>2, <3>3, ImportPutsBack
    <3> QED BY <3>2, <3>3
  <2>3. CASE module3_push_write(c)
    BY <1>1, <2>3, CopyLeavesPictures
  <2> QED BY <2>1, <2>2, <2>3, ListingsStay
<1> QED BY <1>2, <1>3

\* The seller adds a picture: a push that has read the product is spoiled.
LEMMA SellerKeepsGallery ==
    ASSUME ShopOK, GalleryOK, NEW a \in Accounts, seller_edit(a)
    PROVE  GalleryOK'
<1>1. PICK s : /\ shop' = [shop EXCEPT ![a].gallery.images = @ \cup {s}]
               /\ owned' = [owned EXCEPT ![a] = @ \cup {s}]
  BY DEF seller_edit
<1>2. UNCHANGED call
  BY DEF seller_edit
<1>3. DOMAIN owned' = Accounts
  BY <1>1 DEF GalleryOK
<1>4. ASSUME "gallery" \notin spoiled'
      PROVE  /\ \A b \in Accounts : owned'[b] \subseteq PicturesOf(shop'[b].gallery)
             /\ \A c \in Calls : PushOK(call[c])'
  <2>1. "gallery" \notin spoiled
        /\ ~ \E c \in Calls : call[c].at = "import" /\ call[c].account = a
    BY <1>4 DEF seller_edit
  <2>2. \A b \in Accounts : b # a => owned'[b] = owned[b] /\ shop'[b] = shop[b]
    BY <1>1 DEF GalleryOK, ShopOK
  <2>3. owned'[a] = owned[a] \cup {s}
    BY <1>1 DEF GalleryOK
  <2>4. PicturesOf(shop'[a].gallery) = PicturesOf(shop[a].gallery) \cup {s}
    BY <1>1 DEF ShopOK, IsProduct, PicturesOf
  <2>5. \A c \in Calls : PushOK(call[c])'
    BY <1>2, <2>1, <2>2 DEF PushOK, GalleryOK
  <2>6. \A b \in Accounts : owned'[b] \subseteq PicturesOf(shop'[b].gallery)
    BY <2>1, <2>2, <2>3, <2>4 DEF GalleryOK
  <2> QED BY <2>5, <2>6
<1> QED BY <1>3, <1>4 DEF GalleryOK

LEMMA GalleryStepKeeps == TypeOK /\ ShopOK /\ GalleryOK /\ [Next]_vars => GalleryOK'
<1> SUFFICES ASSUME TypeOK, ShopOK, GalleryOK, [Next]_vars PROVE GalleryOK'
  OBVIOUS
<1>1. CASE UNCHANGED vars
  BY <1>1 DEF vars, settings, copies, listing, GalleryOK, PushOK
<1>2. CASE (tick \/ late_write) /\ UNCHANGED listing
  <2>1. spoiled \subseteq spoiled' /\ UNCHANGED <<call, shop, owned>>
    BY <1>2 DEF tick, late_write, settings, copies, listing
  <2> QED BY <2>1 DEF GalleryOK, PushOK
<1>3. CASE restart
  <2>1. UNCHANGED listing /\ \A c \in Calls : call'[c].at \in {"idle", "done"}
    BY <1>3, DoneIs DEF restart, restart_settings, Idle
  <2> QED BY <1>3, <2>1 DEF listing, GalleryOK, PushOK, restart, restart_settings
<1> QED
  BY <1>1, <1>2, <1>3, RequestsKeepGallery, SellerKeepsGallery DEF Next

LEMMA GalleryInitOK == Init => GalleryOK
<1>1. Init => \A c \in Calls : call[c].at # "import"
  BY DoneIs DEF Init, SettingsInit, Idle
<1>2. Init => owned = [a \in Accounts |-> PicturesOf(shop[a].gallery)]
  BY DEF Init, ListingsInit
<1> QED BY <1>1, <1>2 DEF GalleryOK, PushOK

\* However picture pushes of any number of requests interleave, are repeated or
\* fail half-way, a product keeps every picture of its seller, unless the seller
\* added one between the read and the import of a push, or a push went on with a
\* read that could not have every picture.
THEOREM GalleriesAreKept == Spec => []GalleryIsKept
<1>1. GalleryOK => GalleryIsKept
  BY DEF GalleryOK, GalleryIsKept
<1> QED
  BY <1>1, TypeInit, TypeStep, ShopInitOK, ShopStepKeeps, GalleryInitOK, GalleryStepKeeps, PTL
     DEF Spec
=============================================================================
