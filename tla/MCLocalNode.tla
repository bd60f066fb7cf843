---- MODULE MCLocalNode ----
EXTENDS LocalNode, TLC

CONSTANTS c1, c2, c3, a1, a2, k1, f1, f2, s1, s2, s3, r1, v1, v2, v3, p1, p2

Real(env, openai, legacy) ==
    [use_real_ozon |-> TRUE, allow_unsigned_lease |-> FALSE,
     mac |-> FALSE, stable |-> FALSE,
     ozon_env |-> env, openai_env |-> openai, legacy |-> legacy]
Plain == Real(None, None, None)
Entry(cap, id, url, ref) == [cap |-> cap, id |-> id, url |-> url, ref |-> ref, enabled |-> TRUE,
                               kind |-> [image |-> "images", text |-> "chat", video |-> "video"][cap]]
LeaseFor(device, expires) == [device |-> device, expires |-> expires, defect |-> "no"]

Empty == [n \in Names |-> None]
Installed == [Empty EXCEPT !["ozon"] = a1, !["openai"] = k1, !["key"] = k1, !["fingerprint"] = f1,
                           !["lease"] = LeaseFor(f1, MaxTime + 1),
                           !["registry"] = <<Entry("image", 1, "https", "key"),
                                             Entry("text", 2, "https", "openai")>>]
World(env, stored, kinds, calls, ticks, failures) ==
    [config |-> env, keyring |-> stored, file |-> Empty, workload |-> kinds, calls |-> calls,
     now |-> MaxTime - ticks, faults |-> MaxFaults - failures]

MCEntries == {Entry("image", 1, "https", "openai"), Entry("video", 3, "https", "key"),
              Entry("text", 2, "http", "key")}
Draft(title, description, attributes) ==
    [title |-> title, description |-> description,
     attributes |-> {[name |-> n, values |-> attributes[n]] : n \in DOMAIN attributes}]
MCDrafts == {Draft("new", "new", [colour |-> {v1, v2}, note |-> {v1, Blank}]),
             Draft("new", Blank, [colour |-> {v2, v3}, other |-> {v1}]),
             Draft(Blank, "new", [colour |-> {Blank}, note |-> {Blank}])}
MCSourceAttributes == {[name |-> "colour", values |-> {v1}]}
NoPictures == [images |-> {}, colour |-> {}, extra |-> {}, unlisted |-> {}]
MCGalleries == {NoPictures, [NoPictures EXCEPT !.images = {s1}],
                [NoPictures EXCEPT !.images = {s1}, !.extra = {s2}],
                [NoPictures EXCEPT !.colour = {s1}, !.unlisted = {s1}],
                [NoPictures EXCEPT !.colour = {s1, s2}]}
MCPages == <<{v1}, {Blank}, {v2}>>

\* Saves and status; the lease gate and the fingerprint; pairing; export; pushes.
SettingsWorlds ==
    {World(e, s, {"save_ozon", "save_openai", "save_registry", "save_secret", "config_status", "validate"},
           {c1, c2}, 0, 1) :
        e \in {Plain, Real("partial", "bad url", None), Real(None, k1, a2), Real(a2, None, "partial")},
        s \in {Empty, Installed, [Installed EXCEPT !["registry"] = Corrupt, !["openai"] = Corrupt]}}
    \cup {World([Plain EXCEPT !.use_real_ozon = FALSE], Installed,
                {"save_ozon", "config_status", "validate"}, {c1}, 0, 1),
          \* the keys of an earlier outage are in the file
          [World(Plain, [Empty EXCEPT !["registry"] = Installed["registry"]],
                 {"save_registry", "save_openai", "config_status"}, {c1, c2}, 0, 1)
             EXCEPT !.file = [Empty EXCEPT !["openai"] = k1, !["key"] = k1, !["registry"] = <<>>]]}
LeaseWorlds ==
    LET Gate(env, stored) == World(env, stored, {"save_lease", "portal_status", "read"}, {c1, c2}, 2, 1)
        Foreign == [Installed EXCEPT !["lease"] = LeaseFor(Elsewhere, MaxTime)]
    IN  {Gate(Plain, Empty), Gate(Plain, Installed), Gate(Plain, Foreign),
         Gate([Plain EXCEPT !.allow_unsigned_lease = TRUE], Installed),
         Gate([Plain EXCEPT !.mac = TRUE, !.stable = TRUE], Foreign),
         Gate([Plain EXCEPT !.use_real_ozon = FALSE, !.allow_unsigned_lease = TRUE], Empty),
         \* another fingerprint is left in the file
         [World(Plain, Installed, {"portal_status", "read"}, {c1}, 0, 1)
            EXCEPT !.file = [Empty EXCEPT !["fingerprint"] = f2]]}
OtherWorlds ==
    {World(Plain, Installed, {"save_registry", "config_status"}, Calls, 0, 0),
     World(Plain, Empty, {"portal_status", "save_lease"}, Calls, 0, 1),
     World(Plain, Empty, {"start_pairing", "claim_pairing"}, Calls, 2, 1),
     World(Plain, Installed, {"export"}, {c1, c2}, 0, 1),
     World(Plain, Installed, {"generate", "recognize", "poster"}, {c1}, 0, 1),
     World(Plain, [Installed EXCEPT !["registry"] = <<>>], {"generate", "recognize", "poster"}, {c1}, 0, 1),
     World(Plain, [Installed EXCEPT !["registry"] =
                      <<[Entry("text", 2, "https", "openai") EXCEPT !.kind = "video"]>>],
           {"recognize"}, {c1}, 0, 1),
     World(Plain, Installed, {"relist_push"}, {c1, c2}, 0, 0),
     World(Plain, Installed, {"recognize", "copy_push"}, {c1, c2}, 0, 0),
     World(Plain, Installed, {"relist_push", "save_ozon", "poster"}, {c1, c2}, 0, 0)}
MCWorlds == SettingsWorlds \cup LeaseWorlds \cup OtherWorlds
====
