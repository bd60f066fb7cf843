------------------------- MODULE LayeredSecretStore -------------------------
(***************************************************************************)
(* The layered secret store of the local node                              *)
(* (crates/secret-store/src/lib.rs): an OS keyring that is authoritative   *)
(* and a private file that is used when the keyring does not answer.  One  *)
(* secret is modelled: secrets do not interact.                            *)
(*                                                                         *)
(* Each operation calls the keyring first, with a 500 ms timeout, and then *)
(* the file.  Nothing spans the two: operations of several handlers        *)
(* interleave between their steps.  A keyring call runs on a blocking      *)
(* thread, which a timeout or a dropped caller does not stop: it may still *)
(* take effect later.  Every file operation holds the lock of the file     *)
(* store, so it is atomic; the disk is taken to work.                      *)
(***************************************************************************)
EXTENDS Naturals, FiniteSets

CONSTANTS
    Values,     \* secret values
    None,       \* no value
    Callers,    \* handlers that may call the store
    Worlds      \* environments of the store


ASSUME NoneAssumption == None \notin Values

\* switches: the keyring becomes available and unavailable.  slow: keyring calls
\* may outlive their timeout.  drops: callers may be dropped.  legacy: the file may
\* hold a value from before.  inFlight: operations in flight at once.
World == [switches : BOOLEAN, slow : BOOLEAN, drops : BOOLEAN, legacy : BOOLEAN, inFlight : Nat]

ASSUME WorldsAssumption == Worlds \subseteq World

VARIABLES
    world,      \* the environment of this behaviour
    keyring,    \* the value in the OS keyring
    file,       \* the value in the fallback file
    working,    \* does the keyring answer now?
    late,       \* keyring calls that go on without their caller
    caller,     \* the operations in flight
    current,    \* values a read may answer when nothing is in flight
    deleting    \* has any delete been requested?

vars == <<world, keyring, file, working, late, caller, current, deleting>>

Secret == Values \cup {None}

\* at: primary: waits for the keyring.  cleanup: the keyring has the value, the
\* file copy goes.  file: the keyring failed, the file is next.  lookup: the
\* keyring had no entry, the file is consulted.  migrate: the file's value goes
\* to the keyring.  overlap: values of the writes that ran at the same time.
Caller == [op : {"none", "put", "get", "delete"},
           at : {"idle", "primary", "cleanup", "file", "lookup", "migrate"},
           value : Secret,
           overlap : SUBSET Secret]

IdleCaller == [op |-> "none", at |-> "idle", value |-> None, overlap |-> {}]

-----------------------------------------------------------------------------
(* Starting and ending an operation.                                       *)

Writes == {c \in Callers : caller[c].op \in {"put", "delete"}}

Start(c, op, v) ==
    /\ caller[c].at = "idle"
    /\ Cardinality({d \in Callers : caller[d].at # "idle"}) < world.inFlight
    /\ caller' = [d \in Callers |->
         IF d = c
         THEN [op |-> op, at |-> "primary", value |-> v,
               overlap |-> IF op = "get" THEN {}
                           ELSE {caller[w].value : w \in Writes}]
         ELSE IF d \in Writes /\ op # "get"
         THEN [caller[d] EXCEPT !.overlap = @ \cup {v}]
         ELSE caller[d]]

put(c, v) ==
    /\ Start(c, "put", v)
    /\ UNCHANGED <<keyring, file, working, late, current, deleting>>

get(c) ==
    /\ Start(c, "get", None)
    /\ UNCHANGED <<keyring, file, working, late, current, deleting>>

delete(c) ==
    /\ Start(c, "delete", None)
    /\ deleting' = TRUE
    /\ UNCHANGED <<keyring, file, working, late, current>>

\* A write that answers Ok is what reads answer from now on, or one of the
\* writes that overlapped it.  After an error nothing is certain.
Return(c, ok) ==
    /\ caller' = [caller EXCEPT ![c] = IdleCaller]
    /\ current' = IF caller[c].op = "get" THEN current
                  ELSE {caller[c].value} \cup caller[c].overlap
                       \cup (IF ok THEN {} ELSE current)

-----------------------------------------------------------------------------
(* The keyring call of each operation answers in time.                     *)

primary_put(c) ==
    /\ caller[c].op = "put" /\ caller[c].at = "primary"
    /\ working
    /\ keyring' = caller[c].value
    /\ caller' = [caller EXCEPT ![c].at = "cleanup"]
    /\ UNCHANGED <<file, working, late, current, deleting>>

primary_get(c) ==
    /\ caller[c].op = "get" /\ caller[c].at = "primary"
    /\ working
    /\ caller' = [caller EXCEPT ![c].at = IF keyring # None THEN "cleanup" ELSE "lookup",
                                ![c].value = keyring]
    /\ UNCHANGED <<keyring, file, working, late, current, deleting>>

\* Mutant: delete removes only the file copy.
primary_delete_FileOnly(c) ==
    /\ caller[c].op = "delete" /\ caller[c].at = "primary"
    /\ working
    /\ caller' = [caller EXCEPT ![c].at = "cleanup"]
    /\ UNCHANGED <<keyring, file, working, late, current, deleting>>

primary_delete(c) ==
    /\ caller[c].op = "delete" /\ caller[c].at = "primary"
    /\ working
    /\ keyring' = None
    /\ caller' = [caller EXCEPT ![c].at = "cleanup"]
    /\ UNCHANGED <<file, working, late, current, deleting>>

\* The second keyring call of get: migrate the file's value.
primary_migrate(c) ==
    /\ caller[c].at = "migrate"
    /\ working
    /\ keyring' = caller[c].value
    /\ caller' = [caller EXCEPT ![c].at = "cleanup"]
    /\ UNCHANGED <<file, working, late, current, deleting>>

\* The keyring call fails, or does not answer in time and goes on alone.  A
\* migration that fails ends get, which keeps the file copy.
Abandoned(c) ==
    IF caller[c].op = "get" /\ caller[c].at = "primary"
    THEN late
    ELSE late \cup {caller[c].value}

\* Mutant: get removes the file copy although the migration failed.
primary_fails_Cleanup(c) ==
    /\ caller[c].at \in {"primary", "migrate"}
    /\ \/ ~ working /\ UNCHANGED late
       \/ world.slow /\ late' = Abandoned(c)
    /\ caller' = [caller EXCEPT ![c].at = IF @ = "migrate" THEN "cleanup" ELSE "file"]
    /\ UNCHANGED <<keyring, file, working, current, deleting>>

primary_fails(c) ==
    /\ caller[c].at \in {"primary", "migrate"}
    /\ \/ ~ working /\ UNCHANGED late
       \/ world.slow /\ late' = Abandoned(c)
    /\ IF caller[c].at = "migrate"
       THEN Return(c, TRUE)
       ELSE /\ caller' = [caller EXCEPT ![c].at = "file"]
            /\ UNCHANGED current
    /\ UNCHANGED <<keyring, file, working, deleting>>

-----------------------------------------------------------------------------
(* The file, after the keyring.                                            *)

\* The keyring has done its part: the plaintext copy is removed.
fallback_cleanup(c) ==
    /\ caller[c].at = "cleanup"
    /\ file' = None
    /\ Return(c, TRUE)
    /\ UNCHANGED <<keyring, working, late, deleting>>

\* The keyring failed: put writes the file, get reads it, delete empties it and
\* still reports the failure.
fallback_instead(c) ==
    /\ caller[c].at = "file"
    /\ file' = IF caller[c].op = "get" THEN file ELSE caller[c].value
    /\ Return(c, caller[c].op = "put")
    /\ UNCHANGED <<keyring, working, late, deleting>>

\* The keyring has no entry: get looks in the file.
fallback_lookup(c) ==
    /\ caller[c].at = "lookup"
    /\ IF file = None
       THEN Return(c, TRUE)
       ELSE /\ caller' = [caller EXCEPT ![c].at = "migrate", ![c].value = file]
            /\ UNCHANGED current
    /\ UNCHANGED <<keyring, file, working, late, deleting>>

-----------------------------------------------------------------------------
(* The environment.                                                        *)

\* A keyring call that lost its caller takes effect, or fails.
late_call(v) ==
    /\ v \in late
    /\ late' = late \ {v}
    /\ \/ working /\ keyring' = v
       \/ UNCHANGED keyring
    /\ UNCHANGED <<file, working, caller, current, deleting>>

\* The handler that called the store is dropped at an await point.
drop_caller(c) ==
    /\ world.drops
    /\ caller[c].at # "idle"
    /\ late' = IF caller[c].at \in {"primary", "migrate"} THEN Abandoned(c) ELSE late
    /\ Return(c, FALSE)
    /\ UNCHANGED <<keyring, file, working, deleting>>

switch ==
    /\ world.switches
    /\ working' = ~ working
    /\ UNCHANGED <<keyring, file, late, caller, current, deleting>>

-----------------------------------------------------------------------------

Init ==
    /\ world \in Worlds
    /\ keyring = None
    /\ file \in IF world.legacy THEN Secret ELSE {None}
    /\ working \in BOOLEAN
    /\ late = {}
    /\ caller = [c \in Callers |-> IdleCaller]
    /\ current = {file}
    /\ deleting = FALSE

Operation ==
    \/ \E c \in Callers, v \in Values : put(c, v)
    \/ \E c \in Callers : get(c)
    \/ \E c \in Callers : delete(c)
    \/ \E c \in Callers : primary_put(c)
    \/ \E c \in Callers : primary_get(c)
    \/ \E c \in Callers : primary_delete(c)
    \/ \E c \in Callers : primary_migrate(c)
    \/ \E c \in Callers : primary_fails(c)
    \/ \E c \in Callers : fallback_cleanup(c)
    \/ \E c \in Callers : fallback_instead(c)
    \/ \E c \in Callers : fallback_lookup(c)
    \/ \E c \in Callers : drop_caller(c)
    \/ \E v \in Secret : late_call(v)
    \/ switch

Next == Operation /\ UNCHANGED world

Spec == Init /\ [][Next]_vars

-----------------------------------------------------------------------------
(* Properties.                                                             *)

Quiet == \A c \in Callers : caller[c].at = "idle"

\* What get answers when the keyring answers: the keyring's value, else the
\* file's.
Visible == IF keyring # None THEN keyring ELSE file

\* put falls back to the file "so the secret is not lost": once every operation
\* has returned, a secret that put accepted is what the store answers.
SecretIsNotLost ==
    (Quiet /\ None \notin current) => Visible \in current

\* "Revocation must be reliable": once delete has answered Ok and every
\* operation has returned, the store answers nothing.
RevocationIsReliable ==
    (Quiet /\ current = {None}) => Visible = None

\* While the keyring always answers, in time, or never does, and no caller is
\* dropped, concurrent operations keep both promises.  A file with a value from before is
\* left out: a read may migrate that value over the one a concurrent put has just stored.
SteadyStoreKeepsPromises ==
    ~ world.switches /\ ~ world.slow /\ ~ world.drops /\ ~ world.legacy =>
        SecretIsNotLost /\ RevocationIsReliable

\* Whatever fails, times out, is dropped or overtaken, the last copy is never
\* thrown away: as long as nobody asks for a deletion, a store that has accepted
\* a secret holds one in some layer.
LastCopyIsKept ==
    (~ deleting /\ None \notin current) => (keyring # None \/ file # None)
=============================================================================
