------------------------------- MODULE Pairing -------------------------------
(***************************************************************************)
(* OpenClaw pairing (apps/local-node/src/main.rs): the operator starts a   *)
(* pairing, the node makes a one-time code, and whoever posts the code     *)
(* from a trusted origin before it expires is given the bridge token.      *)
(* Both handlers read the clock first and then wait for the lock of the    *)
(* table, so they act on a time that may have passed.                      *)
(***************************************************************************)
EXTENDS NodeSettings

CONSTANTS
    Codes,          \* pairing codes
    PairingTtl      \* OPENCLAW_PAIRING_TTL in ticks

ASSUME PairingAssumption == PairingTtl \in Nat

VARIABLES
    pairings,   \* the table: code -> time it expires, or None
    issued,     \* history: code -> time it expires, or None
    claims      \* history: <<code, time the claim arrived>> of every token given out

pairing == <<pairings, issued, claims>>

start_openclaw_pairing(c, token) ==
    /\ Begin(c, "start_pairing", require_operator_token(token), "start", None)
    /\ UNCHANGED <<settings, world, faults, pairing>>

claim_openclaw_pairing(c, origin, code) ==
    /\ Begin(c, "claim_pairing", require_openclaw_pairing_origin(origin) /\ code # Blank,
             "claim", code)
    /\ UNCHANGED <<settings, world, faults, pairing>>

\* Whoever holds the lock first drops the codes that had expired when it arrived.
Retained(t) == [k \in Codes |-> IF pairings[k] # None /\ pairings[k] > t THEN pairings[k]
                                ELSE None]

start_locked(c) ==
    /\ call[c].at = "start"
    /\ \E k \in Codes :
         /\ issued[k] = None
         /\ pairings' = [Retained(call[c].since) EXCEPT ![k] = call[c].since + PairingTtl]
         /\ issued' = [issued EXCEPT ![k] = call[c].since + PairingTtl]
    /\ Finish(c)
    /\ UNCHANGED <<settings, world, faults, claims>>

\* Mutant: the code stays in the table.
claim_locked_Kept(c) ==
    /\ call[c].at = "claim"
    /\ LET table == Retained(call[c].since)
           k == call[c].value
       IN  /\ pairings' = table
           /\ claims' = IF table[k] # None THEN Append(claims, <<k, call[c].since>>) ELSE claims
    /\ Finish(c)
    /\ UNCHANGED <<settings, world, faults, issued>>

\* The code is removed and the token is the answer, or the claim is refused.
claim_locked(c) ==
    /\ call[c].at = "claim"
    /\ LET table == Retained(call[c].since)
           k == call[c].value
       IN  /\ pairings' = [table EXCEPT ![k] = None]
           /\ claims' = IF table[k] # None THEN Append(claims, <<k, call[c].since>>) ELSE claims
    /\ Finish(c)
    /\ UNCHANGED <<settings, world, faults, issued>>

PairingInit ==
    /\ pairings = [k \in Codes |-> None]
    /\ issued = [k \in Codes |-> None]
    /\ claims = <<>>

\* A pairing code is good once and for its five minutes: no two claims are
\* answered with the token for one code, whatever the order in which handlers get
\* the lock, and every answered claim arrived before the code expired.
CodeIsOneTime ==
    \A i \in 1..Len(claims) :
        /\ issued[claims[i][1]] # None /\ claims[i][2] < issued[claims[i][1]]
        /\ \A j \in 1..Len(claims) : claims[i][1] = claims[j][1] => i = j
=============================================================================
