---------------------- MODULE LayeredSecretStoreProofs ----------------------
(***************************************************************************)
(* Proofs about LayeredSecretStore, for every set of values and callers    *)
(* and every environment.                                                  *)
(*                                                                         *)
(* Whatever the environment does, a caller that is about to remove the     *)
(* file copy has put something into the keyring (CallersFit), and what a   *)
(* lost keyring call may still write is a value (LateCallsFit).  In a      *)
(* steady environment any two writes in flight know of each other          *)
(* (WritesOverlap), so the one that answers last accounts for what the     *)
(* other left in the keyring (SteadyFit).                                  *)
(***************************************************************************)
EXTENDS LayeredSecretStore, TLAPS

TypeOK ==
    /\ world \in World
    /\ keyring \in Secret /\ file \in Secret
    /\ working \in BOOLEAN /\ deleting \in BOOLEAN
    /\ late \subseteq Secret
    /\ caller \in [Callers -> Caller]

\* What an operation k in flight may rely on.
Fits(k) ==
    /\ k.at = "idle" <=> k.op = "none"
    /\ k.op = "put" => k.value # None
    /\ k.op = "delete" => k.value = None /\ deleting
    /\ k.at \in {"lookup", "migrate"} => k.op = "get"
    /\ k.at = "migrate" => k.value # None
    /\ k.at = "cleanup" /\ ~ deleting => keyring # None

CallersFit == \A c \in Callers : Fits(caller[c])

LateCallsFit == ~ deleting => None \notin late

\* Writes in flight at the same time know of each other.
WritesOverlap ==
    \A c, d \in Writes : c # d => caller[d].value \in caller[c].overlap

SteadyWorld == ~ world.switches /\ ~ world.slow /\ ~ world.drops /\ ~ world.legacy

\* A keyring that never answers is never written: the file is what counts.
SilentFit ==
    /\ keyring = None /\ file \in current
    /\ \A c \in Callers : caller[c].at \in {"idle", "primary", "file"}

\* A keyring that always answers is what counts: it holds what was last written,
\* by a write that has answered or by one that is about to.
AnsweringFit ==
    /\ file = None
    /\ \A c \in Callers : caller[c].at \notin {"file", "migrate"}
    /\ \A c \in Writes : caller[c].at = "cleanup" =>
         keyring \in {caller[c].value} \cup caller[c].overlap
    /\ keyring \in current \/ \E c \in Writes : caller[c].at = "cleanup"

SteadyFit == SteadyWorld => IF working THEN AnsweringFit ELSE SilentFit

IInv ==
    /\ TypeOK
    /\ CallersFit
    /\ LateCallsFit
    /\ WritesOverlap
    /\ SteadyWorld => late = {}
    /\ SteadyFit
    /\ LastCopyIsKept

-----------------------------------------------------------------------------
\* The initial state: nothing in flight, nothing in the keyring.
LEMMA InitHolds == Init => IInv
<1> SUFFICES ASSUME Init PROVE IInv
  OBVIOUS
<1>1. IdleCaller \in Caller /\ IdleCaller.at = "idle" /\ IdleCaller.op = "none"
  BY DEF IdleCaller, Caller, Secret
<1> HIDE DEF IdleCaller
<1>2. \A c \in Callers : caller[c] = IdleCaller
  BY DEF Init
<1>3. TypeOK
  BY <1>1, WorldsAssumption DEF Init, TypeOK, Secret, World
<1>4. CallersFit
  BY <1>1, <1>2 DEF CallersFit, Fits
<1>5. Writes = {}
  BY <1>1, <1>2 DEF Writes
<1>6. SteadyFit
  BY <1>1, <1>2, <1>5 DEF Init, SteadyFit, SteadyWorld, AnsweringFit, SilentFit
<1> QED BY <1>3, <1>4, <1>5, <1>6
    DEF Init, IInv, LateCallsFit, WritesOverlap, LastCopyIsKept

\* One operation moves on: the others stay where they are.
LEMMA CallerMoves ==
    ASSUME TypeOK, NEW c \in Callers, NEW k \in Caller, caller' = [caller EXCEPT ![c] = k]
    PROVE  /\ caller' \in [Callers -> Caller]
           /\ caller'[c] = k
           /\ \A d \in Callers : d # c => caller'[d] = caller[d]
BY DEF TypeOK

\* A write that moves on, or ends, keeps its value and what it overlapped.
LEMMA OverlapStays ==
    ASSUME IInv, NEW c \in Callers, NEW k \in Caller, caller' = [caller EXCEPT ![c] = k],
           k.op \in {"put", "delete"} => /\ c \in Writes /\ k.value = caller[c].value
                                         /\ k.overlap = caller[c].overlap
    PROVE  WritesOverlap'
<1>1. /\ caller'[c] = k
      /\ \A d \in Callers : d # c => caller'[d] = caller[d]
  BY CallerMoves DEF IInv
<1>2. \A d \in Writes' : d \in Writes /\ caller'[d].value = caller[d].value
                                      /\ caller'[d].overlap = caller[d].overlap
  BY <1>1 DEF Writes
<1> QED BY <1>2 DEF IInv, WritesOverlap

\* What an operation relies on stays true while the keyring is not emptied, or
\* a deletion has been asked for.
LEMMA FitsStays ==
    ASSUME NEW k \in Caller, Fits(k), deleting => deleting',
           ~ deleting' /\ keyring # None => keyring' # None
    PROVE  Fits(k)'
BY DEF Fits

\* An operation that moves on without answering, in whatever it does to the
\* keyring and to the late calls.
LEMMA MoveKeeps ==
    ASSUME IInv, NEW c \in Callers, NEW k \in Caller, caller' = [caller EXCEPT ![c] = k],
           UNCHANGED <<world, file, working, current, deleting>>,
           keyring' \in Secret, late' \subseteq Secret,
           ~ deleting /\ keyring # None => keyring' # None,
           ~ deleting => None \notin late',
           SteadyWorld => late' = {},
           k.op = caller[c].op, k.overlap = caller[c].overlap,
           k.op \in {"put", "delete"} => k.value = caller[c].value,
           Fits(k)',
           SteadyWorld /\ working =>
               /\ k.at \notin {"file", "migrate"}
               /\ \/ keyring' = keyring /\ (k.op = "get" \/ k.at # "cleanup")
                  \/ c \in Writes /\ k.at = "cleanup" /\ keyring' = k.value,
           SteadyWorld /\ ~ working => keyring' = keyring /\ k.at \in {"idle", "primary", "file"},
           caller[c].at # "cleanup"
    PROVE  IInv'
<1>1. /\ caller' \in [Callers -> Caller]
      /\ caller'[c] = k
      /\ \A d \in Callers : d # c => caller'[d] = caller[d]
  BY CallerMoves DEF IInv
<1>2. TypeOK'
  BY <1>1 DEF IInv, TypeOK
<1>3. CallersFit'
  <2> SUFFICES ASSUME NEW d \in Callers PROVE Fits(caller[d])'
    BY DEF CallersFit
  <2>1. PICK j \in Caller : j = caller'[d]
    BY <1>1
  <2>2. CASE d = c
    BY <1>1, <2>2
  <2>3. CASE d # c
    <3>1. Fits(j)
      BY <1>1, <2>1, <2>3 DEF IInv, CallersFit
    <3>2. Fits(j)'
      BY <3>1, FitsStays
    <3> QED BY <2>1, <3>2
  <2> QED BY <2>2, <2>3
<1>4. WritesOverlap'
  BY OverlapStays DEF Writes
<1>5. Writes' = Writes
  BY <1>1 DEF Writes
<1>6. SteadyFit'
  <2> SUFFICES ASSUME SteadyWorld PROVE IF working THEN AnsweringFit' ELSE SilentFit'
    BY DEF SteadyFit, SteadyWorld
  <2>1. CASE ~ working
    BY <1>1, <2>1 DEF IInv, SteadyFit, SilentFit
  <2>2. CASE working
    <3>1. AnsweringFit
      BY <2>2 DEF IInv, SteadyFit
    <3>2. file' = None /\ \A d \in Callers : caller'[d].at \notin {"file", "migrate"}
      BY <1>1, <2>2, <3>1 DEF AnsweringFit
    <3>3. \A d \in Writes : caller'[d].at = "cleanup" =>
              keyring' \in {caller'[d].value} \cup caller'[d].overlap
      <4> SUFFICES ASSUME NEW d \in Writes, caller'[d].at = "cleanup"
                   PROVE  keyring' \in {caller'[d].value} \cup caller'[d].overlap
        OBVIOUS
      <4>1. CASE keyring' = keyring /\ (k.op = "get" \/ k.at # "cleanup")
        <5>1. d # c /\ d \in Callers
          BY <1>1, <4>1 DEF Writes
        <5> QED BY <1>1, <3>1, <4>1, <5>1 DEF AnsweringFit
      <4>2. CASE c \in Writes /\ k.at = "cleanup" /\ keyring' = k.value
        <5>1. CASE d = c
          BY <1>1, <4>2, <5>1
        <5>2. CASE d # c
          BY <1>1, <4>2, <5>2 DEF IInv, WritesOverlap, Writes
        <5> QED BY <5>1, <5>2
      <4> QED BY <2>2, <4>1, <4>2
    <3>4. keyring' \in current \/ \E d \in Writes : caller'[d].at = "cleanup"
      <4>1. CASE c \in Writes /\ k.at = "cleanup"
        BY <1>1, <4>1
      <4>2. CASE keyring' = keyring
        <5>1. \A d \in Writes : caller[d].at = "cleanup" => caller'[d].at = "cleanup"
          BY <1>1 DEF Writes
        <5> QED BY <3>1, <4>2, <5>1 DEF AnsweringFit
      <4> QED BY <2>2, <4>1, <4>2
    <3> QED BY <1>5, <2>2, <3>2, <3>3, <3>4 DEF AnsweringFit
  <2> QED BY <2>1, <2>2
<1>7. LastCopyIsKept'
  BY DEF IInv, LastCopyIsKept
<1> QED BY <1>2, <1>3, <1>4, <1>6, <1>7 DEF IInv, LateCallsFit, SteadyWorld

\* An operation answers, or is dropped, in whatever it does to the file.
LEMMA ReturnKeeps ==
    ASSUME IInv, NEW c \in Callers, NEW ok \in BOOLEAN, Return(c, ok), caller[c].at # "idle",
           UNCHANGED <<world, keyring, working, deleting>>,
           file' \in Secret, late' \subseteq Secret,
           ~ deleting => None \notin late',
           SteadyWorld => late' = {},
           SteadyWorld /\ ~ working => file' \in current',
           SteadyWorld /\ working => file' = None /\ (c \in Writes => caller[c].at = "cleanup"),
           LastCopyIsKept'
    PROVE  IInv'
<1>1. PICK k \in Caller : k = IdleCaller /\ k.at = "idle" /\ k.op = "none"
  <2>1. IdleCaller \in Caller /\ IdleCaller.at = "idle" /\ IdleCaller.op = "none"
    BY DEF IdleCaller, Caller, Secret
  <2> HIDE DEF IdleCaller
  <2> QED BY <2>1
<1>2. caller' = [caller EXCEPT ![c] = k]
  BY <1>1 DEF Return
<1>3. /\ caller' \in [Callers -> Caller]
      /\ caller'[c] = k
      /\ \A d \in Callers : d # c => caller'[d] = caller[d]
  BY <1>2, CallerMoves DEF IInv
<1>4. TypeOK'
  BY <1>3 DEF IInv, TypeOK
<1>5. CallersFit'
  <2> SUFFICES ASSUME NEW d \in Callers PROVE Fits(caller[d])'
    BY DEF CallersFit
  <2>1. PICK j \in Caller : j = caller'[d]
    BY <1>3
  <2>2. Fits(j)
    BY <1>1, <1>3, <2>1 DEF IInv, CallersFit, Fits
  <2>3. Fits(j)'
    BY <2>2, FitsStays
  <2> QED BY <2>1, <2>3
<1>6. WritesOverlap'
  BY <1>1, <1>2, OverlapStays
<1>7. Writes' = Writes \ {c}
  BY <1>1, <1>3 DEF Writes
<1>8. caller[c].op \in {"put", "get", "delete"}
  BY DEF IInv, TypeOK, CallersFit, Fits, Caller
<1>9. SteadyFit'
  <2> SUFFICES ASSUME SteadyWorld PROVE IF working THEN AnsweringFit' ELSE SilentFit'
    BY DEF SteadyFit, SteadyWorld
  <2>1. CASE ~ working
    BY <1>1, <1>3, <2>1 DEF IInv, SteadyFit, SilentFit
  <2>2. CASE working
    <3>1. AnsweringFit
      BY <2>2 DEF IInv, SteadyFit
    <3>2. /\ \A d \in Callers : caller'[d].at \notin {"file", "migrate"}
          /\ \A d \in Writes' : caller'[d].at = "cleanup" =>
               keyring \in {caller'[d].value} \cup caller'[d].overlap
      BY <1>1, <1>3, <1>7, <3>1 DEF AnsweringFit, Writes
    <3>3. keyring \in current' \/ \E d \in Writes' : caller'[d].at = "cleanup"
      <4>1. CASE c \in Writes
        <5>1. keyring \in {caller[c].value} \cup caller[c].overlap
          BY <2>2, <3>1, <4>1 DEF AnsweringFit
        <5>2. {caller[c].value} \cup caller[c].overlap \subseteq current'
          BY <4>1 DEF Return, Writes
        <5> QED BY <5>1, <5>2
      <4>2. CASE c \notin Writes
        <5>1. current' = current
          BY <1>8, <4>2 DEF Return, Writes
        <5>2. \A d \in Writes : d \in Writes' /\ caller'[d] = caller[d]
          BY <1>3, <1>7, <4>2 DEF Writes
        <5> QED BY <3>1, <5>1, <5>2 DEF AnsweringFit
      <4> QED BY <4>1, <4>2
    <3> QED BY <2>2, <3>2, <3>3 DEF AnsweringFit
  <2> QED BY <2>1, <2>2
<1> QED BY <1>4, <1>5, <1>6, <1>9 DEF IInv, LateCallsFit, SteadyWorld

\* put, get and delete: an operation starts, and the writes in flight hear of it.
LEMMA StartKeeps ==
    ASSUME IInv, NEW c \in Callers, NEW op \in {"put", "get", "delete"}, NEW v \in Secret,
           Start(c, op, v), UNCHANGED <<world, keyring, file, working, late, current>>,
           deleting' = (deleting \/ op = "delete"),
           (op = "put") <=> (v # None)
    PROVE  IInv'
<1> DEFINE started == [op |-> op, at |-> "primary", value |-> v,
                       overlap |-> IF op = "get" THEN {} ELSE {caller[w].value : w \in Writes}]
           told(d) == IF d \in Writes /\ op # "get"
                      THEN [caller[d] EXCEPT !.overlap = @ \cup {v}] ELSE caller[d]
<1>1. /\ caller' = [d \in Callers |-> IF d = c THEN started ELSE told(d)]
      /\ caller[c].at = "idle"
  BY DEF Start
<1>2. caller \in [Callers -> Caller] /\ Writes \subseteq Callers
  BY DEF IInv, TypeOK, Writes
<1>3. c \notin Writes
  BY <1>1, <1>2 DEF IInv, CallersFit, Fits, Writes
<1>4. PICK k \in Caller : /\ k = started /\ k.op = op /\ k.at = "primary" /\ k.value = v
                          /\ op # "get" => k.overlap = {caller[w].value : w \in Writes}
  <2>1. {caller[w].value : w \in Writes} \in SUBSET Secret
    BY <1>2 DEF Caller
  <2>2. /\ started \in Caller /\ started.op = op /\ started.at = "primary" /\ started.value = v
        /\ op # "get" => started.overlap = {caller[w].value : w \in Writes}
    BY <2>1 DEF Caller
  <2> HIDE DEF started
  <2> QED BY <2>2
<1>5. \A d \in Callers : /\ told(d) \in Caller
                         /\ told(d).op = caller[d].op /\ told(d).at = caller[d].at
                         /\ told(d).value = caller[d].value
                         /\ caller[d].overlap \subseteq told(d).overlap
                         /\ d \in Writes /\ op # "get" => v \in told(d).overlap
  BY <1>2 DEF Caller
<1> HIDE DEF started, told
<1>6. /\ caller' \in [Callers -> Caller] /\ caller'[c] = k
      /\ \A d \in Callers : d # c => caller'[d] = told(d)
  BY <1>1, <1>4, <1>5
<1>7. TypeOK'
  BY <1>6 DEF IInv, TypeOK
<1>8. CallersFit'
  <2> SUFFICES ASSUME NEW d \in Callers PROVE Fits(caller[d])'
    BY DEF CallersFit
  <2>1. PICK j \in Caller : j = caller'[d]
    BY <1>6
  <2>2. CASE d = c
    BY <1>4, <1>6, <2>2 DEF Fits
  <2>3. CASE d # c
    <3>1. /\ caller'[d].op = caller[d].op /\ caller'[d].at = caller[d].at
          /\ caller'[d].value = caller[d].value
      BY <1>5, <1>6, <2>3, Zenon
    <3>2. Fits(caller[d]) /\ (deleting => deleting') /\ keyring' = keyring
      BY DEF IInv, CallersFit
    <3> QED BY <3>1, <3>2 DEF Fits
  <2> QED BY <2>2, <2>3
<1>9. Writes' = IF op = "get" THEN Writes ELSE Writes \cup {c}
  BY <1>3, <1>4, <1>5, <1>6 DEF Writes
<1>10. WritesOverlap'
  <2> SUFFICES ASSUME NEW d \in Writes', NEW e \in Writes', d # e
               PROVE  caller'[e].value \in caller'[d].overlap
    BY DEF WritesOverlap
  <2>1. CASE d # c /\ e # c
    BY <1>2, <1>5, <1>6, <1>9, <2>1 DEF IInv, WritesOverlap
  <2>2. CASE d = c
    BY <1>2, <1>3, <1>4, <1>5, <1>6, <1>9, <2>2
  <2>3. CASE e = c
    BY <1>2, <1>3, <1>4, <1>5, <1>6, <1>9, <2>3
  <2> QED BY <2>1, <2>2, <2>3
<1>11. SteadyFit'
  <2>1. \A d \in Callers : caller'[d].at = IF d = c THEN "primary" ELSE caller[d].at
    BY <1>4, <1>5, <1>6
  <2>2. \A d \in Writes : d \in Writes' /\ d # c /\ d \in Callers
                          /\ caller'[d].value = caller[d].value
                          /\ caller[d].overlap \subseteq caller'[d].overlap
    BY <1>2, <1>3, <1>5, <1>6, <1>9
  <2>3. \A d \in Writes' : caller'[d].at = "cleanup" => d \in Writes
    BY <1>2, <1>9, <2>1
  <2> QED BY <1>2, <2>1, <2>2, <2>3 DEF IInv, SteadyFit, SteadyWorld, AnsweringFit, SilentFit
<1>12. LastCopyIsKept'
  BY DEF IInv, LastCopyIsKept
<1> QED BY <1>7, <1>8, <1>10, <1>11, <1>12 DEF IInv, LateCallsFit, SteadyWorld

\* The keyring call of an operation answers.
LEMMA AnswerKeeps ==
    ASSUME IInv, UNCHANGED world, NEW c \in Callers,
           primary_put(c) \/ primary_get(c) \/ primary_delete(c) \/ primary_migrate(c)
    PROVE  IInv'
<1>1. /\ caller \in [Callers -> Caller] /\ caller[c] \in Caller /\ Fits(caller[c])
      /\ working /\ caller[c].at # "cleanup"
      /\ UNCHANGED <<world, file, working, late, current, deleting>>
  BY DEF primary_put, primary_get, primary_delete, primary_migrate, IInv, TypeOK, CallersFit
<1>2. SteadyWorld => caller[c].at # "migrate" /\ late = {}
  BY <1>1 DEF IInv, SteadyFit, AnsweringFit
<1>3. late \subseteq Secret /\ (~ deleting => None \notin late) /\ keyring \in Secret
  BY DEF IInv, TypeOK, LateCallsFit
<1>4. CASE primary_get(c)
  <2> DEFINE new == [caller[c] EXCEPT !.at = IF keyring # None THEN "cleanup" ELSE "lookup",
                                      !.value = keyring]
  <2>1. /\ caller' = [caller EXCEPT ![c] = new] /\ keyring' = keyring
        /\ caller[c].op = "get" /\ caller[c].at = "primary"
    BY <1>1, <1>4 DEF primary_get
  <2>2. /\ new \in Caller /\ new.op = caller[c].op /\ new.overlap = caller[c].overlap
        /\ new.at = (IF keyring # None THEN "cleanup" ELSE "lookup")
    BY <1>1, <1>3 DEF Caller
  <2> HIDE DEF new
  <2>3. PICK k \in Caller :
           /\ k = new /\ k.op = caller[c].op /\ k.overlap = caller[c].overlap
           /\ k.at = (IF keyring # None THEN "cleanup" ELSE "lookup")
    BY <2>2
  <2>4. Fits(k)'
    BY <1>1, <2>1, <2>3 DEF Fits
  <2> QED BY <1>1, <1>2, <1>3, <2>1, <2>3, <2>4, MoveKeeps
<1>5. CASE primary_put(c) \/ primary_delete(c) \/ primary_migrate(c)
  <2> DEFINE new == [caller[c] EXCEPT !.at = "cleanup"]
  <2>1. /\ caller' = [caller EXCEPT ![c] = new] /\ keyring' = caller[c].value
        /\ caller[c].op \in {"put", "delete"} \/ caller[c].at = "migrate"
    BY <1>1, <1>5 DEF primary_put, primary_delete, primary_migrate, Fits
  <2>2. /\ new \in Caller /\ new.op = caller[c].op /\ new.overlap = caller[c].overlap
        /\ new.value = caller[c].value /\ new.at = "cleanup"
    BY <1>1 DEF Caller
  <2> HIDE DEF new
  <2>3. PICK k \in Caller :
           /\ k = new /\ k.op = caller[c].op /\ k.overlap = caller[c].overlap
           /\ k.value = caller[c].value /\ k.at = "cleanup"
    BY <2>2
  <2>4. keyring' \in Secret /\ (~ deleting => keyring' # None)
    BY <1>1, <2>1 DEF Fits, Caller
  <2>5. Fits(k)'
    BY <1>1, <2>1, <2>3, <2>4 DEF Fits
  <2>6. SteadyWorld => c \in Writes
    BY <1>2, <2>1 DEF Writes
  <2> QED BY <1>1, <1>2, <1>3, <2>1, <2>3, <2>4, <2>5, <2>6, MoveKeeps
<1> QED BY <1>4, <1>5

\* The keyring call of an operation fails.
LEMMA FailKeeps ==
    ASSUME IInv, UNCHANGED world, NEW c \in Callers, primary_fails(c)
    PROVE  IInv'
<1>1. /\ caller \in [Callers -> Caller] /\ caller[c] \in Caller /\ Fits(caller[c])
      /\ caller[c].at \in {"primary", "migrate"}
      /\ UNCHANGED <<world, keyring, file, working, deleting>>
  BY DEF primary_fails, IInv, TypeOK, CallersFit
<1>2. late \subseteq Secret /\ (~ deleting => None \notin late) /\ keyring \in Secret /\ file \in Secret
  BY DEF IInv, TypeOK, LateCallsFit
<1>3. \/ late' = late
      \/ /\ late' = late \cup {caller[c].value}
         /\ ~ (caller[c].op = "get" /\ caller[c].at = "primary")
  BY DEF primary_fails, Abandoned
<1>4. late' \subseteq Secret /\ (~ deleting => None \notin late')
  BY <1>1, <1>2, <1>3 DEF Fits, Caller
<1>5. SteadyWorld => ~ working /\ late' = {} /\ caller[c].at = "primary"
  BY <1>1 DEF SteadyWorld, primary_fails, IInv, SteadyFit, SilentFit
<1>6. CASE caller[c].at = "migrate"
  <2>1. Return(c, TRUE) /\ caller[c].op = "get" /\ ~ SteadyWorld
    BY <1>1, <1>5, <1>6 DEF primary_fails, Fits
  <2>2. LastCopyIsKept'
    BY <1>1, <2>1 DEF IInv, LastCopyIsKept, Return
  <2> QED BY <1>1, <1>2, <1>4, <1>5, <2>1, <2>2, ReturnKeeps
<1>7. CASE caller[c].at = "primary"
  <2> DEFINE new == [caller[c] EXCEPT !.at = "file"]
  <2>1. caller' = [caller EXCEPT ![c] = new] /\ current' = current
    BY <1>7 DEF primary_fails
  <2>2. /\ new \in Caller /\ new.op = caller[c].op /\ new.overlap = caller[c].overlap
        /\ new.value = caller[c].value /\ new.at = "file"
    BY <1>1 DEF Caller
  <2> HIDE DEF new
  <2>3. PICK k \in Caller :
           /\ k = new /\ k.op = caller[c].op /\ k.overlap = caller[c].overlap
           /\ k.value = caller[c].value /\ k.at = "file"
    BY <2>2
  <2>4. Fits(k)'
    BY <1>1, <1>7, <2>3 DEF Fits
  <2> QED BY <1>1, <1>2, <1>4, <1>5, <1>7, <2>1, <2>3, <2>4, MoveKeeps
<1> QED BY <1>1, <1>6, <1>7

\* The file, after the keyring.
LEMMA FileKeeps ==
    ASSUME IInv, UNCHANGED world, NEW c \in Callers,
           fallback_cleanup(c) \/ fallback_instead(c) \/ fallback_lookup(c)
    PROVE  IInv'
<1>1. /\ caller \in [Callers -> Caller] /\ caller[c] \in Caller /\ Fits(caller[c])
      /\ caller[c].at # "idle"
      /\ UNCHANGED <<world, keyring, working, late, deleting>>
  BY DEF fallback_cleanup, fallback_instead, fallback_lookup, IInv, TypeOK, CallersFit
<1>2. /\ late \subseteq Secret /\ (~ deleting => None \notin late) /\ keyring \in Secret
      /\ file \in Secret /\ (SteadyWorld => late = {})
  BY DEF IInv, TypeOK, LateCallsFit
<1>3. SteadyWorld /\ ~ working => caller[c].at \in {"primary", "file"} /\ file \in current
  BY <1>1 DEF IInv, SteadyFit, SilentFit
<1>4. SteadyWorld /\ working => caller[c].at \notin {"file", "migrate"} /\ file = None
  BY DEF IInv, SteadyFit, AnsweringFit
<1>5. CASE fallback_cleanup(c)
  <2>1. /\ file' = None /\ Return(c, TRUE) /\ caller[c].at = "cleanup"
        /\ ~ deleting => keyring # None
    BY <1>1, <1>5 DEF fallback_cleanup, Fits
  <2>2. LastCopyIsKept'
    BY <1>1, <2>1 DEF LastCopyIsKept
  <2> QED BY <1>1, <1>2, <1>3, <1>4, <2>1, <2>2, ReturnKeeps DEF Secret
<1>6. CASE fallback_instead(c)
  <2>1. PICK ok \in BOOLEAN : ok = (caller[c].op = "put")
    OBVIOUS
  <2>2. /\ file' = (IF caller[c].op = "get" THEN file ELSE caller[c].value)
        /\ Return(c, ok) /\ caller[c].at = "file"
    BY <1>6, <2>1 DEF fallback_instead
  <2>3. file' \in Secret
    BY <1>1, <1>2, <2>2 DEF Caller
  <2>4. SteadyWorld /\ ~ working => file' \in current'
    BY <1>3, <2>2 DEF Return
  <2>5. caller[c].op \in {"put", "get", "delete"}
    BY <1>1 DEF Fits, Caller
  <2>6. LastCopyIsKept'
    <3>1. CASE caller[c].op = "put"
      BY <1>1, <2>2, <3>1 DEF LastCopyIsKept, Fits
    <3>2. CASE caller[c].op = "get"
      BY <1>1, <2>2, <3>2 DEF IInv, LastCopyIsKept, Return
    <3>3. CASE caller[c].op = "delete"
      BY <1>1, <3>3 DEF LastCopyIsKept, Fits
    <3> QED BY <2>5, <3>1, <3>2, <3>3
  <2> QED BY <1>1, <1>2, <1>4, <2>2, <2>3, <2>4, <2>6, ReturnKeeps
<1>7. CASE fallback_lookup(c) /\ file = None
  <2>1. /\ Return(c, TRUE) /\ caller[c].at = "lookup" /\ caller[c].op = "get" /\ file' = file
    BY <1>1, <1>7 DEF fallback_lookup, Fits
  <2>2. c \notin Writes
    BY <2>1 DEF Writes
  <2>3. LastCopyIsKept'
    BY <1>1, <2>1 DEF IInv, LastCopyIsKept, Return
  <2> QED BY <1>1, <1>2, <1>3, <1>7, <2>1, <2>2, <2>3, ReturnKeeps
<1>8. CASE fallback_lookup(c) /\ file # None
  <2> DEFINE new == [caller[c] EXCEPT !.at = "migrate", !.value = file]
  <2>1. /\ caller' = [caller EXCEPT ![c] = new] /\ current' = current /\ file' = file
        /\ caller[c].at = "lookup" /\ caller[c].op = "get"
    BY <1>1, <1>8 DEF fallback_lookup, Fits
  <2>2. /\ new \in Caller /\ new.op = caller[c].op /\ new.overlap = caller[c].overlap
        /\ new.value = file /\ new.at = "migrate"
    BY <1>1, <1>2 DEF Caller
  <2> HIDE DEF new
  <2>3. PICK k \in Caller :
           /\ k = new /\ k.op = caller[c].op /\ k.overlap = caller[c].overlap
           /\ k.value = file /\ k.at = "migrate"
    BY <2>2
  <2>4. Fits(k)'
    BY <1>8, <2>1, <2>3 DEF Fits
  <2> QED BY <1>1, <1>2, <1>3, <1>4, <1>8, <2>1, <2>3, <2>4, MoveKeeps
<1> QED BY <1>5, <1>6, <1>7, <1>8

\* The environment: a late keyring call, a dropped caller, an outage.
LEMMA EnvironmentKeeps ==
    ASSUME IInv, UNCHANGED world
    PROVE  /\ \A v \in Secret : late_call(v) => IInv'
           /\ \A c \in Callers : drop_caller(c) => IInv'
           /\ switch => IInv'
<1>1. /\ late \subseteq Secret /\ (~ deleting => None \notin late) /\ keyring \in Secret
      /\ file \in Secret /\ (SteadyWorld => late = {})
  BY DEF IInv, TypeOK, LateCallsFit
<1>2. ASSUME NEW v \in Secret, late_call(v) PROVE IInv'
  <2>1. /\ UNCHANGED <<world, file, working, caller, current, deleting>>
        /\ v \in late /\ late' \subseteq late /\ keyring' \in {v, keyring} /\ ~ SteadyWorld
    BY <1>1, <1>2 DEF late_call
  <2>2. ~ deleting => v # None
    BY <1>1, <2>1
  <2>3. TypeOK'
    BY <1>1, <2>1 DEF IInv, TypeOK
  <2>4. CallersFit'
    BY <2>1, <2>2 DEF IInv, CallersFit, Fits
  <2>5. WritesOverlap'
    BY <2>1 DEF IInv, WritesOverlap, Writes
  <2> QED BY <1>1, <2>1, <2>2, <2>3, <2>4, <2>5
      DEF IInv, LateCallsFit, SteadyFit, SteadyWorld, LastCopyIsKept
<1>3. ASSUME NEW c \in Callers, drop_caller(c) PROVE IInv'
  <2>1. /\ caller[c] \in Caller /\ Fits(caller[c]) /\ caller[c].at # "idle" /\ Return(c, FALSE)
        /\ UNCHANGED <<world, keyring, file, working, deleting>> /\ ~ SteadyWorld
    BY <1>3 DEF drop_caller, IInv, TypeOK, CallersFit, SteadyWorld
  <2>2. \/ late' = late
        \/ /\ late' = late \cup {caller[c].value}
           /\ caller[c].at \in {"primary", "migrate"}
           /\ ~ (caller[c].op = "get" /\ caller[c].at = "primary")
    BY <1>3 DEF drop_caller, Abandoned
  <2>3. late' \subseteq Secret /\ (~ deleting => None \notin late')
    BY <1>1, <2>1, <2>2 DEF Fits, Caller
  <2>4. current \subseteq current'
    BY <2>1 DEF Return
  <2>5. LastCopyIsKept'
    BY <2>1, <2>4 DEF IInv, LastCopyIsKept
  <2> QED BY <1>1, <2>1, <2>3, <2>5, ReturnKeeps
<1>4. ASSUME switch PROVE IInv'
  <2>1. /\ UNCHANGED <<world, keyring, file, late, caller, current, deleting>>
        /\ working' \in BOOLEAN /\ ~ SteadyWorld
    BY <1>4 DEF switch, SteadyWorld
  <2> QED BY <2>1 DEF IInv, TypeOK, CallersFit, Fits, LateCallsFit, WritesOverlap, Writes, SteadyFit,
             SteadyWorld, LastCopyIsKept
<1> QED BY <1>2, <1>3, <1>4

LEMMA StutterKeeps == ASSUME IInv, UNCHANGED vars PROVE IInv'
BY DEF vars, IInv, TypeOK, CallersFit, Fits, LateCallsFit, WritesOverlap, Writes, SteadyFit,
   SteadyWorld, AnsweringFit, SilentFit, LastCopyIsKept

LEMMA StepKeeps == IInv /\ [Next]_vars => IInv'
<1> SUFFICES ASSUME IInv, [Next]_vars PROVE IInv'
  OBVIOUS
<1>1. CASE UNCHANGED vars
  BY <1>1, StutterKeeps
<1>2. CASE Next
  <2>1. UNCHANGED world /\ Operation
    BY <1>2 DEF Next
  <2>2. ASSUME NEW c \in Callers, NEW v \in Values, put(c, v) PROVE IInv'
    <3>1. v \in Secret /\ v # None
      BY NoneAssumption DEF Secret
    <3>2. Start(c, "put", v) /\ UNCHANGED <<world, keyring, file, working, late, current, deleting>>
      BY <2>1, <2>2 DEF put
    <3>3. deleting' = (deleting \/ "put" = "delete")
      BY <3>2 DEF IInv, TypeOK
    <3> QED BY <3>1, <3>2, <3>3, StartKeeps
  <2>3. ASSUME NEW c \in Callers, get(c) PROVE IInv'
    <3>1. Start(c, "get", None) /\ UNCHANGED <<world, keyring, file, working, late, current, deleting>>
      BY <2>1, <2>3 DEF get
    <3>2. deleting' = (deleting \/ "get" = "delete")
      BY <3>1 DEF IInv, TypeOK
    <3> QED BY <3>1, <3>2, StartKeeps DEF Secret
  <2>4. ASSUME NEW c \in Callers, delete(c) PROVE IInv'
    <3>1. Start(c, "delete", None) /\ UNCHANGED <<world, keyring, file, working, late, current>>
      BY <2>1, <2>4 DEF delete
    <3>2. deleting' = (deleting \/ "delete" = "delete")
      BY <2>4 DEF delete
    <3> QED BY <3>1, <3>2, StartKeeps DEF Secret
  <2>5. ASSUME NEW c \in Callers,
               primary_put(c) \/ primary_get(c) \/ primary_delete(c) \/ primary_migrate(c)
        PROVE  IInv'
    BY <2>1, <2>5, AnswerKeeps
  <2>6. ASSUME NEW c \in Callers, primary_fails(c) PROVE IInv'
    BY <2>1, <2>6, FailKeeps
  <2>7. ASSUME NEW c \in Callers, fallback_cleanup(c) \/ fallback_instead(c) \/ fallback_lookup(c)
        PROVE  IInv'
    BY <2>1, <2>7, FileKeeps
  <2>8. ASSUME NEW c \in Callers, drop_caller(c) PROVE IInv'
    BY <2>1, <2>8, EnvironmentKeeps
  <2>9. ASSUME NEW v \in Secret, late_call(v) PROVE IInv'
    BY <2>1, <2>9, EnvironmentKeeps
  <2>10. ASSUME switch PROVE IInv'
    BY <2>1, <2>10, EnvironmentKeeps
  <2> QED
    BY <2>1, <2>2, <2>3, <2>4, <2>5, <2>6, <2>7, <2>8, <2>9, <2>10 DEF Operation
<1> QED BY <1>1, <1>2

LEMMA Invariant == Spec => []IInv
BY InitHolds, StepKeeps, PTL DEF Spec

-----------------------------------------------------------------------------
(* The theorems.                                                           *)

\* Every layer, operation and late call has its type, in every environment.
THEOREM TypeCorrect == Spec => []TypeOK
<1>1. IInv => TypeOK
  BY DEF IInv
<1> QED BY <1>1, Invariant, PTL

\* LayeredSecretStore: whatever fails, times out, is dropped or overtaken, a
\* secret that was accepted and that nobody asked to delete is in some layer.
THEOREM LastCopyStays == Spec => []LastCopyIsKept
<1>1. IInv => LastCopyIsKept
  BY DEF IInv
<1> QED BY <1>1, Invariant, PTL

\* LayeredSecretStore with a keyring that always answers in time, or never does,
\* and no value from before: put is not lost and delete is reliable, however many
\* operations overlap.
THEOREM SteadyStoreIsReliable == Spec => []SteadyStoreKeepsPromises
<1>1. IInv => SteadyStoreKeepsPromises
  <2> SUFFICES ASSUME IInv, SteadyWorld, Quiet PROVE Visible \in current
    BY DEF SteadyStoreKeepsPromises, SteadyWorld, SecretIsNotLost, RevocationIsReliable
  <2>1. \A c \in Writes : caller[c].at # "cleanup"
    BY DEF Quiet, Writes
  <2> QED BY <2>1 DEF IInv, SteadyFit, AnsweringFit, SilentFit, Visible
<1> QED BY <1>1, Invariant, PTL
=============================================================================
