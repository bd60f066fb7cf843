----------------------------- MODULE ExcelExport -----------------------------
(***************************************************************************)
(* Module 4, the export of a deliverable workbook (relist_export and       *)
(* run_export_pipeline in apps/local-node/src/main.rs).  The pipeline runs *)
(* on a blocking thread: it writes rows.json, lets the Python engine       *)
(* inject the rows into a workbook, process and verify it into the         *)
(* deliverable, asks for a report and removes what it no longer needs.     *)
(* The thread goes on when its request is dropped; a restart ends it.      *)
(***************************************************************************)
EXTENDS NodeSettings

CONSTANTS MaxRows   \* RELIST_EXPORT_MAX_ROWS

VARIABLES
    engine,     \* the pipeline of each call
    answered    \* history: calls that were answered with a deliverable

export == <<engine, answered>>

Files == {"rows", "populated", "deliverable"}
\* leak: what may have left files behind.
NoEngine == [at |-> "none", files |-> {}, tainted |-> FALSE, leak |-> "none"]

\* The checks of the handler, then the thread starts with rows.json.  A disk that is
\* full may leave a part of that file, which nobody removes.
relist_export(c) ==
    /\ call[c].at = "engine"
    /\ \/ /\ call[c].todo \in 1..MaxRows
          /\ engine' = [engine EXCEPT ![c] = [NoEngine EXCEPT !.at = "inject",
                                                              !.files = {"rows"}]]
          /\ Goto(c, "waiting")
       \/ /\ call[c].todo \in 1..MaxRows
          /\ engine' \in {[engine EXCEPT ![c] = [NoEngine EXCEPT !.at = "failed", !.files = left,
                                                                 !.leak = "rows"]] :
                            left \in SUBSET {"rows"}}
          /\ Goto(c, "waiting")
       \/ Finish(c) /\ UNCHANGED engine     \* no template, no config
    /\ UNCHANGED <<settings, world, faults, answered>>

\* The files in gone are removed; a removal that fails is ignored.
CleanUp(c, k, gone) ==
    engine' \in {[engine EXCEPT ![c] = [k EXCEPT !.files = (@ \ gone) \cup left,
                                                !.leak = IF left = {} THEN @ ELSE "removal"]] :
                   left \in SUBSET (k.files \cap gone)}

\* The thread ends without a deliverable.  Unless the engine's message is cut
\* inside a character (summarize_stderr), which panics, it removes files first.
Fail(c, files, gone, tainted, panic) ==
    LET k == [at |-> "failed", files |-> files, tainted |-> tainted,
              leak |-> IF panic THEN "panic" ELSE "none"]
    IN  CleanUp(c, k, IF panic THEN {} ELSE gone)

\* inject writes the populated workbook, fails with or without it, or cannot
\* be launched.
run_inject(c) ==
    /\ engine[c].at = "inject"
    /\ \/ engine' = [engine EXCEPT ![c].at = "process", ![c].files = @ \cup {"populated"}]
       \/ Fail(c, engine[c].files, {"rows"}, FALSE, FALSE)
       \/ \E left \in SUBSET {"populated"}, panic \in BOOLEAN :
            Fail(c, engine[c].files \cup left, {"rows", "populated"}, FALSE, panic)
    /\ UNCHANGED <<settings, world, faults, call, answered>>

\* Mutant: a failed verification leaves the deliverable in place.
run_process_Kept(c) ==
    /\ engine[c].at = "process"
    /\ \/ engine' = [engine EXCEPT ![c].at = "verify", ![c].files = @ \cup {"deliverable"}]
       \/ Fail(c, engine[c].files, {"rows", "populated"}, FALSE, FALSE)
       \/ \E left \in SUBSET {"deliverable"}, panic \in BOOLEAN :
            Fail(c, engine[c].files \cup left, {"rows", "populated"}, left # {}, panic)
    /\ UNCHANGED <<settings, world, faults, call, answered>>

\* process --verify writes the deliverable and proves it.  When it fails, what it
\* may have written is contaminated.
run_process(c) ==
    /\ engine[c].at = "process"
    /\ \/ engine' = [engine EXCEPT ![c].at = "verify", ![c].files = @ \cup {"deliverable"}]
       \/ Fail(c, engine[c].files, {"rows", "populated"}, FALSE, FALSE)
       \/ \E left \in SUBSET {"deliverable"}, panic \in BOOLEAN :
            Fail(c, engine[c].files \cup left, Files, left # {}, panic)
    /\ UNCHANGED <<settings, world, faults, call, answered>>

\* The report is best effort; the intermediate files go.
run_verify(c) ==
    /\ engine[c].at = "verify"
    /\ CleanUp(c, [engine[c] EXCEPT !.at = "made"], {"rows", "populated"})
    /\ UNCHANGED <<settings, world, faults, call, answered>>

\* The handler that still waits is told; map_engine_exit words the failure.
answer_export(c) ==
    /\ call[c].at = "waiting" /\ engine[c].at \in {"made", "failed"}
    /\ answered' = IF engine[c].at = "made" THEN answered \cup {c} ELSE answered
    /\ Finish(c)
    /\ UNCHANGED <<settings, world, faults, engine>>

\* The process ends: the thread with it, the files stay.
restart_engine == engine' = [c \in Calls |->
    IF engine[c].at \in {"inject", "process", "verify"}
    THEN [engine[c] EXCEPT !.at = "killed"] ELSE engine[c]]

ExportInit ==
    /\ engine = [c \in Calls |-> NoEngine]
    /\ answered = {}

\* A finished pipeline leaves the deliverable that passed its verification, or
\* nothing: no contaminated workbook and no intermediate file, whichever stage
\* failed.  Only a message cut inside a character, a file that cannot be removed and
\* a disk that is full when the rows are written leave more behind, and even then a
\* contaminated deliverable is never an answer.
DeliverableIsVerified ==
    \A c \in Calls :
        /\ engine[c].at = "made" \/ c \in answered =>
             "deliverable" \in engine[c].files /\ ~ engine[c].tainted
        /\ engine[c].leak = "none" =>
             /\ engine[c].at = "made" => engine[c].files = {"deliverable"}
             /\ engine[c].at = "failed" => engine[c].files = {}
=============================================================================
