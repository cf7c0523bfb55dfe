----------------------------- MODULE BacktestRuns -----------------------------
(***************************************************************************)
(* Backtest runs (backtest/orchestrator.py) beside ingestion: each run      *)
(* reads the dataset market by market, keeps a row in strategy_runs, saves  *)
(* its own artifact file and replaces the shared latest.json                *)
(* (backtest/results.py).  Every run is a process; several may run at once. *)
(* A result is the set of markets it was computed from: what the backtester *)
(* makes of them is not modelled here.                                      *)
(***************************************************************************)
EXTENDS Ingestion

CONSTANTS
    Runs,          \* run ids
    Universe,      \* the markets of the strategy, in order
    NoRow

Row == [status : {"RUNNING", "SUCCEEDED", "FAILED"}, artifact_path : BOOLEAN]

ASSUME RunsAssumption ==
    /\ Universe \in Seq(Markets)
    /\ NoFile \notin Runs /\ \A loaded \in SUBSET Markets : loaded # NoFile
    /\ NoRow \notin Row
    /\ "nothing" \notin Runs /\ "mixture" \notin Runs

VARIABLES
    rows,          \* strategy_runs
    artifacts,     \* backtests/<strategy>/<time>_<run id>.json: the result it holds
    tmp,           \* latest.json.tmp: the file that has this name
    latest,        \* latest.json: the file that has this name
    text,          \* text[f]: what is in file f, which run f has created
    run,           \* the runs: where they are, what they loaded, the file they write
    overlap        \* history: a run has opened a temporary file that another was writing

fileVars == <<artifacts, tmp, latest, text>>
vars == <<ingestionVars, budget, rows, fileVars, run, overlap>>

Texts == Runs \cup {"nothing", "mixture"}
Open == {"load", "save", "open", "write", "rename", "finish", "failing"}

TypeOK ==
    /\ IngestionTypeOK
    /\ rows \in [Runs -> Row \cup {NoRow}]
    /\ artifacts \in [Runs -> (SUBSET Markets) \cup {NoFile}]
    /\ tmp \in Runs \cup {NoFile}
    /\ latest \in Runs \cup {NoFile}
    /\ text \in [Runs -> Texts]
    /\ run \in [Runs -> [pc : Open \cup {"new", "done", "dead"}, next : 1 .. Len(Universe) + 1,
                         loaded : SUBSET Markets, fd : Runs \cup {NoFile}]]
    /\ overlap \in BOOLEAN

Init ==
    /\ IngestionInit
    /\ rows = [r \in Runs |-> NoRow]
    /\ artifacts = [r \in Runs |-> NoFile]
    /\ tmp = NoFile
    /\ latest = NoFile
    /\ text = [r \in Runs |-> "nothing"]
    /\ run = [r \in Runs |-> [pc |-> "new", next |-> 1, loaded |-> {}, fd |-> NoFile]]
    /\ overlap = FALSE

-----------------------------------------------------------------------------
In(r, label) == run[r].pc = label
Enter(r, label) == run' = [run EXCEPT ![r].pc = label]

\* An exception inside the try block: the handler comes next.
Raise(r) == Strike("io") /\ Enter(r, "failing")

\* start_strategy_run, before the try block: when it fails there is no row.
Start(r) ==
    /\ In(r, "new")
    /\ \/ /\ rows' = [rows EXCEPT ![r] = [status |-> "RUNNING", artifact_path |-> FALSE]]
          /\ Enter(r, "load")
          /\ UNCHANGED budget
       \/ Strike("store") /\ Enter(r, "done") /\ UNCHANGED rows
    /\ UNCHANGED <<ingestionVars, fileVars, overlap>>

\* Mutant: what is loaded is named by the job that wrote it.
LoadBarsByJob(r) ==
    /\ In(r, "load")
    /\ run[r].next <= Len(Universe)
    /\ Whole
    /\ run' = [run EXCEPT ![r].next = @ + 1, ![r].loaded = @ \cup {bars.job}]
    /\ UNCHANGED <<ingestionVars, budget, rows, fileVars, overlap>>

\* load_bars for the next market.  A dataset that is not there, or not whole,
\* raises; a market it has no bars of is passed over.
LoadBars(r) ==
    /\ In(r, "load")
    /\ run[r].next <= Len(Universe)
    /\ LET market == Universe[run[r].next]
       IN  \/ /\ Whole
              /\ run' = [run EXCEPT ![r].next = @ + 1,
                            ![r].loaded = @ \cup ({Market(bars.job)} \cap {market})]
              /\ UNCHANGED budget
           \/ ~Whole /\ Enter(r, "failing") /\ UNCHANGED budget
           \/ Raise(r)
    /\ UNCHANGED <<ingestionVars, rows, fileVars, overlap>>

\* Without bars the run fails; with bars, building or running the strategy may raise.
Simulate(r) ==
    /\ In(r, "load")
    /\ run[r].next > Len(Universe)
    /\ \/ run[r].loaded # {} /\ Enter(r, "save")
       \/ Enter(r, "failing")
    /\ UNCHANGED <<ingestionVars, budget, rows, fileVars, overlap>>

\* Mutant: the artifact is saved at best.
SaveArtifactBestEffort(r) ==
    /\ In(r, "save")
    /\ \/ artifacts' = [artifacts EXCEPT ![r] = run[r].loaded] /\ UNCHANGED budget
       \/ Strike("io") /\ UNCHANGED artifacts
    /\ Enter(r, "open")
    /\ UNCHANGED <<ingestionVars, rows, tmp, latest, text, overlap>>

\* The run's own file, by a temporary file of its own.
SaveArtifact(r) ==
    /\ In(r, "save")
    /\ \/ /\ artifacts' = [artifacts EXCEPT ![r] = run[r].loaded]
          /\ Enter(r, "open")
          /\ UNCHANGED budget
       \/ Raise(r) /\ UNCHANGED artifacts
    /\ UNCHANGED <<ingestionVars, rows, tmp, latest, text, overlap>>

-----------------------------------------------------------------------------
(***************************************************************************)
(* _write_json(latest.json): all runs use one temporary file.              *)
(***************************************************************************)
Writing(q, f) == run[q].fd = f /\ run[q].pc \in {"write", "rename"}

\* Mutant: latest.json itself is opened for writing.
OpenLatest(r) ==
    /\ In(r, "open")
    /\ LET f == IF latest = NoFile THEN r ELSE latest
       IN  /\ latest' = f
           /\ tmp' = f
           /\ text' = [text EXCEPT ![f] = "nothing"]
           /\ run' = [run EXCEPT ![r].pc = "write", ![r].fd = f]
    /\ UNCHANGED <<ingestionVars, budget, rows, artifacts, overlap>>

\* A file that is there is truncated, whoever is writing it.
OpenTemporary(r) ==
    /\ In(r, "open")
    /\ \/ LET f == IF tmp = NoFile THEN r ELSE tmp
          IN  /\ tmp' = f
              /\ text' = [text EXCEPT ![f] = "nothing"]
              /\ run' = [run EXCEPT ![r].pc = "write", ![r].fd = f]
              /\ overlap' = (overlap \/ \E q \in Runs \ {r} : Writing(q, f))
              /\ UNCHANGED budget
       \/ Raise(r) /\ UNCHANGED <<tmp, text, overlap>>
    /\ UNCHANGED <<ingestionVars, rows, artifacts, latest>>

\* Where two runs have written one file, the longer text shows below the shorter.
WriteTemporary(r) ==
    /\ In(r, "write")
    /\ LET f == run[r].fd
       IN  \/ /\ text' \in {[text EXCEPT ![f] = t] :
                               t \in IF text[f] = "nothing" THEN {r} ELSE {r, "mixture"}}
              /\ Enter(r, "rename")
              /\ UNCHANGED budget
           \/ Raise(r) /\ UNCHANGED text
    /\ UNCHANGED <<ingestionVars, rows, artifacts, tmp, latest, overlap>>

\* Another run may have renamed it.
Rename(r) ==
    /\ In(r, "rename")
    /\ \/ tmp # NoFile /\ latest' = tmp /\ tmp' = NoFile /\ Enter(r, "finish") /\ UNCHANGED budget
       \/ tmp = NoFile /\ Enter(r, "failing") /\ UNCHANGED <<tmp, latest, budget>>
       \/ Raise(r) /\ UNCHANGED <<tmp, latest>>
    /\ UNCHANGED <<ingestionVars, rows, artifacts, text, overlap>>

-----------------------------------------------------------------------------
\* finish_strategy_run, within the try block.
Finish(r) ==
    /\ In(r, "finish")
    /\ \/ /\ rows' = [rows EXCEPT ![r] = [status |-> "SUCCEEDED", artifact_path |-> TRUE]]
          /\ Enter(r, "done")
          /\ UNCHANGED budget
       \/ Strike("store") /\ Enter(r, "failing") /\ UNCHANGED rows
    /\ UNCHANGED <<ingestionVars, fileVars, overlap>>

\* Mutant: the handler lets the exception pass.
FailSilently(r) ==
    /\ In(r, "failing")
    /\ Enter(r, "done")
    /\ UNCHANGED <<ingestionVars, budget, rows, fileVars, overlap>>

\* The handler of any exception.
Fail(r) ==
    /\ In(r, "failing")
    /\ \/ rows' = [rows EXCEPT ![r].status = "FAILED"] /\ UNCHANGED budget
       \/ Strike("store") /\ UNCHANGED rows
    /\ Enter(r, "done")
    /\ UNCHANGED <<ingestionVars, fileVars, overlap>>

Crash(r) ==
    /\ run[r].pc \in Open
    /\ Strike("crash")
    /\ Enter(r, "dead")
    /\ UNCHANGED <<ingestionVars, rows, fileVars, overlap>>

_run_resolved(r) ==
    \/ Start(r) \/ LoadBars(r) \/ Simulate(r) \/ SaveArtifact(r)
    \/ OpenTemporary(r) \/ WriteTemporary(r) \/ Rename(r)
    \/ Finish(r) \/ Fail(r)

Next ==
    \/ \E j \in Jobs : Ingest(j) /\ UNCHANGED <<rows, fileVars, run, overlap>>
    \/ \E r \in Runs : _run_resolved(r) \/ Crash(r)

Spec == Init /\ [][Next]_vars

-----------------------------------------------------------------------------
(***************************************************************************)
(* Properties.                                                             *)
(***************************************************************************)
Spared(kinds) == \A f \in kinds : budget[f] = MaxFaults[f]
Status(r, status) == rows[r] # NoRow /\ rows[r].status = status

\* A run that is shown as succeeded can be shown in detail: it has the path of its
\* artifact, the artifact is complete, and it rests on data; and a run that has
\* failed has no path, though it may have an artifact.
SucceededRunsAreKept ==
    \A r \in Runs :
        /\ Status(r, "SUCCEEDED") => /\ rows[r].artifact_path
                                     /\ artifacts[r] \notin {NoFile, {}}
        /\ Status(r, "FAILED") => ~rows[r].artifact_path

\* The result in latest.json is that of a run that has a row and an artifact, in
\* spite of crashes, failures and other runs.
LatestIsStored ==
    latest # NoFile /\ text[latest] \in Runs =>
        rows[text[latest]] # NoRow /\ artifacts[text[latest]] # NoFile

\* A reader of latest.json never meets half a text, at any moment and wherever a
\* run dies, as long as no two runs write the temporary file at once.
LatestReadable == ~overlap /\ latest # NoFile => text[latest] \in Runs

\* However a run ends, by a result, by any exception or by one of its own handler,
\* its row says how, unless its process died or the store did not take the word.
RunsHaveOutcome ==
    \A r \in Runs :
        In(r, "done") /\ Spared({"store"}) =>
            Status(r, "SUCCEEDED") \/ Status(r, "FAILED")
=============================================================================
