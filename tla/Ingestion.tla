------------------------------- MODULE Ingestion -------------------------------
(***************************************************************************)
(* The ingestion of daily candles (data_ingestion/upbit.py, archive.py,     *)
(* normalization/upbit.py) into a dataset of the research store             *)
(* (research_store/store.py).  Jobs may run at the same time: the command   *)
(* line and the API's worker threads share the files.  One action is the    *)
(* code between two file operations.  The module has no Next: BacktestRuns  *)
(* composes it with the readers of the dataset.                             *)
(***************************************************************************)
EXTENDS Naturals, Sequences, FiniteSets

CONSTANTS
    Jobs,          \* calls of ingest_upbit_daily_bars for one dataset
    Markets,
    Stamps,        \* the seconds in which a job can start: the names of its files
    Calls,         \* what a job may be: a market, a second, the exchange's answer
    MaxFaults,     \* MaxFaults[f]: how often fault f may strike
    NoFile, Torn

\* A candle: its market, its day, and whether it passes the checks of
\* _normalize_record ("sound"), is refused by them, or holds a price that is not
\* a number, which raises.
Candle == [market : Markets, day : Nat, form : {"sound", "refused", "unreadable"}]
FaultKinds == {"crash", "io", "store"}

\* The dataset: the job whose bars it holds, all of them or not yet.
Dataset == [job : Jobs, whole : BOOLEAN]

ASSUME IngestionAssumption ==
    /\ Calls \subseteq [market : Markets, stamp : Stamps, payload : Seq(Candle)]
    /\ MaxFaults \in [FaultKinds -> Nat]
    /\ NoFile \notin Jobs /\ Torn \notin Jobs /\ Torn # NoFile /\ NoFile \notin Dataset

VARIABLES
    bars,          \* the dataset's bars.parquet
    raw, reports, quarantine,   \* the artifacts of the jobs, by stamp
    job,           \* the jobs: where they are, and their calls
    budget         \* the faults that may still strike

artifactVars == <<raw, reports, quarantine>>
ingestionVars == <<bars, artifactVars, job>>

File == Jobs \cup {NoFile, Torn}
Ended == {"ok", "crossed", "refused", "failed", "lost"}

IngestionTypeOK ==
    /\ bars \in Dataset \cup {NoFile}
    /\ \A dir \in {raw, reports, quarantine} : dir \in [Stamps -> File]
    /\ job \in [Jobs -> [pc : {"new", "raw", "report", "quarantine", "write", "unlink", "copy",
                               "copying"} \cup Ended, call : Calls]]
    /\ budget \in [FaultKinds -> Nat]

IngestionInit ==
    /\ bars = NoFile
    /\ raw = [s \in Stamps |-> NoFile]
    /\ reports = [s \in Stamps |-> NoFile]
    /\ quarantine = [s \in Stamps |-> NoFile]
    /\ job \in [Jobs -> [pc : {"new"}, call : Calls]]
    /\ budget = MaxFaults

Strike(f) == budget[f] > 0 /\ budget' = [budget EXCEPT ![f] = @ - 1]
At(j, label) == job[j].pc = label
Goto(j, label) == job' = [job EXCEPT ![j].pc = label]

-----------------------------------------------------------------------------
(***************************************************************************)
(* normalize_upbit_daily_payload.                                          *)
(***************************************************************************)

\* The market is checked before the prices are read.
Raises(p, market) == \E k \in DOMAIN p : p[k].market = market /\ p[k].form = "unreadable"
IsBar(candle, market) == candle.market = market /\ candle.form = "sound"

\* Mutant: a second candle of a day is let through.
IssuesButDuplicates(p, market) == {k \in DOMAIN p : ~IsBar(p[k], market)}

\* The records that go to quarantine; the others become bars.
Issues(p, market) ==
    {k \in DOMAIN p : \/ ~IsBar(p[k], market)
                      \/ \E i \in 1 .. k - 1 : IsBar(p[i], market) /\ p[i].day = p[k].day}

Payload(j) == job[j].call.payload
Market(j) == job[j].call.market
Stamp(j) == job[j].call.stamp
IssuesOf(j) == Issues(Payload(j), Market(j))

-----------------------------------------------------------------------------
(***************************************************************************)
(* ingest_upbit_daily_bars.  A job that fails at a file, or whose process   *)
(* dies there, may leave half of the file behind.                           *)
(***************************************************************************)
Saved(dir, j) == [dir EXCEPT ![Stamp(j)] = j]
Broken(dir, j) == {dir, [dir EXCEPT ![Stamp(j)] = Torn]}
Breaks == \E f \in {"crash", "io"} : Strike(f)

\* The answer has arrived; a fetch that raises leaves nothing behind.
Fetch(j) ==
    /\ At(j, "new")
    /\ Goto(j, "raw")
    /\ UNCHANGED <<bars, artifactVars, budget>>

AfterRaw(j) ==
    IF Payload(j) = <<>> \/ Raises(Payload(j), Market(j)) THEN "failed" ELSE "report"

\* Mutants: the dataset is cleared as soon as there is an answer; the archive is
\* written at best.
SaveRawClearing(j) ==
    /\ At(j, "raw")
    /\ raw' = Saved(raw, j)
    /\ Goto(j, AfterRaw(j))
    /\ bars' = NoFile
    /\ UNCHANGED <<reports, quarantine, budget>>
SaveRawBestEffort(j) ==
    /\ At(j, "raw")
    /\ \/ raw' = Saved(raw, j) /\ UNCHANGED budget
       \/ raw' \in Broken(raw, j) /\ Breaks
    /\ Goto(j, AfterRaw(j))
    /\ UNCHANGED <<bars, reports, quarantine>>

SaveRaw(j) ==
    /\ At(j, "raw")
    /\ \/ raw' = Saved(raw, j) /\ Goto(j, AfterRaw(j)) /\ UNCHANGED budget
       \/ raw' \in Broken(raw, j) /\ Goto(j, "failed") /\ Breaks
    /\ UNCHANGED <<bars, reports, quarantine>>

SaveReport(j) ==
    /\ At(j, "report")
    /\ \/ /\ reports' = Saved(reports, j)
          /\ Goto(j, IF IssuesOf(j) = {} THEN "write" ELSE "quarantine")
          /\ UNCHANGED budget
       \/ reports' \in Broken(reports, j) /\ Goto(j, "failed") /\ Breaks
    /\ UNCHANGED <<bars, raw, quarantine>>

SaveQuarantine(j) ==
    /\ At(j, "quarantine")
    /\ \/ quarantine' = Saved(quarantine, j) /\ Goto(j, "refused") /\ UNCHANGED budget
       \/ quarantine' \in Broken(quarantine, j) /\ Goto(j, "failed") /\ Breaks
    /\ UNCHANGED <<bars, raw, reports>>

-----------------------------------------------------------------------------
(***************************************************************************)
(* ResearchStore.write_bars.                                               *)
(***************************************************************************)
FindOld(j) ==
    /\ At(j, "write")
    /\ Goto(j, IF bars = NoFile THEN "copy" ELSE "unlink")
    /\ UNCHANGED <<bars, artifactVars, budget>>

\* The file may be gone since it was looked for.
UnlinkOld(j) ==
    /\ At(j, "unlink")
    /\ \/ bars # NoFile /\ bars' = NoFile /\ Goto(j, "copy") /\ UNCHANGED budget
       \/ bars = NoFile /\ Goto(j, "failed") /\ UNCHANGED <<bars, budget>>
       \/ Breaks /\ Goto(j, "failed") /\ UNCHANGED bars
    /\ UNCHANGED artifactVars

\* The database is opened, the bars are put into a temporary table, the copy
\* starts.  DuckDB may write beside a file that is there already.
StartCopy(j) ==
    /\ At(j, "copy")
    /\ \/ /\ bars' \in {[job |-> j, whole |-> FALSE]} \cup ({bars} \ {NoFile})
          /\ Goto(j, "copying")
          /\ UNCHANGED budget
       \/ Breaks /\ Goto(j, "lost") /\ UNCHANGED bars
    /\ UNCHANGED artifactVars

\* Two copies that cross may leave either, or neither.
FinishCopy(j) ==
    /\ At(j, "copying")
    /\ LET mine == bars = [job |-> j, whole |-> FALSE]
       IN  \/ mine /\ bars' = [bars EXCEPT !.whole = TRUE] /\ Goto(j, "ok") /\ UNCHANGED budget
           \/ /\ ~mine
              /\ bars' \in {bars} \cup [job : {j}, whole : BOOLEAN]
              /\ Goto(j, "crossed")
              /\ UNCHANGED budget
           \/ /\ Breaks
              /\ bars' \in IF mine THEN {bars, NoFile} ELSE {bars}
              /\ Goto(j, "lost")
    /\ UNCHANGED artifactVars

Ingest(j) ==
    \/ Fetch(j) \/ SaveRaw(j) \/ SaveReport(j) \/ SaveQuarantine(j)
    \/ FindOld(j) \/ UnlinkOld(j) \/ StartCopy(j) \/ FinishCopy(j)

-----------------------------------------------------------------------------
(***************************************************************************)
(* Properties.                                                             *)
(***************************************************************************)
SameSecond(j) == \E i \in Jobs \ {j} : Stamp(i) = Stamp(j) /\ job[i].pc # "new"

\* Whatever the dataset holds, even in part, comes from an answer that is archived
\* as it came, and of which every candle is a bar: sound, of the market asked for
\* and the only one of its day.  Jobs of the same second share one archive file.
DatasetArchived ==
    bars # NoFile =>
        LET j == bars.job
            p == Payload(j)
        IN  /\ raw[Stamp(j)] = j \/ SameSecond(j)
            /\ \A k \in DOMAIN p : IsBar(p[k], Market(j))
            /\ \A i, k \in DOMAIN p : p[i].day = p[k].day => i = k

\* A dataset that was written once is there whenever no job is at work, whatever
\* answers were refused and at whichever file a later job failed, unless it failed
\* after it removed the old one, or two of them wrote at once.
JobsEnded == \A j \in Jobs : job[j].pc \in Ended \cup {"new"}
Whole == bars # NoFile /\ bars.whole
DatasetKept ==
    /\ JobsEnded
    /\ \E j \in Jobs : At(j, "ok")
    /\ \A j \in Jobs : job[j].pc \notin {"lost", "crossed"}
    => Whole

-----------------------------------------------------------------------------
\* What the design document says and the code does not keep: a failure never costs
\* the last good data.
LastGoodDataKept == JobsEnded /\ (\E j \in Jobs : At(j, "ok")) => Whole
=============================================================================
