-------------------------- MODULE ExperimentRunner --------------------------
(***************************************************************************)
(* scripts/run_paired_vs_lse.sh on one result directory, and the rounds    *)
(* that scripts/summarize_paired_vs_lse.py gives its rows.  The script may *)
(* be killed between any two of its writes, and be started again.          *)
(***************************************************************************)
EXTENDS Integers, Sequences, FiniteSets

CONSTANTS
  Sizes,                \* VLSE_COMPARE_SIZES, a sequence
  Rounds,               \* VLSE_COMPARE_ROUNDS
  QuiescenceEnabled,    \* VLSE_REQUIRE_QUIESCENCE = 1
  QuiescenceSamples,    \* VLSE_QUIESCENCE_SAMPLES
  PollSeconds,          \* VLSE_QUIESCENCE_POLL_SECONDS
  TimeoutSeconds,       \* VLSE_QUIESCENCE_TIMEOUT_SECONDS
  MaxInvocations        \* bound: how often the script is started

\* A size listed twice would name its logs twice, and a wait that sleeps for
\* no time at all would never time out.
ASSUME SettingsAssumption ==
  /\ Sizes \in Seq(Nat \ {0})
  /\ \A i, j \in DOMAIN Sizes : Sizes[i] = Sizes[j] => i = j
  /\ Len(Sizes) > 0
  /\ Rounds \in Nat \ {0}
  /\ QuiescenceEnabled \in BOOLEAN
  /\ QuiescenceSamples \in Nat
  /\ PollSeconds \in Nat \ {0}
  /\ TimeoutSeconds \in Nat
  /\ MaxInvocations \in Nat

PerSize == 2 * Rounds

\* The script's loops: in odd rounds LSE goes first, in even ones VLSE.
Plan ==
  [i \in 1 .. Len(Sizes) * PerSize |->
     LET round == ((i - 1) % PerSize) \div 2 + 1
         first == (i - 1) % 2 = 0
     IN [scheme |-> IF first <=> round % 2 = 1 THEN "LSE" ELSE "VLSE",
         n |-> Sizes[(i - 1) \div PerSize + 1],
         round |-> round]]

VARIABLES
  pc,          \* "shell" when no script runs, else what comes next
  invocation,  \* how often the script was started
  nonempty,    \* whether there is anything in the result directory
  current,     \* the run of the plan it is at
  good,        \* wait_for_quiescence: quiet samples in a row
  elapsed,     \*   seconds slept
  observed,    \* history: the last samples of this wait, TRUE for a quiet one
  progress,    \* progress.tsv: <<run, "START" or "DONE">>
  manifest,    \* run_manifest.tsv
  logs,        \* logs/: the runs that have a file, with its RESULT lines
  raw,         \* raw_results.txt
  rounds,      \* raw_results.csv: the round of each row
  status       \* exit status of the last script, -1 before there is one

files == <<nonempty, progress, manifest, logs, raw, rounds>>
wait == <<good, elapsed, observed>>
vars == <<pc, invocation, current, wait, files, status>>

Init ==
  /\ pc = "shell"
  /\ invocation = 0
  /\ nonempty = FALSE
  /\ current = 1
  /\ good = 0 /\ elapsed = 0 /\ observed = <<>>
  /\ progress = <<>> /\ manifest = <<>> /\ raw = <<>> /\ rounds = <<>>
  /\ logs = {}
  /\ status = -1

Exit(code) == pc' = "shell" /\ status' = code

-----------------------------------------------------------------------------

Invoke ==
  /\ pc = "shell"
  /\ invocation < MaxInvocations
  /\ invocation' = invocation + 1

\* The script will not mix its results with those of another experiment.
Refuse ==
  /\ Invoke
  /\ nonempty
  /\ status' = 2
  /\ UNCHANGED <<pc, current, wait, files>>

\* Mutant: whatever is in the directory stays there.
BeginAnyway ==
  /\ Invoke
  /\ nonempty' = TRUE
  /\ pc' = "build"
  /\ UNCHANGED <<current, wait, progress, manifest, logs, raw, rounds, status>>

\* mkdir logs: from here on the directory is not empty.
Begin ==
  /\ Invoke
  /\ ~nonempty
  /\ nonempty' = TRUE
  /\ pc' = "build"
  /\ UNCHANGED <<current, wait, progress, manifest, logs, raw, rounds, status>>

StartWait == good' = 0 /\ elapsed' = 0 /\ observed' = <<>>

\* Configured, built and tested: the files are truncated, the loops begin.
Built ==
  /\ pc = "build"
  /\ pc' = "wait"
  /\ current' = 1
  /\ StartWait
  /\ progress' = <<>> /\ manifest' = <<>> /\ raw' = <<>>
  /\ UNCHANGED <<invocation, nonempty, logs, rounds, status>>

BuildFails ==
  /\ pc = "build"
  /\ Exit(1)
  /\ UNCHANGED <<invocation, current, wait, files>>

\* Mutant: a busy sample does not start the count anew.
CountedKeeping(quiet) == IF quiet THEN good + 1 ELSE good

Counted(quiet) == IF quiet THEN good + 1 ELSE 0

\* Mutant: the time slept is not added up.
SleptOnce == PollSeconds

Slept == elapsed + PollSeconds

\* As many samples as are to be quiet are remembered.
Observe(quiet) ==
  LET all == Append(observed, quiet)
  IN observed' = IF Len(all) <= QuiescenceSamples THEN all ELSE Tail(all)

Waiting == pc = "wait" /\ QuiescenceEnabled /\ good < QuiescenceSamples

\* A sample completes the count, or there is time left to sleep.
Sample(quiet) ==
  /\ Waiting
  /\ good' = Counted(quiet)
  /\ Observe(quiet)
  /\ \/ good' >= QuiescenceSamples /\ UNCHANGED elapsed
     \/ good' < QuiescenceSamples /\ elapsed < TimeoutSeconds /\ elapsed' = Slept
  /\ UNCHANGED <<pc, invocation, current, files, status>>

\* A sample does not complete the count and no time is left.
GiveUp(quiet) ==
  /\ Waiting
  /\ Counted(quiet) < QuiescenceSamples
  /\ elapsed >= TimeoutSeconds
  /\ Observe(quiet)
  /\ Exit(5)
  /\ UNCHANGED <<invocation, current, good, elapsed, files>>

Start ==
  /\ pc = "wait"
  /\ ~Waiting
  /\ progress' = Append(progress, <<Plan[current], "START">>)
  /\ pc' = "manifest"
  /\ UNCHANGED <<invocation, current, wait, nonempty, manifest, logs, raw,
                 rounds, status>>

WriteManifest ==
  /\ pc = "manifest"
  /\ manifest' = Append(manifest, Plan[current])
  /\ pc' = "benchmark"
  /\ UNCHANGED <<invocation, current, wait, nonempty, progress, logs, raw,
                 rounds, status>>

\* tee leaves a log of the run with so many RESULT lines.
Log(results) ==
  logs' = {l \in logs : l.run # Plan[current]}
            \cup {[run |-> Plan[current], results |-> results]}

\* The benchmark succeeds with some number of RESULT lines.
Benchmark(results) ==
  /\ pc = "benchmark"
  /\ Log(results)
  /\ pc' = "append"
  /\ UNCHANGED <<invocation, current, wait, nonempty, progress, manifest, raw,
                 rounds, status>>

\* The benchmark, or the filter of its output, fails: pipefail and set -e end
\* the script.
BenchmarkFails(results) ==
  /\ pc = "benchmark"
  /\ Log(results)
  /\ Exit(1)
  /\ UNCHANGED <<invocation, current, wait, nonempty, progress, manifest, raw,
                 rounds>>

Results == (CHOOSE l \in logs : l.run = Plan[current]).results

\* Mutant: a log without a RESULT line is passed over.
BadLogSkipped ==
  /\ pc = "append"
  /\ Results # 1
  /\ pc' = "done"
  /\ UNCHANGED <<invocation, current, wait, files, status>>

BadLog ==
  /\ pc = "append"
  /\ Results # 1
  /\ Exit(3)
  /\ UNCHANGED <<invocation, current, wait, files>>

AppendRow ==
  /\ pc = "append"
  /\ Results = 1
  /\ raw' = Append(raw, Plan[current])
  /\ pc' = "done"
  /\ UNCHANGED <<invocation, current, wait, nonempty, progress, manifest, logs,
                 rounds, status>>

Done ==
  /\ pc = "done"
  /\ progress' = Append(progress, <<Plan[current], "DONE">>)
  /\ current' = current + 1
  /\ StartWait
  /\ pc' = IF current < Len(Plan) THEN "wait" ELSE "count"
  /\ UNCHANGED <<invocation, nonempty, manifest, logs, raw, rounds, status>>

\* The summarizer runs only if the rows are as many as expected.
Count ==
  /\ pc = "count"
  /\ IF Len(raw) = Len(Sizes) * Rounds * 2
     THEN pc' = "summarize" /\ UNCHANGED status
     ELSE Exit(4)
  /\ UNCHANGED <<invocation, current, wait, files>>

\* Mutant: one counter per protocol.
SummaryKeyOfProtocol(row) == row.scheme

\* What the summarizer counts rounds by.
SummaryKey(row) == <<row.scheme, row.n>>

Summarize ==
  /\ pc = "summarize"
  /\ rounds' = [i \in DOMAIN raw |->
       Cardinality({j \in 1 .. i : SummaryKey(raw[j]) = SummaryKey(raw[i])})]
  /\ Exit(0)
  /\ UNCHANGED <<invocation, current, wait, nonempty, progress, manifest, logs,
                 raw>>

\* validate_row or the check for one parameter profile rejects the rows: the
\* summarizer ends before it writes any.
SummarizeFails ==
  /\ pc = "summarize"
  /\ Exit(1)
  /\ UNCHANGED <<invocation, current, wait, files>>

\* What a benchmark that is killed leaves of its log, BenchmarkFails leaves.
Killed ==
  /\ pc # "shell"
  /\ Exit(137)
  /\ UNCHANGED <<invocation, current, wait, files>>

\* What the script does by itself, once started.
Step ==
  \/ Built
  \/ BuildFails
  \/ \E quiet \in BOOLEAN : Sample(quiet) \/ GiveUp(quiet)
  \/ Start
  \/ WriteManifest
  \/ \E results \in 0 .. 2 : Benchmark(results) \/ BenchmarkFails(results)
  \/ BadLog
  \/ AppendRow
  \/ Done
  \/ Count
  \/ Summarize
  \/ SummarizeFails

Next == Refuse \/ Begin \/ Step \/ Killed

Spec == Init /\ [][Next]_vars /\ WF_vars(Step)

-----------------------------------------------------------------------------
(* What is promised.                                                       *)

\* Wherever the script is killed, and however often it is started, the files
\* tell one experiment: rows are the runs of the manifest, in its order, each
\* from a log with one RESULT; no log belongs to a run the manifest does not
\* name; progress is at most one line ahead.  When the script ends well every
\* size has been run in every round by both schemes, and the summarizer, which
\* is not told the rounds (lines 177-182), has numbered them as they were.
FilesAgree ==
  /\ raw = SubSeq(manifest, 1, Len(raw))
  /\ Len(manifest) - Len(raw) \in {0, 1}
  /\ \A i \in DOMAIN raw : [run |-> raw[i], results |-> 1] \in logs
  /\ \A l \in logs : \E i \in DOMAIN manifest : manifest[i] = l.run
  /\ Cardinality(logs) - Len(raw) \in {0, 1}
  /\ LET Lines(what) == Cardinality({i \in DOMAIN progress : progress[i][2] = what})
     IN /\ Lines("START") - Len(manifest) \in {0, 1}
        /\ Len(raw) - Lines("DONE") \in {0, 1}
  /\ rounds # <<>> =>
       /\ \A i \in DOMAIN raw : rounds[i] = raw[i].round
       /\ {raw[i] : i \in DOMAIN raw} =
            [scheme : {"LSE", "VLSE"}, n : {Sizes[i] : i \in DOMAIN Sizes},
             round : 1 .. Rounds]

LastQuiet ==
  Len(observed) = QuiescenceSamples /\ \A i \in DOMAIN observed : observed[i]

\* "It waits for background CPU activity to settle before each measurement"
\* (README.md:112): a run is begun, or given up, according to whether the host
\* was quiet in the last samples, all of them, and a sample that settles the
\* count at the moment the time is up still counts.
QuietWhenMeasured ==
  QuiescenceEnabled =>
    /\ pc \in {"manifest", "benchmark", "append", "done"} => LastQuiet
    /\ status = 5 => ~LastQuiet

\* A script once started ends, on a host that never settles too.
Ends == pc # "shell" ~> pc = "shell"
=============================================================================
