------------------------------ MODULE TestRunner ------------------------------
(***************************************************************************)
(* src/src/test_runner.py, which runs one test: it reads the test.json     *)
(* beside it, prepares a directory, runs the program, once or several      *)
(* times, and cleans up.  The program is a script of TestPrograms or the   *)
(* rpc test of LoadGenerator; the demo client is started from a shell.     *)
(***************************************************************************)
EXTENDS LoadGenerator, TestPrograms

CONSTANT Test
  \* Tests: records of binary ("rpc", "demo" or a script), tmp_home, repeat_times
  \* (1 without both repeat keys), remove_test_dir (FALSE: the key is there and
  \* false), and prefixed: KTEST_DIR_PREFIX occurs in the working directory's path

ASSUME TestAssumption ==
  /\ \A t \in Test : /\ t.binary \in {<<"rpc">>, <<"demo">>} \cup Scripts
                     /\ t.repeat_times \in Nat
                     /\ {t.tmp_home, t.remove_test_dir, t.prefixed} \subseteq BOOLEAN
                     \* as in its test.json; LoadGenerator is one run of the program
                     /\ t.binary = <<"rpc">> => t.repeat_times = 1
  /\ {"rpc", "demo"} = {a.prog : a \in Args}

VARIABLES
  cfg,      \* the test
  runner,   \* where main() is
  dir,      \* execution_directory: the working directory or the one of mkdtemp
  repeat,   \* the runs still to come after this one
  passed,   \* the runs that returned 0
  removed   \* the directories rmtree removed

runnerVars == <<cfg, runner, dir, repeat, passed, removed>>
allVars == <<vars, testVars, runnerVars>>

IsLoad(t) == t.binary \in {<<"rpc">>, <<"demo">>}

RunnerInit ==
  /\ cfg \in Test
  /\ Init /\ (IF IsLoad(cfg) THEN cfg.binary = <<args.prog>>
                             ELSE args = CHOOSE a \in Args : TRUE)
  /\ TestInit
  /\ runner = (IF cfg.binary = <<"demo">> THEN "wait" ELSE "load")
  /\ dir = "cwd" /\ repeat = 0 /\ passed = 0 /\ removed = {}

-----------------------------------------------------------------------------
(* main().  An exception leaves it from wherever it is.                    *)

\* load_test_configuration: a test.json that cannot be read is an exception.
LoadTestConfiguration ==
  /\ runner = "load"
  /\ runner' \in {"setup", "failed"}
  /\ UNCHANGED <<cfg, dir, repeat, passed, removed, vars, testVars>>

\* set_up_test_environment: mkdtemp and the copying of files may throw.
SetUpTestEnvironment ==
  /\ runner = "setup"
  /\ \/ /\ dir' = IF cfg.tmp_home THEN "tmp" ELSE "cwd"
        /\ runner' = "run"
     \/ dir' = dir /\ runner' = "failed"
  /\ UNCHANGED <<cfg, repeat, passed, removed, vars, testVars>>

\* run_subprocess up to proc.wait(): the directory must exist.
RunSubprocess ==
  /\ runner = "run"
  /\ \/ /\ runner' = "wait"
        /\ IF IsLoad(cfg) THEN UNCHANGED testVars ELSE Started(cfg.binary)
     \/ runner' = "failed" /\ UNCHANGED testVars
  /\ UNCHANGED <<cfg, dir, repeat, passed, removed, vars>>

\* The program runs; its parent waits without a timeout.
ProgramStep ==
  /\ runner = "wait"
  /\ IF IsLoad(cfg) THEN Next /\ UNCHANGED testVars ELSE TestStep /\ UNCHANGED vars
  /\ UNCHANGED runnerVars

Over == IF IsLoad(cfg) THEN main \in {"done", "crashed"}
                       ELSE exit \notin {"none", "running"}
ReturnCode == IF IsLoad(cfg) THEN (IF main = "crashed" THEN 1 ELSE code)
                             ELSE (IF exit = "0" THEN 0 ELSE 1)

\* Mutant: the run that is over counts again.
RemainingOffByOne == IF passed = 0 THEN cfg.repeat_times ELSE repeat

\* repeat = int(cfg["repeat_times"]) - 1, after the first run.
Remaining == IF passed = 0 THEN cfg.repeat_times - 1 ELSE repeat

\* Mutant: the directory is cleaned up in a finally.
WaitedFinally ==
  /\ runner = "wait" /\ Over
  /\ passed' = IF ReturnCode = 0 THEN passed + 1 ELSE passed
  /\ runner' = IF ReturnCode # 0 \/ Remaining <= 0 THEN "clean" ELSE "run"
  /\ repeat' = Remaining - 1
  /\ UNCHANGED <<cfg, dir, removed, vars, testVars>>

\* proc.wait() returned: a code other than 0 is an exception, else execute() goes on.
\* The demo client has no runner.
Waited ==
  /\ runner = "wait" /\ Over
  /\ \/ /\ cfg.binary = <<"demo">>
        /\ runner' = "exited" /\ passed' = passed /\ repeat' = repeat
     \/ /\ cfg.binary # <<"demo">> /\ ReturnCode # 0
        /\ runner' = "failed" /\ passed' = passed /\ repeat' = repeat
     \/ /\ cfg.binary # <<"demo">> /\ ReturnCode = 0
        /\ passed' = passed + 1
        /\ runner' = IF Remaining > 0 THEN "run" ELSE "clean"
        /\ repeat' = Remaining - 1
  /\ UNCHANGED <<cfg, dir, removed, vars, testVars>>

\* clean_test_resources.
CleanTestResources ==
  /\ runner = "clean"
  /\ \/ /\ (dir = "tmp" \/ cfg.prefixed) /\ cfg.remove_test_dir
        /\ \/ removed' = {dir} /\ runner' = "passed"
           \/ removed' = removed /\ runner' = "failed"
     \/ /\ ~((dir = "tmp" \/ cfg.prefixed) /\ cfg.remove_test_dir)
        /\ removed' = removed /\ runner' = "passed"
  /\ UNCHANGED <<cfg, dir, repeat, passed, vars, testVars>>

RunnerNext ==
  \/ LoadTestConfiguration \/ SetUpTestEnvironment \/ RunSubprocess \/ ProgramStep
  \/ Waited \/ CleanTestResources

(* The runner goes on when the program is over; the programs as in           *)
(* LoadGenerator: the reactor runs what is ready, and what a program waits   *)
(* for comes or fails.                                                       *)
RunnerSpec == RunnerInit /\ [][RunnerNext]_allVars /\ WF_allVars(RunnerNext)

-----------------------------------------------------------------------------
(* Properties.                                                             *)

\* The tests that fail when what they expect does not happen.  Of the others
\* send_timeout and reconnect_with_timeout take it for the failure they expect,
\* rpc_backpressure and recv_timeout do not look, and histograms swallows what
\* app.run() throws.
Strict == {Hystrix, MultipleRemoteAddrs}

\* A test passes only if its program ran as often as test.json says, and its last
\* run left no client unstopped; only of the strict tests does it follow that what
\* they expect happened.
PassedMeansRun ==
  runner = "passed" =>
    /\ passed = IF cfg.repeat_times > 1 THEN cfg.repeat_times ELSE 1
    /\ client \in {"none", "stopped"}
    /\ script \in Strict => ~missed

\* What a run left is removed only when no run failed, so the logs and histograms
\* of a failed test can be looked at; what is removed is the test's own directory
\* unless the working directory happens to have the prefix in its path.
EvidenceKept ==
  removed # {} => /\ ReturnCode = 0
                  /\ removed = {"tmp"} \/ cfg.prefixed

\* The runner, which waits for its program without a timeout, comes to an end: no
\* fiber of the program waits for ever.
RunnerEnds == <>(runner \in {"passed", "failed", "exited"})

-----------------------------------------------------------------------------
(* What the code does not give.                                            *)

\* A test passes only if what it expects happened.
ExpectationsCount == runner = "passed" => ~missed

\* Only a directory the runner made is removed.
RemovesItsOwn == removed \subseteq {"tmp"}
=============================================================================
