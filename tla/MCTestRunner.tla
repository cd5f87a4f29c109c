---------------------------- MODULE MCTestRunner ----------------------------
(* Small instances of TestRunner and LoadGenerator.                        *)
EXTENDS TestRunner

\* Two channels, on two cores or on one, and up to two requests for each; too
\* little memory; no channel at all.
Line(prog, smp, reqs, conc, mem) ==
  [prog |-> prog, smp |-> smp, num_of_req |-> reqs, concurrency |-> conc,
   memory_per_core |-> mem]
Lines ==
  {Line("rpc", 2, 0, 1, 1), Line("rpc", 1, 1, 2, 2), Line("demo", 1, 5, 2, 2),
   Line("demo", 1, 1, 2, 1), Line("demo", 1, 1, 0, 1)}

\* Durations are counted in steps of four.
Durations == {21, 60}
Lows == [v \in Durations |-> v - (v % 4)]

\* The scripts with every test.json, the rpc test and the demo client with theirs.
Json(binary, tmp, times, remove, prefixed) ==
  [binary |-> binary, tmp_home |-> tmp, repeat_times |-> times,
   remove_test_dir |-> remove, prefixed |-> prefixed]
Tests ==
  {Json(b, t, n, r, p) : b \in Scripts, t \in BOOLEAN, n \in {0, 1, 3}, r \in BOOLEAN,
                         p \in BOOLEAN}
  \cup {Json(<<"rpc">>, TRUE, 1, TRUE, FALSE), Json(<<"demo">>, FALSE, 1, TRUE, FALSE)}
=============================================================================
