--------------------------- MODULE MCApplications ---------------------------
EXTENDS Applications

MCBpc(kind, initial, nchildren, maxdepth, bouncing) ==
  [prog |-> "bpc", kind |-> kind, initial |-> initial, nchildren |-> nchildren,
   maxdepth |-> maxdepth, bouncing |-> bouncing]

MCUts(kind, type, strict, inplace) ==
  [prog |-> "uts", kind |-> kind, strict |-> strict, inplace |-> inplace,
   type |-> type, b_0 |-> 2, nonLeafBF |-> 2, gen_mx |-> 2, maxChildren |-> 2,
   shift |-> 1, tree |-> <<>>]

MCMad(kind, dims, initial, max, test_eval) ==
  [prog |-> "mad3d", kind |-> kind, dims |-> dims, initial_level |-> initial,
   max_level |-> max, test_eval |-> test_eval, fine |-> {}]

\* Each program on each queue; each way to build UTS, each of its tree types; Madness
\* in parallel with one dimension, and in one process with up to three.
MCApps ==
  {MCBpc("SAWS", 2, 1, 1, TRUE), MCBpc("SDC", 1, 2, 2, TRUE), MCBpc("SDC", 1, 1, 2, FALSE),
   MCBpc("SAWS", 1, 2, 2, FALSE),
   MCUts("SAWS", "GEO", TRUE, FALSE), MCUts("SDC", "GEO", FALSE, FALSE),
   MCUts("SDC", "GEO", FALSE, TRUE), MCUts("SDC", "BIN", TRUE, FALSE),
   MCUts("SAWS", "HYBRID", FALSE, TRUE), MCUts("SAWS", "BALANCED", FALSE, FALSE),
   MCMad("SDC", 1, 1, 1, FALSE), MCMad("SAWS", 1, 0, 1, FALSE),
   MCMad("SAWS", 1, 0, 2, TRUE), MCMad("SAWS", 2, 1, 1, TRUE), MCMad("SDC", 3, 0, 0, TRUE),
   [prog |-> "tasks", kind |-> "SAWS", tasks |-> 3],
   [prog |-> "tasks", kind |-> "SDC", tasks |-> 2]}
=============================================================================
