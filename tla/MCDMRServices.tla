--------------------------- MODULE MCDMRServices ---------------------------
(***************************************************************************)
(* Model checking of DMRServices: the configurations of the runs.          *)
(***************************************************************************)
EXTENDS DMRServices

Config(l, b, q, i) == [LRRPEnabled |-> l, BMSEnabled |-> b, BMSQueries |-> q,
                       ignoreUnregistered |-> i]

\* locations only, batteries only with and without queries, both services
MCConfigurations ==
  {Config(TRUE, FALSE, FALSE, FALSE), Config(FALSE, TRUE, TRUE, FALSE),
   Config(FALSE, TRUE, FALSE, TRUE), Config(TRUE, TRUE, FALSE, TRUE)}
=============================================================================
