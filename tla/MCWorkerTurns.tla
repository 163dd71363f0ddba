--------------------------- MODULE MCWorkerTurns ---------------------------
(***************************************************************************)
(* WorkerTurns with three turns, one research request in budget, and a      *)
(* scope of one of two hosts with one of its two pages open to extraction.  *)
(***************************************************************************)
EXTENDS WorkerTurns

MCHost == [u \in {"page", "other", "outside"} |-> IF u = "outside" THEN "far" ELSE "near"]
MCScope == [domains |-> {"near"}, urls |-> {"page"}, maxResults |-> 2]
MCGranted == {"research", "read", "command", "status"}
Search(domains, results, safe, relevant) ==
  [kind |-> "search", domains |-> domains, maxResults |-> results, safe |-> safe,
   relevant |-> relevant]
Extract(url) == [kind |-> "extract", url |-> url]
MCRequests ==
  {Search({"near"}, 2, TRUE, TRUE), Search({"near", "far"}, 2, TRUE, TRUE),
   Search({"near"}, 3, TRUE, TRUE), Search({"near"}, 1, FALSE, TRUE),
   Search({"near"}, 1, TRUE, FALSE), Extract("page"), Extract("outside")}
=============================================================================
