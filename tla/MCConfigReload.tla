--------------------------- MODULE MCConfigReload ---------------------------
(* Model checking of ConfigReload.  The file holds one of three             *)
(* configurations, which differ in level, sinks and ring, or garbage; the  *)
(* clients send one request of each kind, and two malformed ones.          *)
EXTENDS ConfigReload

Configuration(l, s, n) == [level |-> l, sinks |-> s, ring |-> n]

MCContents ==
  {Configuration("INFO", "a", 1), Configuration("ERROR", "b", 2),
   Configuration("INFO", "bad", 1), Garbage}

Request(m, p, b) ==
  [line_ok |-> TRUE, method |-> m, path_ok |-> TRUE, path |-> p,
   headers |-> "ok", length |-> "ok", body |-> b]

MCRequests ==
  {Request("GET", "/status", ""), Request("POST", "/level", "ERROR"),
   Request("POST", "/level", "LOUD"), Request("POST", "/reload", ""),
   Request("POST", "/metrics/reset", ""), Request("GET", "/metrics", ""),
   [Request("GET", "/status", "") EXCEPT !.line_ok = FALSE]}

=============================================================================
