------------------------ MODULE MCRequestPipeline ------------------------
(* A small instance of RequestPipeline: two threads, the requests that make *)
(* a hook or a view behave differently.                                     *)
EXTENDS RequestPipeline, TLC

Asked(route) == [route |-> route, body |-> "none", options |-> FALSE, token |-> FALSE]

MCRequest ==
    {Asked(r) : r \in {"health", "readyz", "metrics/", "app", "app.js", "api"}}
        \cup {[Asked("api") EXCEPT !.options = TRUE],
              [Asked("api") EXCEPT !.body = "null", !.token = TRUE],
              [Asked("api") EXCEPT !.body = "malformed", !.token = TRUE],
              [Asked("unrouted") EXCEPT !.token = TRUE], Asked("metrics")}

MCAssets == {"app.js", "index.html"}
MCPages == {"app"}
Symmetry == Permutations(Thread)
============================================================================
