------------------------------- MODULE MCServe -------------------------------
\* Two requests, which is what it takes for one to be waited for, or cut off,
\* while the other is done.
EXTENDS Serve, TLC

CONSTANTS r1, r2

MCRequests == {r1, r2}

Http == [stdio |-> FALSE, key |-> TRUE, mcp |-> TRUE, backends |-> {"smtp", "graph"}]

\* All there is to start; no MCP and no Graph; no key; stdio.
MCConfigs == {Http,
              [Http EXCEPT !.mcp = FALSE, !.backends = {"smtp"}],
              [Http EXCEPT !.key = FALSE],
              [Http EXCEPT !.stdio = TRUE, !.key = FALSE]}

Ask(v, b, k, d) == [route |-> [via |-> v, to |-> b], key |-> k, body |-> d]

\* A request for each way to send, and one for each reason to be refused; and
\* one to be in its way.
Anything == {Ask("rest", "smtp", "right", "good"), Ask("rest", "graph", "right", "good"),
        Ask("mcp", "smtp", "right", "good"), Ask("mcp", "graph", "none", "good"),
        Ask("rest", "smtp", "wrong", "good"), Ask("rest", "ews", "right", "good"),
        Ask("rest", "graph", "right", "garbled"), Ask("rest", "smtp", "right", "invalid")}

MCAsks == r1 :> Anything @@ r2 :> {Ask("rest", "graph", "right", "good")}
==============================================================================
