----------------------------- MODULE MCEndpoints -----------------------------
(* Endpoints with two endpoints, either of which may redirect to the other; the *)
(* feed lists one of them, so the other is one the user typed in.               *)
EXTENDS Endpoints

CONSTANTS a, b

Read(chain, late, height, latency) ==
    [reachable |-> TRUE, chain |-> chain, late |-> late, height |-> height, latency |-> latency]

\* Fast, not so fast, behind the chain, on another chain, silent.
MCReadings ==
    {Read("ours", FALSE, 100, 300), Read("ours", FALSE, 95, 600),
     Read("ours", TRUE, 95, 200), Read("other", FALSE, 100, 100), Lost}
MCFeed == [e \in {a, b} |-> IF e = a THEN "unlisted" ELSE "healthy"]

=============================================================================
