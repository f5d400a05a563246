------------------------------ MODULE RuntimeMC ------------------------------
(* Small workflows for TLC: the nodes of each, and the requests submitted.  *)
EXTENDS RuntimeProps, TLC

CONSTANTS a, b, c, d, f, g, h, k, e1, e2

Plain ==
    [kind |-> "agent", reserve |-> 2, max_attempts |-> 1, retry_on |-> {},
     escalate_on |-> {}, terra |-> FALSE, writer |-> FALSE, cached |-> FALSE,
     hooked |-> FALSE, faulty |-> FALSE, on_true |-> {}, on_false |-> {},
     children |-> {}, reduce |-> {}, source |-> a, allow_partial |-> FALSE,
     iterations |-> <<>>]
Twice == [Plain EXCEPT !.max_attempts = 2]
Retrying == [Twice EXCEPT !.retry_on = Fingerprint]
AllPlain == [t \in Task |-> Plain]
AllThrice == [t \in Task |-> [Plain EXCEPT !.max_attempts = 3]]
\* one agent that is tried again, beside one that is not
RestartNodes == (a :> Retrying) @@ (b :> Plain)

NoDeps == [t \in Task |-> {}]
Pair == (a :> {}) @@ (b :> {a})
Chain == (a :> {}) @@ (b :> {a}) @@ (c :> {b}) @@ (d :> {c})

\* a luna agent that may escalate and a condition on its result, with a check
\* and another such agent on its branches, beside a terra agent and a repeated
\* agent after it, for one terra slot; every attempt that fails fails alike
Luna == [Plain EXCEPT !.max_attempts = 3, !.retry_on = {e1}, !.escalate_on = {e1}]
Kinds == (a :> {}) @@ (b :> {a}) @@ (c :> {b}) @@ (d :> {b}) @@ (f :> {}) @@ (g :> {f})
KindNodes ==
    (a :> [Luna EXCEPT !.writer = TRUE])
        @@ (b :> [Plain EXCEPT !.kind = "condition", !.on_true = {c}, !.on_false = {d}])
        @@ (c :> [Luna EXCEPT !.cached = TRUE])
        @@ (d :> [Plain EXCEPT !.kind = "check", !.faulty = TRUE])
        @@ (f :> [Plain EXCEPT !.terra = TRUE, !.hooked = TRUE])
        @@ (g :> [Plain EXCEPT !.kind = "repeat_until", !.iterations = <<h, k>>])
        @@ (h :> [Plain EXCEPT !.reserve = 3]) @@ (k :> Plain)

\* a map b over the result of a, that adds c, and its reducer d
FanOut == (a :> {}) @@ (b :> {a}) @@ (d :> {b})
FanOutNodes ==
    (a :> Plain)
        @@ (b :> [Plain EXCEPT !.kind = "map", !.faulty = TRUE,
                               !.children = {c}, !.reduce = {d}])
        @@ (c :> Retrying)
        @@ (d :> [Plain EXCEPT !.kind = "reduce", !.source = b,
                               !.faulty = TRUE])

\* an agent that waits for an approval
GateNodes == (a :> [Plain EXCEPT !.kind = "approval"]) @@ (b :> Twice)

Ask(n, type, t) == [id |-> n, type |-> type, task |-> t, stop_active |-> TRUE]
Pause == Ask(1, "pause", a)
Unpause == Ask(2, "resume", a)
Stop == Ask(3, "cancel", a)
RetryA == Ask(5, "retry", a)
RetryB == Ask(6, "retry", b)
Approve == Ask(7, "approve", a)
Refuse == Ask(8, "reject", a)

NoRequests == {}
Controls == {Pause, Unpause, Stop, RetryB, Approve, Refuse}
Retries == {RetryA}

=============================================================================
