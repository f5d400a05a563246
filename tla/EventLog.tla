------------------------------- MODULE EventLog -------------------------------
(***************************************************************************)
(* What JournalStateStore promises of one workflow's events: a log that    *)
(* only grows, one event at a time, whoever dies in between; and what a    *)
(* caller was told is durable stays in it.  log is what opening the        *)
(* workflow would replay.                                                  *)
(***************************************************************************)
EXTENDS Naturals, Sequences

CONSTANTS MaxEvents   \* bound of the model on the events of a workflow

VARIABLES
    log,    \* the events a replay returns
    acked   \* the events some append has returned for

logVars == <<log, acked>>

Init ==
    /\ log = <<1>>
    /\ acked = {1}

Record ==
    \E e \in 1..MaxEvents :
        /\ \A i \in 1..Len(log) : log[i] # e
        /\ log' = Append(log, e)
        /\ UNCHANGED acked

Acknowledge ==
    /\ \E i \in 1..Len(log) : acked' = acked \cup {log[i]}
    /\ UNCHANGED log

Next == Record \/ Acknowledge

Spec == Init /\ [][Next]_logVars

=============================================================================
