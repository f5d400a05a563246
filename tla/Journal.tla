------------------------------- MODULE Journal -------------------------------
(***************************************************************************)
(* Below Store: how JournalStateStore (orchestrator_agent/store.py) keeps  *)
(* a workflow's events in events.jsonl and snapshot.json, between the      *)
(* processes that open them.  A scheduler loads the files, takes the       *)
(* runtime lock and appends; status and watch commands only load.          *)
(*                                                                         *)
(* An event is a number, fresh for every append, and the state it leads to *)
(* is the sequence of the events applied.  A line of the journal is whole, *)
(* or torn where its writing was cut, or garbled where a later line was    *)
(* appended to a torn one.                                                 *)
(***************************************************************************)
EXTENDS Integers, Sequences

CONSTANTS
    Scheduler,   \* processes that run the workflow
    Reader,      \* processes that only load it
    MaxEvents,   \* bound of the model on appends
    MaxCrashes,  \* bound of the model on crashes
    MaxTorn      \* bound of the model on writes cut in the middle of a line

ASSUME JournalAssumption ==
    /\ Scheduler \cap Reader = {}
    /\ MaxEvents \in Nat \ {0} /\ MaxCrashes \in Nat /\ MaxTorn \in Nat

VARIABLES
    lines,     \* events.jsonl
    snapshot,  \* snapshot.json
    holder,    \* processes that hold the flock on runtime.lock
    phase,     \* where each process is
    mem,       \* _state of each process
    issued,    \* events made so far
    acked,     \* events whose append returned to its caller
    crashes, torn

vars == <<lines, snapshot, holder, phase, mem, issued, acked, crashes, torn>>
files == <<lines, snapshot>>
counters == <<issued, acked, crashes, torn>>

Process == Scheduler \cup Reader
Line(n, e, form) == [seq |-> n, event |-> e, form |-> form]
State(n, events) == [seq |-> n, events |-> events]
Empty == State(0, <<>>)

Init ==
    /\ lines = <<Line(1, 1, "whole")>>
    /\ snapshot = State(1, <<1>>)
    /\ holder = {}
    /\ phase = [p \in Process |-> "out"]
    /\ mem = [p \in Process |-> Empty]
    /\ issued = 1 /\ acked = {1} /\ crashes = 0 /\ torn = 0

-----------------------------------------------------------------------------
(* _load: the events after a snapshot are applied to it, provided that the   *)
(* whole journal parses, its numbers increase, and they go on from the       *)
(* snapshot without a gap.  Only a torn last line is passed over.            *)

\* a mutant, for CutLineIsSurvived: a torn last line is damage as well
ParsesStrictly == \A i \in DOMAIN lines : lines[i].form = "whole"
Parses ==
    \A i \in DOMAIN lines :
        lines[i].form = "whole" \/ (lines[i].form = "torn" /\ i = Len(lines))

\* the lines it reads, once they parse, and the number of the last one
Readable == IF lines[Len(lines)].form = "torn" THEN Len(lines) - 1 ELSE Len(lines)
LastSeen == IF Readable = 0 THEN 0 ELSE lines[Readable].seq

Larger(m, n) == IF m > n THEN m ELSE n

Increasing ==
    \A i, j \in DOMAIN lines :
        i < j /\ lines[j].form = "whole" => lines[i].seq < lines[j].seq
Contiguous(from) ==
    \A i \in 1..Readable :
        lines[i].seq > from.seq =>
            lines[i].seq = 1 + IF i = 1 THEN from.seq ELSE Larger(from.seq, lines[i - 1].seq)

\* a mutant, for LoadIsExact: lines the snapshot covers are not looked at
LoadableAfter(from) == Parses /\ Contiguous(from)
Loadable(from) == Parses /\ Increasing /\ Contiguous(from)

\* how many of the lines are later than a snapshot
Later(from) == Larger(from.seq, LastSeen) - from.seq

\* a mutant, for JournalIsALog: the replay starts one event late
ReplayLate(from) ==
    LET n == Later(from)
    IN State(from.seq + n,
             from.events \o [i \in 1..(IF n = 0 THEN 0 ELSE n - 1)
                                |-> lines[Readable - n + 1 + i].event])
Replay(from) ==
    LET n == Later(from)
    IN State(from.seq + n,
             from.events \o [i \in 1..n |-> lines[Readable - n + i].event])

-----------------------------------------------------------------------------
(* Loading takes two reads, and no lock.                                     *)

At(p, where) == phase[p] = where
Goes(p, where) == phase' = [phase EXCEPT ![p] = where]

ReadSnapshot(p) ==
    /\ At(p, "out") /\ Goes(p, "reading")
    /\ mem' = [mem EXCEPT ![p] = snapshot]
    /\ UNCHANGED <<files, holder, counters>>

\* a mutant, for HolderIsCurrent: what the journal has beyond the snapshot is
\* not applied
ReadJournalNot(p) ==
    /\ At(p, "reading") /\ Loadable(mem[p])
    /\ Goes(p, "loaded")
    /\ UNCHANGED <<files, holder, mem, counters>>
ReadJournal(p) ==
    /\ At(p, "reading") /\ Loadable(mem[p])
    /\ Goes(p, "loaded")
    /\ mem' = [mem EXCEPT ![p] = Replay(mem[p])]
    /\ UNCHANGED <<files, holder, counters>>

(* CorruptJournalError leaves __init__ *)
LoadRefused(p) ==
    /\ At(p, "reading") /\ ~Loadable(mem[p])
    /\ Goes(p, "refused")
    /\ UNCHANGED <<files, holder, mem, counters>>

Leave(p) ==
    /\ phase[p] \in {"refused", "busy", "holding"} \/ (p \in Reader /\ At(p, "loaded"))
    /\ Goes(p, "out")
    /\ holder' = holder \ {p}
    /\ mem' = [mem EXCEPT ![p] = Empty]
    /\ UNCHANGED <<files, counters>>

(* acquire: flock without waiting; the loser raises StateError *)
Acquire(p) ==
    /\ p \in Scheduler /\ At(p, "loaded")
    /\ IF holder = {} THEN holder' = {p} /\ Goes(p, "holding")
       ELSE UNCHANGED holder /\ Goes(p, "busy")
    /\ UNCHANGED <<files, mem, counters>>

-----------------------------------------------------------------------------
(* _append_event_locked                                                      *)

(* the journal with a line, or the beginning of one, added at its end; a     *)
(* torn last line has no newline, so the two become one line                 *)
Added(line) ==
    IF lines[Len(lines)].form = "torn"
    THEN [lines EXCEPT ![Len(lines)].form = "garbled"]
    ELSE Append(lines, line)

BeginWrite(p) ==
    /\ At(p, "holding") /\ issued < MaxEvents
    /\ Goes(p, "writing")
    /\ issued' = issued + 1
    /\ lines' = Added(Line(mem[p].seq + 1, issued', "torn"))
    /\ UNCHANGED <<snapshot, holder, mem, acked, crashes, torn>>

EndWrite(p) ==
    /\ At(p, "writing") /\ Goes(p, "written")
    /\ lines' = IF lines[Len(lines)].form = "torn"
                THEN [lines EXCEPT ![Len(lines)].form = "whole"] ELSE lines
    /\ UNCHANGED <<snapshot, holder, mem, counters>>

(* write or flush raises, on a full disk: the process goes on *)
WriteFails(p) ==
    /\ At(p, "writing") /\ torn < MaxTorn
    /\ torn' = torn + 1
    /\ Goes(p, "holding")
    /\ UNCHANGED <<files, holder, mem, issued, acked, crashes>>

(* after the fsync the candidate becomes the state, then the snapshot *)
Publish(p) ==
    /\ At(p, "written") /\ Goes(p, "published")
    /\ mem' = [mem EXCEPT ![p] = State(@.seq + 1, Append(@.events, issued))]
    /\ UNCHANGED <<files, holder, counters>>

SaveSnapshot(p) ==
    /\ At(p, "published") /\ Goes(p, "holding")
    /\ snapshot' = mem[p]
    /\ acked' = acked \cup {issued}
    /\ UNCHANGED <<lines, holder, mem, issued, crashes, torn>>

(* a process dies; the kernel drops its lock *)
Crash(p) ==
    /\ phase[p] # "out" /\ crashes < MaxCrashes
    /\ crashes' = crashes + 1
    /\ IF At(p, "writing") THEN torn < MaxTorn /\ torn' = torn + 1 ELSE UNCHANGED torn
    /\ Goes(p, "out")
    /\ holder' = holder \ {p}
    /\ mem' = [mem EXCEPT ![p] = Empty]
    /\ UNCHANGED <<files, issued, acked>>

Step(p) ==
    \/ ReadSnapshot(p) \/ ReadJournal(p) \/ LoadRefused(p) \/ Acquire(p) \/ Leave(p)
    \/ BeginWrite(p) \/ EndWrite(p) \/ WriteFails(p) \/ Publish(p) \/ SaveSnapshot(p)
    \/ Crash(p)

Next == \E p \in Process : Step(p)

Spec == Init /\ [][Next]_vars

-----------------------------------------------------------------------------
(* Properties *)

(* The shape of the files and of the processes' memory. *)
TypeOK ==
    /\ \A i \in DOMAIN lines :
          /\ lines[i].seq \in 1..MaxEvents /\ lines[i].event \in 1..issued
          /\ lines[i].form \in {"whole", "torn", "garbled"}
    /\ snapshot.seq \in 1..MaxEvents
    /\ holder \subseteq Scheduler
    /\ phase \in [Process -> {"out", "reading", "loaded", "refused", "busy",
                              "holding", "writing", "written", "published"}]
    /\ issued \in 1..MaxEvents /\ acked \subseteq 1..issued
    /\ crashes \in 0..MaxCrashes /\ torn \in 0..MaxTorn

(* As long as the workflow can be opened, the process that holds the lock has *)
(* in memory, between appends, what opening it would replay, so that it       *)
(* decides on the whole history, a line cut by an earlier crash or by its own *)
(* failed write included (acquire, _load, _append_event_locked).              *)
HolderIsCurrent ==
    \A p \in holder : phase[p] = "holding" /\ Loadable(snapshot) => mem[p] = Replay(snapshot)

(* Whatever a crash, a torn line or a second scheduler did to the files, a   *)
(* load that succeeds returns every event of the journal, once and in its    *)
(* order, and nothing else: damage is refused, never replayed (_load).       *)
ExactLoads ==
    \A p \in Process : phase[p] = "reading" /\ phase'[p] = "loaded" =>
        /\ {i \in DOMAIN lines : lines[i].form = "whole"} = DOMAIN mem'[p].events
        /\ \A i \in DOMAIN mem'[p].events : mem'[p].events[i] = lines[i].event
LoadIsExact == [][ExactLoads]_vars

(* As long as the workflow can be opened, opening it gives a log that only   *)
(* grows, by one event at a time, and keeps every event whose append         *)
(* returned, whatever crashes and cut lines lie in between                   *)
(* (_append_event_locked, _load).                                            *)
L == INSTANCE EventLog WITH log <- Replay(snapshot).events, acked <- acked
JournalIsALog == L!Init /\ [][Loadable(snapshot)' => L!Next]_(L!logVars)

(* docs/plans/2026-07-13-budget-aware-orchestrator.md:238 ignores an          *)
(* incomplete final line after a crash, and it does not matter at which of    *)
(* the writes a crash, or a reader, comes: no load is refused - until a       *)
(* scheduler has appended to the cut line itself, as the store does, which    *)
(* only looks past that line and never cuts it off (_load,                    *)
(* _append_event_locked).                                                     *)
Glued == \E i \in DOMAIN lines : lines[i].form = "garbled"
CutLineIsSurvived == \A p \in Process : phase[p] = "refused" => Glued

=============================================================================
