---------------------------- MODULE JournalProofs ----------------------------
(***************************************************************************)
(* Proofs about the files of the store (module Journal), for any number of *)
(* processes, events, crashes and torn writes: a load that succeeds is     *)
(* exact.  With one scheduler, a cut line is survived until it is appended *)
(* to, and as long as the files can be opened the process that holds the   *)
(* lock is up to date, and they are a log.                                 *)
(***************************************************************************)
EXTENDS Journal, TLAPS

Forms == {"whole", "torn", "garbled"}
LineType == [seq : Nat \ {0}, event : Nat, form : Forms]
StateType == [seq : Nat, events : Seq(Nat)]
Phases == {"out", "reading", "loaded", "refused", "busy", "holding", "writing", "written",
           "published"}
Appending == {"holding", "writing", "written", "published"}

ShapeInv ==
    /\ lines \in Seq(LineType) /\ lines # <<>>
    /\ snapshot \in StateType /\ mem \in [Process -> StateType]
    /\ phase \in [Process -> Phases]
    /\ issued \in Nat \ {0} /\ torn \in Nat

(* who appends has the lock, and has it alone *)
LockInv ==
    /\ \A p \in Process : phase[p] \in Appending <=> p \in holder
    /\ holder \subseteq Scheduler
    /\ \A p, q \in holder : p = q

LEMMA LinesShape ==
    ASSUME ShapeInv
    PROVE  /\ Len(lines) \in Nat \ {0} /\ DOMAIN lines = 1..Len(lines)
           /\ Len(lines) \in 1..Len(lines)
           /\ \A i \in 1..Len(lines) :
                 lines[i].seq \in Nat \ {0} /\ lines[i].event \in Nat /\ lines[i].form \in Forms
           /\ lines[Len(lines)].form = "torn" => Readable = Len(lines) - 1
           /\ lines[Len(lines)].form # "torn" => Readable = Len(lines)
           /\ Readable \in Nat /\ Readable <= Len(lines)
<1>1. lines \in Seq(LineType) /\ lines # <<>>
  BY DEF ShapeInv
<1>2. Len(lines) \in Nat \ {0} /\ DOMAIN lines = 1..Len(lines)
  BY <1>1
<1>3. \A i \in 1..Len(lines) : lines[i] \in LineType
  BY <1>1, <1>2
<1>4. Len(lines) \in 1..Len(lines)
  BY <1>2
<1>5. /\ lines[Len(lines)].form = "torn" => Readable = Len(lines) - 1
      /\ lines[Len(lines)].form # "torn" => Readable = Len(lines)
  BY DEF Readable
<1>6. Readable \in Nat /\ Readable <= Len(lines)
  BY <1>2, <1>5
<1>7. \A i \in 1..Len(lines) :
         lines[i].seq \in Nat \ {0} /\ lines[i].event \in Nat /\ lines[i].form \in Forms
  BY <1>3 DEF LineType
<1>8. QED
  BY <1>2, <1>4, <1>5, <1>6, <1>7

LEMMA Appended ==
    ASSUME NEW s \in Seq(Nat), NEW t \in Seq(Nat)
    PROVE  /\ s \o t \in Seq(Nat) /\ Len(s \o t) = Len(s) + Len(t)
           /\ \A i \in 1..Len(s) : (s \o t)[i] = s[i]
           /\ \A i \in 1..Len(t) : (s \o t)[Len(s) + i] = t[i]
OBVIOUS

LEMMA SeqOf ==
    ASSUME NEW s \in Seq(Nat), NEW N \in Nat, Len(s) = N,
           NEW f, f = [i \in 1..N |-> f[i]], \A i \in 1..N : s[i] = f[i]
    PROVE  s = f
<1>1. s = [i \in 1..N |-> s[i]]
  OBVIOUS
<1>2. QED
  BY <1>1

LEMMA ReplayShape ==
    ASSUME ShapeInv, NEW from \in StateType, Later(from) <= Readable
    PROVE  /\ Later(from) \in Nat
           /\ Replay(from) \in StateType
           /\ Replay(from).seq = from.seq + Later(from)
           /\ Len(Replay(from).events) = Len(from.events) + Later(from)
           /\ \A i \in 1..Len(from.events) : Replay(from).events[i] = from.events[i]
           /\ \A i \in 1..Later(from) :
                 Replay(from).events[Len(from.events) + i]
                   = lines[Readable - Later(from) + i].event
<1> DEFINE n == Later(from)
           rest == [i \in 1..n |-> lines[Readable - n + i].event]
<1>1. Readable \in Nat /\ LastSeen \in Nat
  BY LinesShape DEF LastSeen
<1>2. n \in Nat /\ from.seq \in Nat /\ from.events \in Seq(Nat)
  BY <1>1 DEF Later, Larger, StateType
<1>3. Replay(from) = State(from.seq + n, from.events \o rest)
  BY DEF Replay
<1> HIDE DEF n
<1>4. \A i \in 1..n : Readable - n + i \in 1..Len(lines)
  <2>1. n <= Readable /\ Readable <= Len(lines) /\ Len(lines) \in Nat
    BY LinesShape DEF n
  <2>2. QED
    BY <1>1, <1>2, <2>1
<1>5. rest \in Seq(Nat) /\ Len(rest) = n /\ \A i \in 1..n : rest[i] = lines[Readable - n + i].event
  <2>1. \A i \in 1..n : lines[Readable - n + i].event \in Nat
    BY <1>4, LinesShape
  <2>2. QED
    BY <1>2, <2>1
<1> HIDE DEF rest
<1>6. Replay(from).seq = from.seq + n /\ Replay(from).events = from.events \o rest
  BY <1>3 DEF State
<1>7. Replay(from) \in StateType
  BY <1>2, <1>3, <1>5, Appended DEF State, StateType
<1>8. /\ Len(Replay(from).events) = Len(from.events) + n
      /\ \A i \in 1..Len(from.events) : Replay(from).events[i] = from.events[i]
      /\ \A i \in 1..n : Replay(from).events[Len(from.events) + i] = rest[i]
  <2> DEFINE old == from.events
             new == Replay(from).events
  <2>1. old \in Seq(Nat) /\ rest \in Seq(Nat) /\ Len(rest) = n /\ new = old \o rest
    BY <1>2, <1>5, <1>6
  <2> HIDE DEF old, new
  <2>2. /\ Len(new) = Len(old) + n
        /\ \A i \in 1..Len(old) : new[i] = old[i]
        /\ \A i \in 1..n : new[Len(old) + i] = rest[i]
    BY <2>1, Appended
  <2>3. QED
    BY <2>2 DEF old, new
<1>9. \A i \in 1..n : Replay(from).events[Len(from.events) + i] = lines[Readable - n + i].event
  BY <1>5, <1>8
<1>10. QED
  BY <1>2, <1>6, <1>7, <1>8, <1>9 DEF n

\* a line, and the last line as it was completed or appended to
LEMMA LastLine ==
    ASSUME ShapeInv, NEW form \in Forms, lines' = [lines EXCEPT ![Len(lines)].form = form]
    PROVE  /\ lines' \in Seq(LineType) /\ lines' # <<>> /\ Len(lines') = Len(lines)
           /\ lines'[Len(lines)].form = form
           /\ \A i \in 1..Len(lines) :
                 /\ lines'[i].seq = lines[i].seq /\ lines'[i].event = lines[i].event
                 /\ lines'[i].form = IF i = Len(lines) THEN form ELSE lines[i].form
<1>1. lines \in Seq(LineType) /\ Len(lines) \in Nat \ {0} /\ DOMAIN lines = 1..Len(lines)
  BY LinesShape DEF ShapeInv
<1>2. \A i \in 1..Len(lines) : lines[i] \in LineType
  BY <1>1
<1>3. lines' = [i \in 1..Len(lines) |->
                  IF i = Len(lines) THEN [lines[i] EXCEPT !.form = form] ELSE lines[i]]
  BY <1>1
<1>4. \A i \in 1..Len(lines) : lines'[i] \in LineType
  BY <1>2, <1>3 DEF LineType
<1>5. lines' \in Seq(LineType) /\ Len(lines') = Len(lines)
  BY <1>1, <1>3, <1>4
<1>6. ASSUME NEW i \in 1..Len(lines)
      PROVE  /\ lines'[i].seq = lines[i].seq /\ lines'[i].event = lines[i].event
             /\ lines'[i].form = IF i = Len(lines) THEN form ELSE lines[i].form
  BY <1>2, <1>3 DEF LineType
<1>7. lines'[Len(lines)].form = form
  BY <1>6, LinesShape
<1>8. QED
  BY <1>1, <1>5, <1>6, <1>7

LEMMA ShapeInit ==
    ASSUME Init
    PROVE  ShapeInv /\ LockInv
BY DEF Init, ShapeInv, LockInv, LineType, StateType, Forms, Phases, Line, State, Empty,
       Appending

LEMMA LockStep ==
    ASSUME ShapeInv, LockInv, [Next]_vars
    PROVE  LockInv'
<1> USE DEF ShapeInv, LockInv, At, Goes, Appending, Phases
<1>1. CASE UNCHANGED vars
  BY <1>1 DEF vars
<1>2. ASSUME NEW p \in Process, Step(p)
      PROVE  LockInv'
  <2>1. CASE ReadSnapshot(p) \/ ReadJournal(p) \/ LoadRefused(p)
    BY <2>1 DEF ReadSnapshot, ReadJournal, LoadRefused
  <2>2. CASE BeginWrite(p) \/ EndWrite(p) \/ WriteFails(p) \/ Publish(p) \/ SaveSnapshot(p)
    BY <2>2 DEF BeginWrite, EndWrite, WriteFails, Publish, SaveSnapshot
  <2>3. CASE Acquire(p)
    BY <2>3 DEF Acquire
  <2>4. CASE Leave(p) \/ Crash(p)
    BY <2>4 DEF Leave, Crash
  <2>5. QED
    BY <1>2, <2>1, <2>2, <2>3, <2>4 DEF Step
<1>3. QED
  BY <1>1, <1>2 DEF Next

LEMMA ShapeStep ==
    ASSUME ShapeInv, LockInv, [Next]_vars,
           \A p \in Process : Loadable(mem[p]) => Later(mem[p]) <= Readable
    PROVE  ShapeInv'
<1> USE DEF ShapeInv, At, Goes, Phases
<1>1. CASE UNCHANGED vars
  BY <1>1 DEF vars
<1>2. ASSUME NEW p \in Process, Step(p)
      PROVE  ShapeInv'
  <2>1. CASE ReadSnapshot(p) \/ LoadRefused(p) \/ Acquire(p) \/ WriteFails(p) \/ SaveSnapshot(p)
    BY <2>1 DEF ReadSnapshot, LoadRefused, Acquire, WriteFails, SaveSnapshot, files, counters
  <2>2. CASE ReadJournal(p)
    BY <2>2, ReplayShape DEF ReadJournal, files, counters
  <2>3. CASE Leave(p) \/ Crash(p)
    <3>1. Empty \in StateType
      BY DEF Empty, State, StateType
    <3>2. /\ mem' = [mem EXCEPT ![p] = Empty] /\ phase' = [phase EXCEPT ![p] = "out"]
          /\ UNCHANGED <<lines, snapshot, issued>> /\ torn' \in Nat
      BY <2>3 DEF Leave, Crash, files, counters
    <3>3. QED
      BY <3>1, <3>2
  <2>4. CASE BeginWrite(p)
    <3>1. Line(mem[p].seq + 1, issued', "torn") \in LineType
      BY <2>4 DEF BeginWrite, Line, LineType, StateType, Forms
    <3>2. lines' \in Seq(LineType) /\ lines' # <<>>
      BY <2>4, <3>1, LastLine DEF BeginWrite, Added, Forms
    <3>3. QED
      BY <2>4, <3>2 DEF BeginWrite
  <2>5. CASE EndWrite(p)
    <3>1. lines' \in Seq(LineType) /\ lines' # <<>>
      BY <2>5, LastLine DEF EndWrite, Forms
    <3>2. QED
      BY <2>5, <3>1 DEF EndWrite, counters
  <2>6. CASE Publish(p)
    <3>1. State(mem[p].seq + 1, Append(mem[p].events, issued)) \in StateType
      BY DEF State, StateType
    <3>2. QED
      BY <2>6, <3>1 DEF Publish, files, counters
  <2>7. QED
    BY <1>2, <2>1, <2>2, <2>3, <2>4, <2>5, <2>6 DEF Step
<1>3. QED
  BY <1>1, <1>2 DEF Next

-----------------------------------------------------------------------------
(* A load is exact.  As long as the journal parses and its numbers increase, *)
(* its lines are numbered from 1 on, the snapshot and what any process has   *)
(* in memory are the states after some of its first lines, and a write that  *)
(* is not over yet is the last of them.  Once a line is garbled, or written  *)
(* by a process that was not up to date, no load succeeds any more.          *)
Intact == Parses /\ Increasing

Prefix(s) ==
    /\ s.seq <= Readable /\ Len(s.events) = s.seq
    /\ \A i \in 1..s.seq : s.events[i] = lines[i].event

Written(p) ==
    /\ phase[p] = "writing" =>
          /\ lines[Len(lines)].form = "torn"
          /\ lines[Len(lines)].seq = mem[p].seq + 1 /\ lines[Len(lines)].event = issued
    /\ phase[p] = "written" =>
          /\ lines[Len(lines)].form = "whole"
          /\ Len(lines) = mem[p].seq + 1 /\ lines[Len(lines)].event = issued
    /\ phase[p] = "published" =>
          /\ lines[Len(lines)].form = "whole"
          /\ Len(lines) = mem[p].seq /\ lines[Len(lines)].event = issued

ExactInv ==
    Intact =>
        /\ \A i \in 1..Readable : lines[i].seq = i
        /\ Prefix(snapshot)
        /\ \A p \in Process : Prefix(mem[p]) /\ Written(p)

LEMMA IntactLines ==
    ASSUME ShapeInv, Parses
    PROVE  /\ \A i \in 1..Readable : lines[i].form = "whole"
           /\ Readable = Len(lines) <=> lines[Len(lines)].form = "whole"
           /\ {i \in DOMAIN lines : lines[i].form = "whole"} = 1..Readable
<1>1. \A i \in 1..Len(lines) : lines[i].form = "whole" \/ (lines[i].form = "torn" /\ i = Len(lines))
  BY LinesShape DEF Parses
<1>2. \A i \in 1..Readable : i \in 1..Len(lines) /\ (i = Len(lines) => lines[i].form # "torn")
  <2>1. Len(lines) \in Nat /\ Readable \in Nat /\ Readable <= Len(lines)
    BY LinesShape
  <2>2. lines[Len(lines)].form = "torn" => Readable < Len(lines)
    BY <2>1, LinesShape
  <2>3. QED
    BY <2>1, <2>2
<1>3. \A i \in 1..Len(lines) : lines[i].form = "whole" => i \in 1..Readable
  BY LinesShape
<1>4. \A i \in 1..Readable : lines[i].form = "whole"
  BY <1>1, <1>2
<1>5. Readable = Len(lines) <=> lines[Len(lines)].form = "whole"
  <2>1. lines[Len(lines)].form \in {"whole", "torn"}
    BY <1>1, LinesShape
  <2>2. QED
    BY <2>1, LinesShape
<1>6. {i \in DOMAIN lines : lines[i].form = "whole"} = 1..Readable
  BY <1>2, <1>3, <1>4, LinesShape
<1>7. QED
  BY <1>4, <1>5, <1>6

\* what is replayed over such a state is the rest of the journal
LEMMA ReplayIsAll ==
    ASSUME ShapeInv, \A i \in 1..Readable : lines[i].seq = i,
           NEW s \in StateType, Prefix(s)
    PROVE  /\ Later(s) <= Readable
           /\ Replay(s) \in StateType /\ Replay(s).seq = Readable
           /\ Replay(s).events = [i \in 1..Readable |-> lines[i].event]
           /\ Prefix(Replay(s))
<1>1. s.seq \in Nat /\ s.seq <= Readable /\ Len(s.events) = s.seq /\ Readable \in Nat
  BY LinesShape DEF StateType, Prefix
<1>2. LastSeen = Readable
  BY LinesShape DEF LastSeen
<1>3. Later(s) = Readable - s.seq
  BY <1>1, <1>2 DEF Later, Larger
<1>4. Later(s) <= Readable
  BY <1>1, <1>3
<1>5. /\ Replay(s) \in StateType /\ Replay(s).seq = Readable
      /\ Len(Replay(s).events) = Readable
      /\ \A i \in 1..s.seq : Replay(s).events[i] = lines[i].event
  <2>1. /\ Replay(s) \in StateType /\ Replay(s).seq = s.seq + Later(s)
        /\ Len(Replay(s).events) = Len(s.events) + Later(s)
        /\ \A i \in 1..Len(s.events) : Replay(s).events[i] = s.events[i]
    BY <1>4, ReplayShape
  <2>2. \A i \in 1..s.seq : s.events[i] = lines[i].event
    BY DEF Prefix
  <2>3. s.seq + Later(s) = Readable
    BY <1>1, <1>3
  <2>4. QED
    BY <1>1, <2>1, <2>2, <2>3
<1>6. \A i \in 1..Later(s) : Replay(s).events[s.seq + i] = lines[s.seq + i].event
  <2>1. \A i \in 1..Later(s) :
           Replay(s).events[Len(s.events) + i] = lines[Readable - Later(s) + i].event
    BY <1>4, ReplayShape
  <2>2. Readable - Later(s) = s.seq
    BY <1>1, <1>3
  <2>3. QED
    BY <1>1, <2>1, <2>2
<1>7. ASSUME NEW i \in 1..Readable, i > s.seq
      PROVE  Replay(s).events[i] = lines[i].event
  <2>1. i - s.seq \in 1..Later(s) /\ s.seq + (i - s.seq) = i
    BY <1>1, <1>3, <1>7
  <2>2. QED
    BY <1>6, <2>1
<1>8. \A i \in 1..Readable : Replay(s).events[i] = lines[i].event
  BY <1>1, <1>5, <1>7
<1>9. Replay(s).events \in Seq(Nat)
  BY <1>5 DEF StateType
<1>10. Replay(s).events = [i \in 1..Readable |-> lines[i].event]
  BY SMTT(60), <1>1, <1>5, <1>8, <1>9
<1>11. Prefix(Replay(s))
  BY <1>1, <1>5, <1>8 DEF Prefix
<1>12. QED
  BY <1>4, <1>5, <1>10, <1>11

LEMMA ExactInit ==
    ASSUME Init
    PROVE  ExactInv
BY DEF Init, ExactInv, Prefix, Written, Readable, Line, State, Empty

\* a write begins: another torn line, or the end of an intact journal
LEMMA WriteBegins ==
    ASSUME ShapeInv, LockInv, ExactInv, NEW p \in Process, BeginWrite(p), Intact'
    PROVE  /\ Intact /\ Readable' = Readable /\ Readable = Len(lines)
           /\ \A i \in 1..Readable : lines'[i] = lines[i]
           /\ Written(p)'
<1>1. lines[Len(lines)].form # "torn"
  <2> SUFFICES ASSUME lines[Len(lines)].form = "torn"
               PROVE  FALSE
    OBVIOUS
  <2>1. lines' = [lines EXCEPT ![Len(lines)].form = "garbled"]
    BY DEF BeginWrite, Added
  <2>2. Len(lines') = Len(lines) /\ Len(lines) \in DOMAIN lines' /\ lines'[Len(lines)].form = "garbled"
    BY <2>1, LastLine, LinesShape DEF Forms
  <2>3. QED
    BY <2>2 DEF Intact, Parses
<1> DEFINE line == Line(mem[p].seq + 1, issued', "torn")
<1>2. lines' = Append(lines, line) /\ lines \in Seq(LineType) /\ Len(lines) \in Nat \ {0}
  BY <1>1, LinesShape DEF BeginWrite, Added, ShapeInv
<1>3. /\ Len(lines') = Len(lines) + 1 /\ lines'[Len(lines) + 1] = line
      /\ \A i \in 1..Len(lines) : lines'[i] = lines[i]
      /\ DOMAIN lines' = 1..(Len(lines) + 1) /\ DOMAIN lines = 1..Len(lines)
  BY <1>2
<1> HIDE DEF line
<1>4. line.form = "torn" /\ line.seq = mem[p].seq + 1 /\ line.event = issued'
  BY DEF line, Line
<1>5. Readable' = Len(lines) /\ Readable = Len(lines)
  BY <1>1, <1>2, <1>3, <1>4 DEF Readable
<1>6. Parses
  BY <1>1, <1>2, <1>3 DEF Intact, Parses
<1>7. Increasing
  BY <1>2, <1>3 DEF Intact, Increasing
<1>8. phase'[p] = "writing" /\ mem'[p] = mem[p]
  BY DEF BeginWrite, Goes, ShapeInv
<1>9. Written(p)'
  BY <1>3, <1>4, <1>8 DEF Written
<1>10. QED
  BY <1>3, <1>5, <1>6, <1>7, <1>9 DEF Intact

\* a write ends: only the one line that was torn changes, and it has its number
LEMMA WriteEnds ==
    ASSUME ShapeInv, LockInv, ExactInv, NEW p \in Process, EndWrite(p), Intact'
    PROVE  /\ Intact /\ Readable' = Len(lines) /\ Readable = Len(lines) - 1
           /\ \A i \in 1..Len(lines) : lines'[i].seq = i /\ lines'[i].event = lines[i].event
           /\ Written(p)'
<1>1. lines[Len(lines)].form = "torn"
  <2> SUFFICES ASSUME lines[Len(lines)].form # "torn"
               PROVE  FALSE
    OBVIOUS
  <2>1. lines' = lines /\ phase[p] = "writing"
    BY DEF EndWrite, At
  <2>2. QED
    BY <2>1 DEF ExactInv, Intact, Parses, Increasing, Written
<1>2. lines' = [lines EXCEPT ![Len(lines)].form = "whole"]
  BY <1>1 DEF EndWrite
<1>3. /\ Len(lines') = Len(lines) /\ Len(lines) \in Nat \ {0}
      /\ Len(lines) \in 1..Len(lines) /\ lines'[Len(lines)].form = "whole"
      /\ DOMAIN lines' = 1..Len(lines) /\ DOMAIN lines = 1..Len(lines)
      /\ \A i \in 1..Len(lines) :
            /\ lines'[i].seq = lines[i].seq /\ lines'[i].event = lines[i].event
            /\ lines'[i].form = IF i = Len(lines) THEN "whole" ELSE lines[i].form
  BY <1>2, LastLine, LinesShape DEF Forms
<1>4. Parses
  BY <1>1, <1>3 DEF Intact, Parses
<1>5. Increasing
  <2> SUFFICES ASSUME NEW i \in 1..Len(lines), NEW j \in 1..Len(lines), i < j,
                      lines[j].form = "whole"
               PROVE  lines[i].seq < lines[j].seq
    BY <1>3 DEF Increasing
  <2>1. lines'[j].form = "whole"
    BY <1>3
  <2>2. lines'[i].seq < lines'[j].seq
    BY <1>3, <2>1 DEF Intact, Increasing
  <2>3. QED
    BY <1>3, <2>2
<1>6. Readable = Len(lines) - 1 /\ Readable' = Len(lines)
  <2>1. lines'[Len(lines')].form = "whole"
    BY <1>3
  <2>2. QED
    BY <1>1, <1>3, <2>1 DEF Readable
<1>7. /\ \A i \in 1..Readable : lines[i].seq = i
      /\ Prefix(mem[p]) /\ Written(p) /\ phase[p] = "writing" /\ mem[p].seq \in Nat
  BY <1>4, <1>5 DEF ExactInv, Intact, EndWrite, At, ShapeInv, StateType
<1>8. lines[Len(lines)].seq = mem[p].seq + 1 /\ lines[Len(lines)].event = issued /\ mem[p].seq <= Readable
  BY <1>7 DEF Written, Prefix
<1>9. lines[Len(lines)].seq = Len(lines)
  <2>0. Len(lines) \in Nat \ {0} /\ mem[p].seq \in Nat /\ mem[p].seq <= Readable
    BY <1>7, <1>8, LinesShape
  <2>1. CASE Readable = 0
    BY <1>6, <1>8, <2>0, <2>1
  <2>2. CASE Readable # 0
    <3>1. Readable \in 1..Len(lines) /\ Readable < Len(lines) /\ Readable \in 1..Readable
      BY <1>6, <2>0, <2>2
    <3>2. lines'[Readable].seq < lines'[Len(lines)].seq
      BY <1>3, <3>1 DEF Intact, Increasing
    <3>3. Readable < mem[p].seq + 1
      BY <1>3, <1>7, <1>8, <3>1, <3>2
    <3>4. QED
      BY <1>6, <1>8, <2>0, <3>3
  <2>3. QED
    BY <2>1, <2>2
<1>10. \A i \in 1..Len(lines) : lines'[i].seq = i
  <2> SUFFICES ASSUME NEW i \in 1..Len(lines)
               PROVE  lines[i].seq = i
    BY <1>3
  <2>1. CASE i = Len(lines)
    BY <1>9, <2>1
  <2>2. CASE i # Len(lines)
    <3>1. i \in 1..Readable
      BY <1>6, <2>2, LinesShape
    <3>2. QED
      BY <1>7, <3>1
  <2>3. QED
    BY <2>1, <2>2
<1>11. phase'[p] = "written" /\ UNCHANGED <<mem, issued>>
  BY DEF EndWrite, Goes, ShapeInv, counters
<1>12. Written(p)'
  BY <1>3, <1>8, <1>9, <1>11 DEF Written
<1>13. QED
  BY <1>3, <1>4, <1>5, <1>6, <1>10, <1>12 DEF Intact

LEMMA ExactStep ==
    ASSUME ShapeInv, LockInv, ExactInv, [Next]_vars
    PROVE  ExactInv'
<1> SUFFICES ASSUME Intact'
             PROVE  /\ \A i \in 1..Readable' : lines'[i].seq = i
                    /\ Prefix(snapshot)'
                    /\ \A q \in Process : Prefix(mem[q])' /\ Written(q)'
  BY DEF ExactInv
<1> USE DEF At, Goes
<1>1. CASE UNCHANGED vars
  BY <1>1 DEF vars, ExactInv, Intact, Parses, Increasing, Prefix, Written, Readable
<1>2. ASSUME NEW p \in Process, Step(p)
      PROVE  /\ \A i \in 1..Readable' : lines'[i].seq = i
             /\ Prefix(snapshot)'
             /\ \A q \in Process : Prefix(mem[q])' /\ Written(q)'
  <2>1. \A q \in Process : q # p => phase'[q] = phase[q] /\ mem'[q] = mem[q]
    BY <1>2
    DEF Step, ReadSnapshot, ReadJournal, LoadRefused, Acquire, Leave, BeginWrite, EndWrite,
        WriteFails, Publish, SaveSnapshot, Crash, ShapeInv
  <2>2. CASE BeginWrite(p)
    <3>1. /\ Intact /\ Readable' = Readable /\ Written(p)'
          /\ \A i \in 1..Readable : lines'[i] = lines[i]
      BY <2>2, WriteBegins
    <3>2. UNCHANGED <<snapshot, mem>> /\ \A q \in Process : q # p => phase[q] \notin Appending
      BY <2>2 DEF BeginWrite, LockInv, Appending
    <3>3. \A s \in StateType : Prefix(s) => Prefix(s)'
      <4> SUFFICES ASSUME NEW s \in StateType, Prefix(s)
                   PROVE  Prefix(s)'
        OBVIOUS
      <4>1. \A i \in 1..s.seq : i \in 1..Readable
        BY LinesShape DEF Prefix, StateType
      <4>2. QED
        BY <3>1, <4>1 DEF Prefix
    <3>4. QED
      BY <2>1, <3>1, <3>2, <3>3 DEF ExactInv, ShapeInv, Written, Appending
  <2>3. CASE EndWrite(p)
    <3>1. /\ Intact /\ Readable' = Len(lines) /\ Written(p)' /\ Readable = Len(lines) - 1
          /\ \A i \in 1..Len(lines) : lines'[i].seq = i /\ lines'[i].event = lines[i].event
      BY <2>3, WriteEnds
    <3>2. UNCHANGED <<snapshot, mem>> /\ \A q \in Process : q # p => phase[q] \notin Appending
      BY <2>3 DEF EndWrite, LockInv, Appending
    <3>3. \A s \in StateType : Prefix(s) => Prefix(s)'
      <4> SUFFICES ASSUME NEW s \in StateType, Prefix(s)
                   PROVE  Prefix(s)'
        OBVIOUS
      <4>1. s.seq \in Nat /\ s.seq <= Readable /\ Len(lines) \in Nat
        BY LinesShape DEF Prefix, StateType
      <4>2. s.seq <= Readable' /\ \A i \in 1..s.seq : i \in 1..Len(lines)
        BY <3>1, <4>1
      <4>3. QED
        BY <3>1, <4>2 DEF Prefix
    <3>4. QED
      BY <2>1, <3>1, <3>2, <3>3 DEF ExactInv, ShapeInv, Written, Appending
  <2>4. CASE lines' = lines
    <3>1. /\ Intact /\ Readable' = Readable
          /\ \A i \in 1..Readable : lines[i].seq = i
          /\ Prefix(snapshot) /\ \A q \in Process : Prefix(mem[q]) /\ Written(q)
      BY <2>4 DEF ExactInv, Intact, Parses, Increasing, Readable
    <3>2. \A s \in StateType : Prefix(s) => Prefix(s)'
      <4>1. Readable' = Readable
        BY <3>1
      <4> SUFFICES ASSUME NEW s \in StateType, Prefix(s)
                   PROVE  Prefix(s)'
        OBVIOUS
      <4>2. QED
        BY <2>4, <4>1 DEF Prefix
    <3>3. \A q \in Process : q # p => Prefix(mem[q])' /\ Written(q)'
      BY <1>2, <2>1, <2>4, <3>1, <3>2
      DEF Step, ReadSnapshot, ReadJournal, LoadRefused, Acquire, Leave, BeginWrite, EndWrite,
          WriteFails, Publish, SaveSnapshot, Crash, ShapeInv, Written, files, counters,
          LockInv, Appending
    <3>4. CASE ReadSnapshot(p) \/ LoadRefused(p) \/ Acquire(p) \/ WriteFails(p)
      BY <2>4, <3>1, <3>2, <3>3, <3>4
      DEF ReadSnapshot, LoadRefused, Acquire, WriteFails, files, counters, ShapeInv, Written
    <3>5. CASE ReadJournal(p)
      <4>1. Prefix(Replay(mem[p])) /\ Replay(mem[p]) \in StateType
        BY <3>1, ReplayIsAll DEF ShapeInv
      <4>2. QED
        BY <2>4, <3>1, <3>2, <3>3, <3>5, <4>1 DEF ReadJournal, files, ShapeInv, Written
    <3>6. CASE Leave(p) \/ Crash(p)
      <4>1. Prefix(Empty) /\ Empty \in StateType
        BY LinesShape DEF Prefix, Empty, State, StateType
      <4>2. QED
        BY <2>4, <3>1, <3>2, <3>3, <3>6, <4>1 DEF Leave, Crash, files, ShapeInv, Written
    <3>7. CASE Publish(p)
      <4>1. /\ phase[p] = "written" /\ phase'[p] = "published" /\ UNCHANGED <<snapshot, issued>>
            /\ mem'[p] = State(mem[p].seq + 1, Append(mem[p].events, issued))
        BY <3>7 DEF Publish, files, counters, ShapeInv
      <4>2. /\ lines[Len(lines)].form = "whole" /\ Len(lines) = mem[p].seq + 1
            /\ lines[Len(lines)].event = issued /\ Readable = Len(lines)
        BY <3>1, <4>1 DEF Written, Readable
      <4>3. mem[p].seq \in Nat /\ mem[p].events \in Seq(Nat) /\ Len(mem[p].events) = mem[p].seq
        BY <3>1 DEF ShapeInv, StateType, Prefix
      <4>4. Prefix(mem'[p])
        BY <3>1, <4>1, <4>2, <4>3 DEF Prefix, State
      <4>5. mem'[p] \in StateType
        BY <4>1, <4>3 DEF State, StateType, ShapeInv
      <4>6. Written(p)'
        BY <2>4, <4>1, <4>2 DEF Written, State
      <4>7. QED
        BY <2>4, <3>1, <3>2, <3>3, <4>1, <4>4, <4>5, <4>6 DEF ShapeInv
    <3>8. CASE SaveSnapshot(p)
      BY <2>4, <3>1, <3>2, <3>3, <3>8 DEF SaveSnapshot, ShapeInv, Written
    <3>9. QED
      BY <1>2, <2>2, <2>3, <3>4, <3>5, <3>6, <3>7, <3>8 DEF Step
  <2>5. QED
    BY <1>2, <2>2, <2>3, <2>4
    DEF Step, ReadSnapshot, ReadJournal, LoadRefused, Acquire, Leave, WriteFails, Publish,
        SaveSnapshot, Crash, files
<1>3. QED
  BY <1>1, <1>2 DEF Next

\* the three together are inductive
LEMMA JournalInvariant == Spec => [](ShapeInv /\ LockInv /\ ExactInv)
<1>1. Init => ShapeInv /\ LockInv /\ ExactInv
  BY ShapeInit, ExactInit
<1>2. ShapeInv /\ LockInv /\ ExactInv /\ [Next]_vars => (ShapeInv /\ LockInv /\ ExactInv)'
  <2> SUFFICES ASSUME ShapeInv, LockInv, ExactInv, [Next]_vars
               PROVE  (ShapeInv /\ LockInv /\ ExactInv)'
    OBVIOUS
  <2>1. \A p \in Process : Loadable(mem[p]) => Later(mem[p]) <= Readable
    BY ReplayIsAll DEF Loadable, ExactInv, Intact, ShapeInv
  <2>2. QED
    BY <2>1, LockStep, ShapeStep, ExactStep
<1>3. QED
  BY <1>1, <1>2, PTL DEF Spec

(* A load that succeeds returns every event of the journal, once and in its  *)
(* order, and nothing else, after any crashes, torn writes and appends of    *)
(* processes that were not up to date (_load).                               *)
THEOREM LoadIsExactAlways == Spec => LoadIsExact
<1>1. ASSUME ShapeInv, LockInv, ExactInv, [Next]_vars,
             NEW p \in Process, phase[p] = "reading", phase'[p] = "loaded"
      PROVE  /\ {i \in DOMAIN lines : lines[i].form = "whole"} = DOMAIN mem'[p].events
             /\ \A i \in DOMAIN mem'[p].events : mem'[p].events[i] = lines[i].event
  <2>1. PICK q \in Process : Step(q)
    BY <1>1 DEF Next, vars
  <2>2. q = p
    BY <1>1, <2>1
    DEF Step, ReadSnapshot, ReadJournal, LoadRefused, Acquire, Leave, BeginWrite, EndWrite,
        WriteFails, Publish, SaveSnapshot, Crash, Goes, ShapeInv
  <2>3. ReadJournal(p)
    BY <1>1, <2>1, <2>2
    DEF Step, ReadSnapshot, LoadRefused, Acquire, Leave, BeginWrite, EndWrite, WriteFails,
        Publish, SaveSnapshot, Crash, At, Goes, ShapeInv
  <2>4. Loadable(mem[p]) /\ mem'[p] = Replay(mem[p]) /\ mem[p] \in StateType
    BY <1>1, <2>3 DEF ReadJournal, ShapeInv
  <2>5. Prefix(mem[p]) /\ \A i \in 1..Readable : lines[i].seq = i
    BY <1>1, <2>4 DEF Loadable, ExactInv, Intact
  <2>6. mem'[p].events = [i \in 1..Readable |-> lines[i].event]
    BY <1>1, <2>4, <2>5, ReplayIsAll
  <2>7. {i \in DOMAIN lines : lines[i].form = "whole"} = 1..Readable
    BY <1>1, <2>4, IntactLines DEF Loadable
  <2>8. QED
    BY <2>6, <2>7
<1>2. ShapeInv /\ LockInv /\ ExactInv /\ [Next]_vars => ExactLoads
  BY <1>1 DEF ExactLoads
<1>3. QED
  BY <1>2, JournalInvariant, PTL DEF Spec, LoadIsExact

-----------------------------------------------------------------------------
(* One scheduler at a time: what it has loaded stays the whole of the        *)
(* journal until it appends to it, for nobody else does.  A line may be cut  *)
(* by a crash or a failed write.  It is passed over until a scheduler        *)
(* appends to it and glues the two together; no load succeeds from then on.  *)
OneWriter == \A p, q \in Scheduler : p = q

UpToDate(p) ==
    /\ phase[p] \in {"loaded", "holding"} => mem[p].seq = Readable
    /\ phase[p] = "writing" =>
          /\ mem[p].seq + 1 = Len(lines)
          /\ \A i \in 1..Len(lines) : i < Len(lines) => lines[i].event < issued

UpInv ==
    /\ \A i \in 1..Len(lines) : lines[i].event <= issued
    /\ issued \in 1..MaxEvents
    /\ CutLineIsSurvived
    /\ Glued \/ (Intact /\ \A p \in Scheduler : UpToDate(p))

LEMMA UpInit ==
    ASSUME Init
    PROVE  UpInv
BY JournalAssumption
DEF Init, UpInv, UpToDate, CutLineIsSurvived, Intact, Parses, Increasing, Line, State, Process,
    Readable

\* every snapshot, and every state of a process, can be replayed from
LEMMA NothingIsRefused ==
    ASSUME ShapeInv, ExactInv, Intact, NEW p \in Process
    PROVE  Loadable(mem[p])
<1>1. /\ \A i \in 1..Readable : lines[i].seq = i
      /\ mem[p].seq \in Nat
  BY DEF ExactInv, ShapeInv, StateType
<1>2. ASSUME NEW i \in 1..Readable, lines[i].seq > mem[p].seq
      PROVE  lines[i].seq = 1 + IF i = 1 THEN mem[p].seq
                                ELSE Larger(mem[p].seq, lines[i - 1].seq)
  <2>0. Readable \in Nat
    BY LinesShape
  <2>1. lines[i].seq = i /\ i > mem[p].seq
    BY <1>1, <1>2
  <2>2. i # 1 => i - 1 \in 1..Readable
    BY <2>0
  <2>3. i # 1 => lines[i - 1].seq = i - 1
    BY <1>1, <2>2
  <2>4. QED
    BY <1>1, <2>1, <2>3 DEF Larger
<1>3. QED
  BY <1>2 DEF Loadable, Intact, Contiguous

\* two lines that are one stay one
LEMMA GluedStays ==
    ASSUME ShapeInv, [Next]_vars, Glued
    PROVE  Glued'
<1>1. PICK i \in 1..Len(lines) : lines[i].form = "garbled"
  BY LinesShape DEF Glued
<1>2. CASE lines' = lines
  BY <1>1, <1>2, LinesShape DEF Glued
<1>3. ASSUME NEW form \in Forms, lines' = [lines EXCEPT ![Len(lines)].form = form],
             lines[Len(lines)].form = "torn"
      PROVE  Glued'
  <2>1. lines' \in Seq(LineType) /\ Len(lines') = Len(lines) /\ lines'[i].form = "garbled"
    BY <1>1, <1>3, LastLine
  <2>2. QED
    BY <1>1, <2>1 DEF Glued
<1>4. ASSUME NEW line, lines' = Append(lines, line)
      PROVE  Glued'
  <2>1. lines \in Seq(LineType)
    BY DEF ShapeInv
  <2>2. i \in DOMAIN lines' /\ lines'[i] = lines[i]
    BY <1>1, <1>4, <2>1
  <2>3. QED
    BY <1>1, <2>2 DEF Glued
<1>5. QED
  BY <1>2, <1>3, <1>4
  DEF Next, vars, Step, ReadSnapshot, ReadJournal, LoadRefused, Acquire, Leave, BeginWrite,
      EndWrite, WriteFails, Publish, SaveSnapshot, Crash, Added, files, Forms

\* a scheduler appends to a cut line
LEMMA Glues ==
    ASSUME ShapeInv, NEW p \in Process, BeginWrite(p), lines[Len(lines)].form = "torn"
    PROVE  /\ Glued' /\ Len(lines') = Len(lines)
           /\ \A i \in 1..Len(lines) : lines'[i].event = lines[i].event
<1>1. lines' = [lines EXCEPT ![Len(lines)].form = "garbled"]
  BY DEF BeginWrite, Added
<1>2. /\ lines' \in Seq(LineType) /\ Len(lines') = Len(lines)
      /\ lines'[Len(lines)].form = "garbled"
      /\ \A i \in 1..Len(lines) : lines'[i].event = lines[i].event
  BY <1>1, LastLine DEF Forms
<1>3. Len(lines) \in DOMAIN lines'
  BY <1>2, LinesShape
<1>4. QED
  BY <1>2, <1>3 DEF Glued

\* events are numbered as they are made
LEMMA CountedStep ==
    ASSUME ShapeInv, UpInv, [Next]_vars
    PROVE  /\ \A i \in 1..Len(lines') : lines'[i].event <= issued'
           /\ issued' \in 1..MaxEvents
<1>0. Len(lines) \in Nat \ {0} /\ \A i \in 1..Len(lines) : lines[i].event \in Nat
  BY LinesShape
<1>1. /\ \A i \in 1..Len(lines) : lines[i].event <= issued
      /\ issued \in 1..MaxEvents /\ MaxEvents \in Nat
  BY JournalAssumption DEF UpInv
<1>2. CASE lines' = lines /\ issued' = issued
  BY <1>1, <1>2
<1>3. ASSUME NEW p \in Process, BeginWrite(p), lines[Len(lines)].form = "torn"
      PROVE  /\ \A i \in 1..Len(lines') : lines'[i].event <= issued'
             /\ issued' \in 1..MaxEvents
  <2>1. issued' = issued + 1 /\ issued < MaxEvents
    BY <1>3 DEF BeginWrite
  <2>2. Len(lines') = Len(lines) /\ \A i \in 1..Len(lines) : lines'[i].event = lines[i].event
    BY <1>3, Glues
  <2>3. QED
    BY <1>0, <1>1, <2>1, <2>2
<1>4. ASSUME NEW p \in Process, BeginWrite(p), lines[Len(lines)].form # "torn"
      PROVE  /\ \A i \in 1..Len(lines') : lines'[i].event <= issued'
             /\ issued' \in 1..MaxEvents
  <2>1. issued' = issued + 1 /\ issued < MaxEvents
    BY <1>4 DEF BeginWrite
  <2> DEFINE line == Line(mem[p].seq + 1, issued', "torn")
  <2>2. lines' = Append(lines, line) /\ lines \in Seq(LineType) /\ line.event = issued'
    BY <1>4 DEF BeginWrite, Added, ShapeInv, Line
  <2> HIDE DEF line
  <2>3. /\ Len(lines') = Len(lines) + 1 /\ lines'[Len(lines) + 1] = line
        /\ \A i \in 1..Len(lines) : lines'[i] = lines[i]
    BY <2>2
  <2>4. \A i \in 1..(Len(lines) + 1) : i \in 1..Len(lines) \/ i = Len(lines) + 1
    BY <1>0
  <2>5. \A i \in 1..Len(lines) : lines[i].event <= issued + 1
    BY <1>0, <1>1
  <2>6. QED
    BY <1>1, <2>1, <2>2, <2>3, <2>4, <2>5
<1>5. ASSUME NEW p \in Process, EndWrite(p), lines[Len(lines)].form = "torn"
      PROVE  /\ \A i \in 1..Len(lines') : lines'[i].event <= issued'
             /\ issued' \in 1..MaxEvents
  <2>1. lines' = [lines EXCEPT ![Len(lines)].form = "whole"] /\ issued' = issued
    BY <1>5 DEF EndWrite, counters
  <2>2. Len(lines') = Len(lines) /\ \A i \in 1..Len(lines) : lines'[i].event = lines[i].event
    BY <2>1, LastLine DEF Forms
  <2>3. QED
    BY <1>1, <2>1, <2>2
<1>6. QED
  BY <1>2, <1>3, <1>4, <1>5
  DEF Next, vars, Step, ReadSnapshot, ReadJournal, LoadRefused, Acquire, Leave, BeginWrite,
      EndWrite, WriteFails, Publish, SaveSnapshot, Crash, files, counters

LEMMA UpStep ==
    ASSUME OneWriter, ShapeInv, LockInv, ExactInv, UpInv, [Next]_vars
    PROVE  UpInv'
<1> USE DEF At, Goes
<1>1. CutLineIsSurvived'
  <2> SUFFICES ASSUME NEW q \in Process, phase'[q] = "refused", ~Glued'
               PROVE  FALSE
    BY DEF CutLineIsSurvived
  <2>1. ~Glued /\ Intact /\ phase[q] # "refused"
    BY GluedStays DEF UpInv, CutLineIsSurvived
  <2>2. Loadable(mem[q])
    BY <2>1, NothingIsRefused
  <2>3. LoadRefused(q)
    BY <2>1
    DEF Next, vars, Step, ReadSnapshot, ReadJournal, LoadRefused, Acquire, Leave, BeginWrite,
        EndWrite, WriteFails, Publish, SaveSnapshot, Crash, ShapeInv
  <2>4. QED
    BY <2>2, <2>3 DEF LoadRefused
<1>2. ASSUME ~Glued'
      PROVE  (Intact /\ \A p \in Scheduler : UpToDate(p))'
  <2>0. /\ Intact /\ \A q \in Scheduler : UpToDate(q)
        /\ \A i \in 1..Len(lines) : lines[i].event <= issued
    BY <1>2, GluedStays DEF UpInv
  <2>1. CASE UNCHANGED vars
    BY <2>0, <2>1 DEF vars, UpToDate, Intact, Parses, Increasing, Readable
  <2>2. ASSUME NEW p \in Process, BeginWrite(p)
        PROVE  (Intact /\ \A q \in Scheduler : UpToDate(q))'
    <3>1. /\ p \in Scheduler /\ phase[p] = "holding" /\ phase'[p] = "writing"
          /\ UNCHANGED mem /\ issued' = issued + 1
          /\ \A q \in Scheduler : q = p
      BY <2>2 DEF BeginWrite, LockInv, Appending, ShapeInv, OneWriter
    <3>2. lines[Len(lines)].form # "torn"
      BY <1>2, <2>2, Glues
    <3>3. /\ mem[p].seq = Len(lines) /\ Len(lines) \in Nat \ {0}
          /\ DOMAIN lines = 1..Len(lines) /\ Len(lines) \in 1..Len(lines)
          /\ \A i \in 1..Len(lines) : lines[i].event \in Nat /\ lines[i].event <= issued
      BY <2>0, <3>1, <3>2, LinesShape DEF UpToDate
    <3> DEFINE line == Line(mem[p].seq + 1, issued', "torn")
    <3>4. lines' = Append(lines, line) /\ lines \in Seq(LineType)
      BY <2>2, <3>2 DEF BeginWrite, Added, ShapeInv
    <3>5. /\ Len(lines') = Len(lines) + 1 /\ DOMAIN lines' = 1..(Len(lines) + 1)
          /\ lines'[Len(lines) + 1] = line
          /\ \A i \in 1..Len(lines) : lines'[i] = lines[i]
      BY <3>4
    <3>6. line.form = "torn"
      BY DEF Line
    <3> HIDE DEF line
    <3>7. \A i \in 1..(Len(lines) + 1) : i \in 1..Len(lines) \/ i = Len(lines) + 1
      BY <3>3
    <3>8. \A i \in 1..Len(lines) : lines[i].form = "whole"
      BY <2>0, <3>2, <3>3 DEF Intact, Parses
    <3>9. Parses'
      BY <3>5, <3>6, <3>7, <3>8 DEF Parses
    <3>10. Increasing'
      BY <2>0, <3>3, <3>5, <3>6, <3>7 DEF Increasing, Intact
    <3>11. \A i \in 1..(Len(lines) + 1) : i < Len(lines) + 1 => lines'[i].event < issued + 1
      BY <3>3, <3>5, <3>7 DEF ShapeInv
    <3>12. UpToDate(p)'
      BY <3>1, <3>3, <3>5, <3>11 DEF UpToDate
    <3>13. QED
      BY <3>1, <3>9, <3>10, <3>12 DEF Intact
  <2>3. ASSUME NEW p \in Process, EndWrite(p)
        PROVE  (Intact /\ \A q \in Scheduler : UpToDate(q))'
    <3>1. /\ p \in Scheduler /\ phase[p] = "writing" /\ phase'[p] = "written"
          /\ UNCHANGED mem /\ \A q \in Scheduler : q = p
      BY <2>3 DEF EndWrite, LockInv, Appending, ShapeInv, OneWriter
    <3>2. /\ Written(p) /\ \A i \in 1..Readable : lines[i].seq = i
          /\ mem[p].seq + 1 = Len(lines) /\ mem[p].seq \in Nat
      BY <2>0, <3>1 DEF ExactInv, UpToDate, ShapeInv, StateType, Process
    <3>3. lines[Len(lines)].form = "torn" /\ lines[Len(lines)].seq = Len(lines)
      BY <3>1, <3>2 DEF Written
    <3>4. lines' = [lines EXCEPT ![Len(lines)].form = "whole"]
      BY <2>3, <3>3 DEF EndWrite
    <3>5. /\ Len(lines') = Len(lines) /\ DOMAIN lines' = 1..Len(lines)
          /\ lines'[Len(lines)].form = "whole"
          /\ \A i \in 1..Len(lines) :
                /\ lines'[i].seq = lines[i].seq /\ lines'[i].event = lines[i].event
                /\ lines'[i].form = IF i = Len(lines) THEN "whole" ELSE lines[i].form
      BY <3>4, LastLine DEF Forms
    <3>6. Parses'
      BY <2>0, <3>5, LinesShape DEF Parses, Intact
    <3>7. \A i \in 1..Len(lines) : i \in 1..Readable \/ i = Len(lines)
      <4>1. Readable = Len(lines) - 1 /\ Len(lines) \in Nat \ {0}
        BY <3>3, LinesShape
      <4>2. QED
        BY <4>1
    <3>8. \A i \in 1..Len(lines) : lines'[i].seq = i
      BY <3>2, <3>3, <3>5, <3>7
    <3>9. Increasing'
      BY <3>5, <3>8 DEF Increasing
    <3>10. UpToDate(p)'
      BY <3>1 DEF UpToDate
    <3>11. QED
      BY <3>1, <3>6, <3>9, <3>10 DEF Intact
  <2>4. ASSUME NEW p \in Process, Step(p), ~BeginWrite(p), ~EndWrite(p)
        PROVE  (Intact /\ \A q \in Scheduler : UpToDate(q))'
    <3>1. UNCHANGED <<lines, issued>>
      BY <2>4
      DEF Step, ReadSnapshot, ReadJournal, LoadRefused, Acquire, Leave, WriteFails, Publish,
          SaveSnapshot, Crash, files, counters
    <3>2. \A q \in Process : q # p => phase'[q] = phase[q] /\ mem'[q] = mem[q]
      BY <2>4
      DEF Step, ReadSnapshot, ReadJournal, LoadRefused, Acquire, Leave, WriteFails, Publish,
          SaveSnapshot, Crash, ShapeInv
    <3>3. Readable' = Readable /\ Intact'
      BY <2>0, <3>1 DEF Readable, Intact, Parses, Increasing
    <3>4. \A q \in Scheduler : q # p => UpToDate(q)'
      BY <2>0, <3>1, <3>2, <3>3 DEF UpToDate, Process
    <3>5. ASSUME p \in Scheduler
          PROVE  UpToDate(p)'
      <4>1. CASE ReadJournal(p)
        <5>1. mem'[p] = Replay(mem[p]) /\ phase'[p] = "loaded"
          BY <4>1 DEF ReadJournal, ShapeInv
        <5>2. Replay(mem[p]).seq = Readable
          BY <2>0, ReplayIsAll DEF ExactInv, ShapeInv
        <5>3. QED
          BY <3>3, <5>1, <5>2 DEF UpToDate
      <4>2. CASE Acquire(p)
        BY <2>0, <3>3, <3>5, <4>2 DEF Acquire, UpToDate, ShapeInv
      <4>3. CASE SaveSnapshot(p)
        <5>1. /\ phase[p] = "published" /\ phase'[p] = "holding" /\ mem' = mem
          BY <4>3 DEF SaveSnapshot, ShapeInv
        <5>2. lines[Len(lines)].form = "whole" /\ Len(lines) = mem[p].seq
          BY <2>0, <5>1 DEF ExactInv, Written
        <5>3. Readable = Len(lines)
          BY <5>2, LinesShape
        <5>4. QED
          BY <3>3, <5>1, <5>2, <5>3 DEF UpToDate
      <4>4. CASE WriteFails(p)
        <5>1. phase[p] = "writing" /\ phase'[p] = "holding" /\ mem' = mem
          BY <4>4 DEF WriteFails, ShapeInv
        <5>2. Written(p) /\ UpToDate(p) /\ mem[p].seq \in Nat
          BY <2>0, <3>5 DEF ExactInv, ShapeInv, StateType
        <5>3. lines[Len(lines)].form = "torn" /\ mem[p].seq + 1 = Len(lines)
          BY <5>1, <5>2 DEF Written, UpToDate
        <5>4. Readable = Len(lines) - 1
          BY <5>3 DEF Readable
        <5>5. Readable = mem[p].seq
          BY <5>2, <5>3, <5>4
        <5>6. mem'[p].seq = Readable' /\ phase'[p] # "writing"
          BY <3>3, <5>1, <5>5
        <5>7. QED
          BY <5>6 DEF UpToDate
      <4>5. CASE phase'[p] \notin {"loaded", "holding", "writing"}
        BY <4>5 DEF UpToDate
      <4>6. QED
        BY <2>4, <4>1, <4>2, <4>3, <4>4, <4>5
        DEF Step, ReadSnapshot, LoadRefused, Leave, Publish, Crash, ShapeInv
    <3>6. QED
      BY <3>3, <3>4, <3>5
  <2>5. QED
    BY <2>1, <2>2, <2>3, <2>4 DEF Next
<1>3. QED
  BY <1>1, <1>2, CountedStep DEF UpInv

LEMMA UpToDateAlways ==
    ASSUME OneWriter
    PROVE  Spec => []UpInv
<1>1. Init => UpInv
  BY UpInit
<1>2. ShapeInv /\ LockInv /\ ExactInv /\ UpInv /\ [Next]_vars => UpInv'
  BY UpStep
<1>3. QED
  BY <1>1, <1>2, JournalInvariant, PTL DEF Spec

(* With one scheduler at a time, no load is refused for a line that a crash  *)
(* or a failed write cut, nor for one in the middle of being written, until  *)
(* the scheduler has appended to the cut line itself (_load,                 *)
(* _append_event_locked).                                                    *)
THEOREM CutLineSurvived ==
    ASSUME OneWriter
    PROVE  Spec => []CutLineIsSurvived
<1>1. UpInv => CutLineIsSurvived
  BY DEF UpInv
<1>2. QED
  BY <1>1, UpToDateAlways, PTL

\* what opening the workflow would replay
Replayed ==
    Glued \/ Replay(snapshot) = State(Readable, [i \in 1..Readable |-> lines[i].event])

LEMMA LoadableIsUnglued ==
    ASSUME Loadable(snapshot)
    PROVE  ~Glued
BY DEF Loadable, Parses, Glued

LEMMA ReplayedAlways ==
    ASSUME OneWriter
    PROVE  Spec => []Replayed
<1>1. ShapeInv /\ ExactInv /\ UpInv => Replayed
  <2> SUFFICES ASSUME ShapeInv, ExactInv, UpInv, ~Glued
               PROVE  Replay(snapshot) = State(Readable, [i \in 1..Readable |-> lines[i].event])
    BY DEF Replayed
  <2>1. /\ Replay(snapshot) \in StateType /\ Replay(snapshot).seq = Readable
        /\ Replay(snapshot).events = [i \in 1..Readable |-> lines[i].event]
    BY ReplayIsAll DEF ExactInv, UpInv, ShapeInv
  <2>2. QED
    BY <2>1 DEF State, StateType
<1>2. QED
  BY <1>1, UpToDateAlways, JournalInvariant, PTL

(* The process that holds the lock decides on the whole history: between its *)
(* appends, as long as the files can be opened, it has in memory what they   *)
(* would replay, cut lines included (acquire, _load, _append_event_locked).  *)
THEOREM HolderUpToDate ==
    ASSUME OneWriter
    PROVE  Spec => []HolderIsCurrent
<1>1. ASSUME ShapeInv, LockInv, ExactInv, UpInv, Replayed, NEW p \in holder,
             phase[p] = "holding", Loadable(snapshot)
      PROVE  mem[p] = Replay(snapshot)
  <2>0. ~Glued
    BY <1>1, LoadableIsUnglued
  <2>1. p \in Scheduler /\ p \in Process
    BY <1>1 DEF LockInv, Process
  <2>2. mem[p].seq = Readable /\ Prefix(mem[p])
    BY <1>1, <2>0, <2>1 DEF UpInv, UpToDate, ExactInv
  <2>3. mem[p] \in StateType
    BY <1>1, <2>1 DEF ShapeInv
  <2>4. mem[p].events = [i \in 1..Readable |-> lines[i].event]
    <3>1. mem[p].events \in Seq(Nat) /\ Len(mem[p].events) = Readable /\ Readable \in Nat
      BY <2>2, <2>3, LinesShape, <1>1 DEF Prefix, StateType
    <3>2. \A i \in 1..Readable : mem[p].events[i] = lines[i].event
      BY <2>2, <2>3 DEF Prefix
    <3> DEFINE all == [i \in 1..Readable |-> lines[i].event]
    <3>3. all = [i \in 1..Readable |-> all[i]] /\ \A i \in 1..Readable : mem[p].events[i] = all[i]
      BY <3>2
    <3> DEFINE own == mem[p].events
               N == Readable
    <3>4. /\ own \in Seq(Nat) /\ N \in Nat /\ Len(own) = N
          /\ all = [i \in 1..N |-> all[i]] /\ \A i \in 1..N : own[i] = all[i]
      BY <3>1, <3>3
    <3> HIDE DEF all, own, N
    <3>5. own = all
      BY <3>4, SeqOf
    <3>6. QED
      BY <3>5 DEF all, own
  <2>5. mem[p] = State(mem[p].seq, mem[p].events)
    BY <2>3 DEF State, StateType
  <2>6. QED
    BY <1>1, <2>0, <2>2, <2>4, <2>5 DEF Replayed
<1>2. ShapeInv /\ LockInv /\ ExactInv /\ UpInv /\ Replayed => HolderIsCurrent
  BY <1>1 DEF HolderIsCurrent
<1>3. QED
  BY <1>2, UpToDateAlways, ReplayedAlways, JournalInvariant, PTL

LEMMA LogStep ==
    ASSUME OneWriter, ShapeInv, LockInv, ExactInv, UpInv, Replayed, [Next]_vars,
           ShapeInv', UpInv', Replayed', Loadable(snapshot)'
    PROVE  [L!Next]_(L!logVars)
<1>a. ~Glued' /\ ~Glued
  BY GluedStays DEF Loadable, Parses, Glued
<1> DEFINE log == [i \in 1..Readable |-> lines[i].event]
<1> USE DEF L!logVars
<1>0. /\ Replay(snapshot).events = log /\ Replay(snapshot).events' = log'
      /\ Len(log) = Readable /\ Readable \in Nat
  <2>1. Replay(snapshot) = State(Readable, log) /\ Replay(snapshot)' = State(Readable, log)'
    BY <1>a DEF Replayed
  <2>2. Readable \in Nat
    BY LinesShape
  <2>3. QED
    BY <2>1, <2>2 DEF State
<1>1. CASE UNCHANGED vars
  BY <1>1 DEF vars, Replay, Later, LastSeen, Readable
<1>2. ASSUME NEW p \in Process, Step(p)
      PROVE  [L!Next]_(L!logVars)
  <2>1. CASE EndWrite(p)
    <3>1. /\ p \in Scheduler /\ phase[p] = "writing" /\ UNCHANGED <<acked, issued>>
      BY <2>1 DEF EndWrite, LockInv, Appending, At, counters
    <3>2. Intact' /\ Intact
      BY <1>a DEF UpInv
    <3>3. /\ Readable' = Len(lines) /\ Readable = Len(lines) - 1
          /\ \A i \in 1..Len(lines) : lines'[i].event = lines[i].event
      BY <2>1, <3>2, WriteEnds
    <3>4. Written(p) /\ UpToDate(p) /\ issued \in 1..MaxEvents
      BY <1>a, <3>1, <3>2 DEF ExactInv, UpInv, Process
    <3>5. lines[Len(lines)].event = issued /\ Len(lines) \in Nat \ {0}
      BY <3>1, <3>4, LinesShape DEF Written
    <3>6. log' = Append(log, issued)
      BY <3>3, <3>5
    <3>7. \A i \in 1..Len(log) : log[i] # issued
      <4>1. \A i \in 1..Len(lines) : i < Len(lines) => lines[i].event < issued
        BY <3>1, <3>4 DEF UpToDate
      <4>2. \A i \in 1..Len(log) : i \in 1..Len(lines) /\ i < Len(lines)
        BY <1>0, <3>3, <3>5
      <4>3. \A i \in 1..Len(log) : log[i] = lines[i].event /\ lines[i].event \in Nat
        BY <1>0, <4>2, LinesShape
      <4>4. \A i \in 1..Len(log) : log[i] < issued
        BY <4>1, <4>2, <4>3
      <4> HIDE DEF log
      <4>5. QED
        BY <4>3, <4>4 DEF ShapeInv
    <3>8. L!Record
      BY <1>0, <3>1, <3>4, <3>6, <3>7 DEF L!Record
    <3>9. QED
      BY <3>8 DEF L!Next
  <2>2. CASE BeginWrite(p)
    <3>1. Intact'
      BY <1>a DEF UpInv
    <3>2. Readable' = Readable /\ \A i \in 1..Readable : lines'[i] = lines[i]
      BY <2>2, <3>1, WriteBegins
    <3>3. log' = log /\ acked' = acked
      BY <2>2, <3>2 DEF BeginWrite
    <3>4. QED
      BY <1>0, <3>3
  <2>3. CASE SaveSnapshot(p)
    <3>1. lines' = lines /\ acked' = acked \cup {issued} /\ phase[p] = "published"
      BY <2>3 DEF SaveSnapshot, At
    <3>2. lines[Len(lines)].form = "whole" /\ lines[Len(lines)].event = issued
      BY <1>a, <3>1 DEF ExactInv, UpInv, Written
    <3>3. Readable = Len(lines) /\ Len(lines) \in 1..Len(lines)
      BY <3>2, LinesShape
    <3>4. log[Len(log)] = issued /\ Len(log) \in 1..Len(log)
      BY <1>0, <3>2, <3>3
    <3>5. log' = log
      BY <3>1 DEF Readable
    <3>6. L!Acknowledge
      BY <1>0, <3>1, <3>4, <3>5 DEF L!Acknowledge
    <3>7. QED
      BY <3>6 DEF L!Next
  <2>4. CASE UNCHANGED <<lines, acked>>
    <3>1. log' = log
      BY <2>4 DEF Readable
    <3>2. QED
      BY <1>0, <2>4, <3>1
  <2>5. QED
    BY <1>2, <2>1, <2>2, <2>3, <2>4
    DEF Step, ReadSnapshot, ReadJournal, LoadRefused, Acquire, Leave, WriteFails, Publish,
        Crash, files, counters
<1>3. QED
  BY <1>1, <1>2 DEF Next

(* As long as the files can be opened, opening them gives a log that only    *)
(* grows, by one event at a time, and keeps every event whose append         *)
(* returned, through crashes in and between any two of the writes of an      *)
(* append (_append_event_locked).                                            *)
THEOREM FilesAreALog ==
    ASSUME OneWriter
    PROVE  Spec => JournalIsALog
<1>1. ASSUME Init, Replayed
      PROVE  L!Init
  <2>1. Readable = 1 /\ lines[1].event = 1 /\ acked = {1}
    BY <1>1 DEF Init, Readable, Line
  <2>2. [i \in 1..1 |-> lines[i].event] = <<1>>
    BY <2>1
  <2>3. ~Glued
    BY <1>1 DEF Init, Line, Glued
  <2>4. QED
    BY <1>1, <2>1, <2>2, <2>3 DEF Replayed, State, L!Init
<1>2. ShapeInv /\ LockInv /\ ExactInv /\ UpInv /\ Replayed /\ [Next]_vars
        /\ ShapeInv' /\ UpInv' /\ Replayed' => [Loadable(snapshot)' => L!Next]_(L!logVars)
  BY LogStep
<1>3. QED
  BY <1>1, <1>2, UpToDateAlways, ReplayedAlways, JournalInvariant, PTL
  DEF Spec, JournalIsALog

=============================================================================
