--------------------------- MODULE ExternalChecker ---------------------------
(***************************************************************************)
(* The external checker: one subprocess shared by every request, one       *)
(* question and one answer per line, one exchange at a time under a lock   *)
(* that a request waits for only so long.                                  *)
(*                                                                         *)
(* A question is its request id and an answer the id it echoes with the    *)
(* version it reports; an answer parse_response rejects for any other      *)
(* reason has the id NoId.  The checker is not trusted: it may answer      *)
(* late or never, write lines nobody asked for, stop in the middle of one, *)
(* stop taking its input, report another version with every answer, and    *)
(* die.  A time limit may run out at any moment, where there is one.       *)
(*                                                                         *)
(* A question is every contribution to a table and may be larger than the  *)
(* pipe: write and flush then wait for the checker to take it, in step     *)
(* "fill", and without a limit.                                            *)
(***************************************************************************)
EXTENDS Integers, Sequences, FiniteSets

CONSTANTS
    Threads,        \* requests being vetted at once
    NoThread,       \* the holder of a free lock
    Versions,       \* what the checker may report
    NoVersion,      \* self.version before the first answer
    MaxStarts,      \* max_starts
    MaxAsks,        \* bound: tables vetted
    MaxChatter,     \* bound: lines nobody asked for
    MaxHangs        \* bound: processes that stop in a line, or taking input

ASSUME CheckerAssumption ==
    /\ NoThread \notin Threads
    /\ NoVersion \notin Versions
    /\ MaxStarts \in Nat /\ MaxAsks \in Nat /\ MaxChatter \in Nat /\ MaxHangs \in Nat

NoProcess == 0          \* self._process is None; processes count from 1
NoId == 0

Processes == 1..MaxStarts
Line == [id: Nat, version: Versions \cup {NoVersion}]
NoLine == [id |-> NoId, version |-> NoVersion]

VARIABLES
    process,        \* self._process
    starts,         \* self._starts, which past MaxStarts only says so
    version,        \* self.version
    lock,           \* the thread holding self._lock
    lastId,         \* the last request id given out
    pc,             \* thread -> the step of vet it takes next
    id,             \* thread -> its request id
    proc,           \* thread -> the process _start returned to it
    line,           \* thread -> the answer it read
    victim          \* thread -> the process its close() took out of service

VARIABLES           \* the subprocesses and their pipes
    alive,
    closed,         \* those whose standard input was closed
    hung,           \* those that stopped in the middle of a line
    deaf,           \* those that take nothing more from their input
    questions,          \* process -> questions it has not answered
    answers         \* process -> lines nobody has read

VARIABLES           \* history variables
    applied,        \* thread -> the answer whose verdicts decided its table
    named,          \* thread -> the version its release names
    chatter

pipes == <<closed, hung, deaf, questions, answers>>
vetter == <<process, starts, version>>
locals == <<id, proc, line, victim>>
outcome == <<applied, named>>
vars == <<vetter, lock, lastId, pc, locals, alive, pipes, outcome, chatter>>

PerThread(v) == [t \in Threads |-> v]
PerProcess(v) == [p \in Processes |-> v]

Init ==
    /\ process = NoProcess /\ starts = 0 /\ version = NoVersion
    /\ lock = NoThread /\ lastId = NoId
    /\ pc = PerThread("idle") /\ id = PerThread(NoId) /\ proc = PerThread(NoProcess)
    /\ line = PerThread(NoLine) /\ victim = PerThread(NoProcess)
    /\ alive = {} /\ closed = {} /\ hung = {} /\ deaf = {}
    /\ questions = PerProcess(<<>>) /\ answers = PerProcess(<<>>)
    /\ applied = PerThread(NoLine) /\ named = PerThread(NoVersion)
    /\ chatter = 0

-----------------------------------------------------------------------------
(***************************************************************************)
(* vet and _ask, step by step.  A thread that returns to "idle" without an *)
(* applied answer was denied.                                              *)
(***************************************************************************)
Goto(t, step) == pc' = [pc EXCEPT ![t] = step]

Release(t) == lock' = IF lock = t THEN NoThread ELSE lock

\* A table arrives and takes the next id.
Vet(t) ==
    /\ pc[t] = "idle"
    /\ lastId < MaxAsks
    /\ lastId' = lastId + 1
    /\ id' = [id EXCEPT ![t] = lastId + 1]
    /\ applied' = [applied EXCEPT ![t] = NoLine]
    /\ named' = [named EXCEPT ![t] = NoVersion]
    /\ Goto(t, "acquire")
    /\ UNCHANGED <<vetter, lock, proc, line, victim, alive, pipes, chatter>>

Acquire(t) ==
    /\ pc[t] = "acquire"
    /\ lock = NoThread
    /\ lock' = t
    /\ Goto(t, "start")
    /\ UNCHANGED <<vetter, lastId, locals, alive, pipes, outcome, chatter>>

\* lock_wait ran out behind somebody else's exchange.
GiveUp(t) ==
    /\ pc[t] = "acquire"
    /\ lock # NoThread
    /\ Goto(t, "idle")
    /\ UNCHANGED <<vetter, lock, lastId, locals, alive, pipes, outcome, chatter>>

\* _start, when the process is there.
Reuse(t) ==
    /\ pc[t] = "start"
    /\ process \in alive
    /\ Goto(t, "take")
    /\ UNCHANGED <<vetter, lock, lastId, locals, alive, pipes, outcome, chatter>>

\* _start, when it is not: the start is counted, and may fail.
Start(t) ==
    /\ pc[t] = "start"
    /\ process \notin alive
    /\ starts' = IF starts > MaxStarts THEN starts ELSE starts + 1
    /\ \/ /\ starts' <= MaxStarts
          /\ process' = starts'
          /\ alive' = alive \cup {starts'}
          /\ Goto(t, "take")
       \/ /\ Goto(t, "close")
          /\ UNCHANGED <<process, alive>>
    /\ UNCHANGED <<version, lock, lastId, locals, pipes, outcome, chatter>>

\* _start's return value is read back from the shared field.  A close() of
\* another thread may have emptied it: the exception that follows is none of
\* those _ask handles, and only gives the lock back.
Take(t) ==
    /\ pc[t] = "take"
    /\ proc' = [proc EXCEPT ![t] = process]
    /\ IF process = NoProcess
       THEN Release(t) /\ Goto(t, "idle")
       ELSE UNCHANGED lock /\ Goto(t, "write")
    /\ UNCHANGED <<vetter, lastId, id, line, victim, alive, pipes, outcome, chatter>>

\* The whole question is in the pipe.
Ask(t) ==
    /\ questions' = [questions EXCEPT ![proc[t]] = Append(@, id[t])]
    /\ Goto(t, "read")

\* write and flush: the pipe is closed or nobody reads it, the question fits,
\* or it does not.
Write(t) ==
    LET p == proc[t] IN
    /\ pc[t] = "write"
    /\ \/ p \in alive \ closed /\ Ask(t)
       \/ p \in alive \ closed /\ Goto(t, "fill") /\ UNCHANGED questions
       \/ p \notin alive \ closed /\ Goto(t, "close") /\ UNCHANGED questions
    /\ UNCHANGED <<vetter, lock, lastId, locals, alive, closed, hung, deaf, answers, outcome,
                   chatter>>

\* The rest of a question goes through as the checker takes it, or the pipe
\* breaks.  A checker that does neither is waited for without a limit.
Fill(t) ==
    LET p == proc[t] IN
    /\ pc[t] = "fill"
    /\ \/ p \in alive \ deaf /\ Ask(t)
       \/ p \notin alive /\ Goto(t, "close") /\ UNCHANGED questions
    /\ UNCHANGED <<vetter, lock, lastId, locals, alive, closed, hung, deaf, answers, outcome,
                   chatter>>

\* _read_line: select sees that something can be read, be it half a line ...
Select(t) ==
    /\ pc[t] = "read"
    /\ proc[t] \in hung \/ proc[t] \notin alive \/ answers[proc[t]] # <<>>
    /\ Goto(t, "readline")
    /\ UNCHANGED <<vetter, lock, lastId, locals, alive, pipes, outcome, chatter>>

\* ... or the time limit runs out.
Timeout(t) ==
    /\ pc[t] = "read"
    /\ Goto(t, "close")
    /\ UNCHANGED <<vetter, lock, lastId, locals, alive, pipes, outcome, chatter>>

\* Mutant: whatever is read is taken for the answer.
ReadAnything(t) ==
    LET p == proc[t] IN
    /\ pc[t] = "readline"
    /\ answers[p] # <<>>
    /\ line' = [line EXCEPT ![t] = Head(answers[p])]
    /\ answers' = [answers EXCEPT ![p] = Tail(@)]
    /\ Release(t) /\ Goto(t, "compare")
    /\ UNCHANGED <<vetter, lastId, id, proc, victim, alive, closed, hung, deaf, questions,
                   outcome, chatter>>

\* One line is read and parsed; an answer to another question is an error.
ReadLine(t) ==
    LET p == proc[t] IN
    /\ pc[t] = "readline"
    /\ answers[p] # <<>>
    /\ line' = [line EXCEPT ![t] = Head(answers[p])]
    /\ answers' = [answers EXCEPT ![p] = Tail(@)]
    /\ IF Head(answers[p]).id = id[t]
       THEN Release(t) /\ Goto(t, "compare")
       ELSE UNCHANGED lock /\ Goto(t, "close")
    /\ UNCHANGED <<vetter, lastId, id, proc, victim, alive, closed, hung, deaf, questions,
                   outcome, chatter>>

\* The output ended, in a line or between two.  Until it does, or the line is
\* complete, readline waits, and without a limit.
ReadEnd(t) ==
    /\ pc[t] = "readline"
    /\ answers[proc[t]] = <<>> /\ proc[t] \notin alive
    /\ Goto(t, "close")
    /\ UNCHANGED <<vetter, lock, lastId, locals, alive, pipes, outcome, chatter>>

\* close(): under the lock after a failed exchange, without it after a change
\* of version.  It takes the process out of service, whichever that is ...
Close(t) ==
    /\ pc[t] \in {"close", "drop"}
    /\ process' = NoProcess
    /\ victim' = [victim EXCEPT ![t] = process]
    /\ IF process = NoProcess
       THEN Release(t) /\ Goto(t, "idle")
       ELSE UNCHANGED lock /\ Goto(t, "shut")
    /\ UNCHANGED <<starts, version, lastId, id, proc, line, alive, pipes, outcome, chatter>>

\* ... and closes its input, behind whoever is still writing to it.
Shut(t) ==
    /\ pc[t] = "shut"
    /\ \A x \in Threads : pc[x] = "fill" => proc[x] # victim[t]
    /\ closed' = closed \cup {victim[t]}
    /\ Goto(t, "reap")
    /\ UNCHANGED <<vetter, lock, lastId, locals, alive, hung, deaf, questions, answers, outcome,
                   chatter>>

\* Mutant: the lock is not given back when the exchange failed.
ReapLocked(t) ==
    /\ pc[t] = "reap"
    /\ alive' = alive \ {victim[t]}
    /\ Goto(t, "idle")
    /\ UNCHANGED <<vetter, lock, lastId, locals, pipes, outcome, chatter>>

\* It ended by itself, or is killed five seconds later.
Reap(t) ==
    /\ pc[t] = "reap"
    /\ alive' = alive \ {victim[t]}
    /\ Release(t) /\ Goto(t, "idle")
    /\ UNCHANGED <<vetter, lastId, locals, pipes, outcome, chatter>>

\* Mutant: any version will do.
CompareNothing(t) ==
    /\ pc[t] = "compare"
    /\ Goto(t, "store")
    /\ UNCHANGED <<vetter, lock, lastId, locals, alive, pipes, outcome, chatter>>

\* The reported version against the stored one, after the lock is given back.
Compare(t) ==
    /\ pc[t] = "compare"
    /\ Goto(t, IF version \in {NoVersion, line[t].version} THEN "store" ELSE "drop")
    /\ UNCHANGED <<vetter, lock, lastId, locals, alive, pipes, outcome, chatter>>

Store(t) ==
    /\ pc[t] = "store"
    /\ version' = line[t].version
    /\ Goto(t, "judge")
    /\ UNCHANGED <<process, starts, lock, lastId, locals, alive, pipes, outcome, chatter>>

\* The verdicts cover every cell, or the table is denied.
Judge(t) ==
    /\ pc[t] = "judge"
    /\ \/ applied' = [applied EXCEPT ![t] = line[t]] /\ Goto(t, "describe")
       \/ UNCHANGED applied /\ Goto(t, "idle")
    /\ UNCHANGED <<vetter, lock, lastId, locals, alive, pipes, named, chatter>>

\* The gateway's trace names the checker, from the shared field.
Describe(t) ==
    /\ pc[t] = "describe"
    /\ named' = [named EXCEPT ![t] = version]
    /\ Goto(t, "idle")
    /\ UNCHANGED <<vetter, lock, lastId, locals, alive, pipes, applied, chatter>>

Step(t) ==
    \/ Acquire(t) \/ GiveUp(t) \/ Reuse(t) \/ Start(t) \/ Take(t) \/ Write(t)
    \/ Fill(t) \/ Select(t) \/ Timeout(t) \/ ReadLine(t) \/ ReadEnd(t) \/ Close(t)
    \/ Shut(t) \/ Reap(t) \/ Compare(t) \/ Store(t) \/ Judge(t) \/ Describe(t)

-----------------------------------------------------------------------------
(***************************************************************************)
(* The checker.                                                            *)
(***************************************************************************)
Say(p, l) == answers' = [answers EXCEPT ![p] = Append(@, l)]

Answer(p) ==
    /\ p \in alive \ (hung \cup deaf)
    /\ questions[p] # <<>>
    /\ \E v \in Versions : Say(p, [id |-> Head(questions[p]), version |-> v])
    /\ questions' = [questions EXCEPT ![p] = Tail(@)]
    /\ UNCHANGED <<vetter, lock, lastId, pc, locals, alive, closed, hung, deaf, outcome, chatter>>

\* A line nobody asked for: an old answer again, or no answer at all.
Chatter(p) ==
    /\ p \in alive \ hung
    /\ chatter < MaxChatter
    /\ \E i \in NoId..lastId, v \in Versions : Say(p, [id |-> i, version |-> v])
    /\ chatter' = chatter + 1
    /\ UNCHANGED <<vetter, lock, lastId, pc, locals, alive, closed, hung, deaf, questions, outcome>>

MayStop == Cardinality(hung) + Cardinality(deaf) < MaxHangs

\* It stops in the middle of a line.
Hang(p) ==
    /\ p \in alive \ hung
    /\ MayStop
    /\ hung' = hung \cup {p}
    /\ UNCHANGED <<vetter, lock, lastId, pc, locals, alive, closed, deaf, questions, answers,
                   outcome, chatter>>

\* It takes nothing more from its input, as one that waits for its errors to
\* be read, which nobody does.
Deafen(p) ==
    /\ p \in alive \ deaf
    /\ MayStop
    /\ deaf' = deaf \cup {p}
    /\ UNCHANGED <<vetter, lock, lastId, pc, locals, alive, closed, hung, questions, answers,
                   outcome, chatter>>

Die(p) ==
    /\ p \in alive
    /\ alive' = alive \ {p}
    /\ UNCHANGED <<vetter, lock, lastId, pc, locals, pipes, outcome, chatter>>

Next ==
    \/ \E t \in Threads : Vet(t) \/ Step(t)
    \/ \E p \in Processes : Answer(p) \/ Chatter(p) \/ Hang(p) \/ Deafen(p) \/ Die(p)

Spec == Init /\ [][Next]_vars

\* A thread takes its next step when it has one; readline on half a line has
\* none, nor has a write to a checker that takes nothing.  Nothing is assumed
\* of the checker.
FairSpec == Spec /\ \A t \in Threads : WF_vars(Step(t))

-----------------------------------------------------------------------------
\* The vetter's fields, its threads' locals and the pipes keep their types
\* (ExternalCheckerVetter).
TypeOK ==
    /\ process \in Processes \cup {NoProcess}
    /\ starts \in 0..(MaxStarts + 1)
    /\ version \in Versions \cup {NoVersion}
    /\ lock \in Threads \cup {NoThread}
    /\ lastId \in Nat
    /\ pc \in [Threads -> {"idle", "acquire", "start", "take", "write", "fill", "read",
                           "readline", "close", "drop", "shut", "reap", "compare", "store",
                           "judge", "describe"}]
    /\ id \in [Threads -> Nat]
    /\ proc \in [Threads -> Processes \cup {NoProcess}]
    /\ victim \in [Threads -> Processes \cup {NoProcess}]
    /\ line \in [Threads -> Line] /\ applied \in [Threads -> Line]
    /\ named \in [Threads -> Versions \cup {NoVersion}]
    /\ alive \subseteq Processes /\ closed \subseteq Processes
    /\ hung \subseteq Processes /\ deaf \subseteq Processes
    /\ questions \in [Processes -> Seq(Nat)]
    /\ answers \in [Processes -> Seq(Line)]
    /\ chatter \in Nat

\* No table is decided by the answer to another table's question, whatever the
\* checker writes and whenever it writes it (_ask, parse_response).
VerdictsAreOwn == \A t \in Threads : applied[t] # NoLine => applied[t].id = id[t]

Quiet(p) == questions[p] = <<>> /\ answers[p] = <<>>

\* A question goes down a pipe with no other question and no unread answer in
\* it: what an abandoned exchange left is never there to be read, unless the
\* checker itself wrote out of turn (the close() after every failure).
QuietPipe ==
    \A t \in Threads :
        pc[t] \in {"write", "fill"} /\ chatter = 0 => Quiet(proc[t])

\* No checker process is left running that no request can reach: the two
\* close() calls, one without the lock, race _start and each other.
NoOrphan ==
    \A p \in alive : p = process \/ \E t \in Threads : pc[t] \in {"shut", "reap"} /\ victim[t] = p

\* The steps of an exchange, from the lock to the answer.
Exchanging == {"start", "take", "write", "fill", "read", "readline", "close"}

\* A thread that exchanges holds the lock, and its process is in service unless
\* somebody stopped it; a thread that has an answer has its own.
Exchange ==
    /\ process <= starts
    /\ \A t \in Threads :
        /\ pc[t] \in Exchanging => lock = t
        /\ pc[t] \in {"write", "fill", "read", "readline"} =>
               /\ proc[t] \in Processes /\ proc[t] <= starts
               /\ process \in {proc[t], NoProcess}
        /\ pc[t] \in {"compare", "store", "judge"} => line[t].id = id[t]
        /\ pc[t] \in {"shut", "reap"} => victim[t] \in Processes

\* Before the checker's first line out of turn, one question or one answer is
\* all there is in the pipe of the exchange going on, and nothing in another
\* that is in service or still to be started.
PipeOwned ==
    chatter = 0 =>
        /\ \A p \in Processes : p > starts => Quiet(p)
        /\ process # NoProcess =>
               Quiet(process) \/ \E t \in Threads : pc[t] \in {"read", "readline", "close"}
        /\ \A t \in Threads :
            /\ pc[t] \in {"write", "fill"} => Quiet(proc[t])
            /\ pc[t] \in {"read", "readline"} =>
                   Len(questions[proc[t]]) + Len(answers[proc[t]]) = 1

\* The inductive invariant (with TypeOK): what _ask relies on at each step.
CheckerInv == Exchange /\ PipeOwned /\ VerdictsAreOwn /\ NoOrphan

\* Once the threads that found no version stored have stored theirs, the
\* version stands: a later answer that reports another is refused (_ask).
Settled ==
    /\ version # NoVersion
    /\ \A t \in Threads : pc[t] = "store" => line[t].version = version

VersionSettles == [][Settled => Settled' /\ version' = version]_vars

\* Whoever holds the pipe's lock gives it back, though the checker not answer,
\* die or be killed by another thread, unless it stops in the middle of a line
\* or in the middle of a question, where nothing limits the wait (_ask,
\* _read_line).
PipeComesFree ==
    \A t \in Threads :
        lock = t ~> \/ lock # t
                    \/ pc[t] = "readline" /\ proc[t] \in hung
                    \/ pc[t] = "fill" /\ proc[t] \in deaf

\* What the requests, the pipe and the processes agree on at every step: among
\* it that verdicts are a table's own and that no process is an orphan.
Consistent == TypeOK /\ CheckerInv /\ QuietPipe

=============================================================================
