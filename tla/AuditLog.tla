------------------------------ MODULE AuditLog ------------------------------
(***************************************************************************)
(* The audit log: a chain of rows in SQLite, the high-water mark in a file *)
(* beside it, and the servers that append to it, verify it and refuse to   *)
(* start on it.                                                            *)
(*                                                                         *)
(* append reads the head, inserts, commits, checkpoints the WAL and writes *)
(* the mark, all under one lock of its process; every one of these steps   *)
(* may raise and the process may die, or the power fail, between any two.  *)
(* One process per database holds the claim.  An operator may copy the     *)
(* database file and the mark at any time, put them back while no server   *)
(* runs, and pin the head a server publishes as the anchor.                *)
(*                                                                         *)
(* A MAC is the number of the insertion that computed it: the keyed hash   *)
(* binds a row to its predecessor, and no two rows share one.              *)
(***************************************************************************)
EXTENDS Integers, Sequences, FiniteSets

CONSTANTS
    Procs,          \* server processes that may be started on the database
    NoProc,         \* the holder of a free claim
    Workers,        \* their threads
    NoWorker,       \* the holder of a free lock
    ProcOf,         \* the process each thread belongs to
    Faults,         \* which failures happen: a subset of FaultKinds
    AllowUnmarked,  \* SAFETRE_ALLOW_UNMARKED_CHAIN
    MaxRows,        \* bound: rows in the log
    MaxMac,         \* bound: insertions ever made
    MaxCrashes,     \* bound: how often a process dies
    MaxRestores     \* bound: how often a copy is put back

FaultKinds ==
    { "insert", "commit", "checkpoint", "mark", "sync",    \* that call raises
      "reader" }    \* another connection holds a read transaction

ASSUME AuditAssumption ==
    /\ NoProc \notin Procs
    /\ NoWorker \notin Workers
    /\ ProcOf \in [Workers -> Procs]
    /\ Faults \subseteq FaultKinds
    /\ AllowUnmarked \in BOOLEAN
    /\ MaxRows \in Nat /\ MaxMac \in Nat /\ MaxCrashes \in Nat /\ MaxRestores \in Nat

Genesis == 0        \* the head of an empty chain
NoMark == 0         \* the mark's file is missing
NoAnchor == 0       \* SAFETRE_AUDIT_HEAD_ANCHOR is not set

Row == [prev: Nat, mac: Nat]

VARIABLES
    rows,       \* the committed rows, oldest first
    inFile,     \* how many of them are in the database file, not only the WAL
    mark,       \* the high-water mark's file
    synced,     \* the mark a power cut would leave
    unsaved,    \* process -> rows inserted in its open transaction
    claim,      \* the process holding the claim
    phase,      \* process -> "down", "claimed", "verified", "serving", "refused"
    lock,       \* process -> the thread holding AuditLog._lock
    pc,         \* thread -> the step of append or verify it takes next
    prev,       \* thread -> the head append read
    mac,        \* thread -> the MAC append computed
    snap,       \* thread -> the rows and the mark verify read
    anchor,     \* the anchor the operator has configured
    used,       \* process -> the anchor it was started with
    copy        \* the operator's copy of the database file and of the mark

VARIABLES       \* history variables: nothing in the program reads them
    nextMac,    \* the next insertion's number
    acked,      \* MACs append has returned
    pinned,     \* the chain up to the anchor, when its head was published
    restored,   \* what was put back: the "file" alone, or both files "rewound"
    alarm,      \* verify has answered FALSE
    crashes, restores

disk == <<rows, inFile, mark, synced>>
threads == <<pc, prev, mac, snap>>
operator == <<anchor, copy, pinned, restored, restores>>
vars == <<disk, unsaved, claim, phase, lock, threads, used, operator,
          nextMac, acked, alarm, crashes>>

-----------------------------------------------------------------------------
Macs(chain) == {chain[i].mac : i \in DOMAIN chain}

HeadOf(chain) == IF chain = <<>> THEN Genesis ELSE chain[Len(chain)].mac

\* What process p's connection reads: its own open transaction included.
Visible(p) == rows \o unsaved[p]

ChainHead(p) == HeadOf(Visible(p))

Linked(chain) ==
    \A i \in DOMAIN chain :
        chain[i].prev = IF i = 1 THEN Genesis ELSE chain[i - 1].mac

\* Mutants: a missing mark has nothing to check; the mark's verdict is final.
VerifyMissingMarkPasses(chain, seen, expected) ==
    /\ Linked(chain)
    /\ seen # NoMark => seen \in Macs(chain)
    /\ expected # NoAnchor => expected \in Macs(chain)

VerifyMarkIsFinal(chain, seen, expected) ==
    /\ Linked(chain)
    /\ IF seen = NoMark THEN chain = <<>> \/ AllowUnmarked
                        ELSE seen \in Macs(chain)

\* The three questions of verify: consistent, not truncated, still anchored.
Verify(chain, seen, expected) ==
    /\ Linked(chain)
    /\ IF seen = NoMark THEN chain = <<>> \/ AllowUnmarked
                        ELSE seen \in Macs(chain)
    /\ expected # NoAnchor => expected \in Macs(chain)

PerProc(v) == [p \in Procs |-> v]
PerWorker(v) == [w \in Workers |-> v]

Init ==
    /\ rows = <<>> /\ inFile = 0 /\ mark = NoMark /\ synced = NoMark
    /\ unsaved = PerProc(<<>>)
    /\ claim = NoProc /\ phase = PerProc("down") /\ lock = PerProc(NoWorker)
    /\ pc = PerWorker("idle") /\ prev = PerWorker(Genesis) /\ mac = PerWorker(0)
    /\ snap = PerWorker([chain |-> <<>>, mark |-> NoMark])
    /\ anchor = NoAnchor /\ used = PerProc(NoAnchor)
    /\ copy = [chain |-> <<>>, mark |-> NoMark]
    /\ nextMac = 1 /\ acked = {} /\ pinned = <<>> /\ restored = {}
    /\ alarm = FALSE /\ crashes = 0 /\ restores = 0

-----------------------------------------------------------------------------
(***************************************************************************)
(* Start-up of a server.                                                   *)
(***************************************************************************)

\* Mutant: nothing checks for a second server.
ClaimUnchecked(p) ==
    /\ phase[p] = "down"
    /\ claim' = p
    /\ phase' = [phase EXCEPT ![p] = "claimed"]
    /\ UNCHANGED <<disk, unsaved, lock, threads, used, operator, nextMac, acked,
                   alarm, crashes>>

\* claim_exclusive: the flock is free, or the start fails.
Claim(p) ==
    /\ phase[p] = "down"
    /\ claim = NoProc
    /\ claim' = p
    /\ phase' = [phase EXCEPT ![p] = "claimed"]
    /\ UNCHANGED <<disk, unsaved, lock, threads, used, operator, nextMac, acked,
                   alarm, crashes>>

\* rehydrate verifies the chain first; on a failure the process exits and the
\* kernel drops the claim.
Start(p) ==
    /\ phase[p] = "claimed"
    /\ used' = [used EXCEPT ![p] = anchor]
    /\ IF Verify(Visible(p), mark, anchor)
       THEN /\ phase' = [phase EXCEPT ![p] = "verified"]
            /\ UNCHANGED claim
       ELSE /\ phase' = [phase EXCEPT ![p] = "refused"]
            /\ claim' = NoProc
    /\ UNCHANGED <<disk, unsaved, lock, threads, operator, nextMac, acked, alarm,
                   crashes>>

\* The operator starts a refused server again.
Retry(p) ==
    /\ phase[p] = "refused"
    /\ phase' = [phase EXCEPT ![p] = "down"]
    /\ UNCHANGED <<disk, unsaved, claim, lock, threads, used, operator, nextMac,
                   acked, alarm, crashes>>

-----------------------------------------------------------------------------
(***************************************************************************)
(* append.  The first append of a server is its policy record, and the     *)
(* server serves once it is written.                                       *)
(***************************************************************************)
Begin(w) ==
    LET p == ProcOf[w] IN
    /\ pc[w] = "idle"
    /\ \/ phase[p] = "serving"
       \/ phase[p] = "verified" /\ \A o \in Workers : ProcOf[o] = p => pc[o] = "idle"
    /\ lock[p] = NoWorker
    /\ Len(Visible(p)) < MaxRows /\ nextMac <= MaxMac
    /\ lock' = [lock EXCEPT ![p] = w]
    /\ prev' = [prev EXCEPT ![w] = ChainHead(p)]
    /\ pc' = [pc EXCEPT ![w] = "insert"]
    /\ UNCHANGED <<disk, unsaved, claim, phase, mac, snap, used, operator, nextMac,
                   acked, alarm, crashes>>

\* SQLite admits one writing transaction at a time.
Insert(w) ==
    LET p == ProcOf[w] IN
    /\ pc[w] = "insert"
    /\ \A o \in Procs \ {p} : unsaved[o] = <<>>
    /\ unsaved' = [unsaved EXCEPT ![p] = Append(@, [prev |-> prev[w], mac |-> nextMac])]
    /\ mac' = [mac EXCEPT ![w] = nextMac]
    /\ nextMac' = nextMac + 1
    /\ pc' = [pc EXCEPT ![w] = "commit"]
    /\ UNCHANGED <<disk, claim, phase, lock, prev, snap, used, operator, acked,
                   alarm, crashes>>

\* Mutant: the mark is written before the row is committed.
CommitMarksFirst(w) ==
    /\ pc[w] = "commit"
    /\ mark' = mac[w]
    /\ pc' = [pc EXCEPT ![w] = "checkpoint"]
    /\ UNCHANGED <<rows, inFile, synced, unsaved, claim, phase, lock, prev, mac,
                   snap, used, operator, nextMac, acked, alarm, crashes>>

\* Everything in the open transaction, rows of a commit that failed included.
Commit(w) ==
    LET p == ProcOf[w] IN
    /\ pc[w] = "commit"
    /\ rows' = Visible(p)
    /\ unsaved' = [unsaved EXCEPT ![p] = <<>>]
    /\ pc' = [pc EXCEPT ![w] = "checkpoint"]
    /\ UNCHANGED <<inFile, mark, synced, claim, phase, lock, prev, mac, snap, used,
                   operator, nextMac, acked, alarm, crashes>>

\* Mutant: rows stay in the WAL.
CheckpointSkipped(w) ==
    /\ pc[w] = "checkpoint"
    /\ pc' = [pc EXCEPT ![w] = "mark"]
    /\ UNCHANGED <<disk, unsaved, claim, phase, lock, prev, mac, snap, used,
                   operator, nextMac, acked, alarm, crashes>>

\* wal_checkpoint(TRUNCATE).  Behind another connection's read transaction it
\* copies what that reader has seen and reports "busy" in a row nobody reads.
Checkpoint(w) ==
    /\ pc[w] = "checkpoint"
    /\ inFile' \in IF "reader" \in Faults THEN inFile..Len(rows) ELSE {Len(rows)}
    /\ pc' = [pc EXCEPT ![w] = "mark"]
    /\ UNCHANGED <<rows, mark, synced, unsaved, claim, phase, lock, prev, mac, snap,
                   used, operator, nextMac, acked, alarm, crashes>>

\* The temporary file is synced and renamed over the mark.
WriteMark(w) ==
    /\ pc[w] = "mark"
    /\ mark' = mac[w]
    /\ pc' = [pc EXCEPT ![w] = "sync"]
    /\ UNCHANGED <<rows, inFile, synced, unsaved, claim, phase, lock, prev, mac,
                   snap, used, operator, nextMac, acked, alarm, crashes>>

\* The directory is synced and append returns the MAC.
Finish(w) ==
    LET p == ProcOf[w] IN
    /\ pc[w] = "sync"
    /\ synced' = mark
    /\ acked' = acked \cup {mac[w]}
    /\ lock' = [lock EXCEPT ![p] = NoWorker]
    /\ phase' = [phase EXCEPT ![p] = "serving"]
    /\ pc' = [pc EXCEPT ![w] = "idle"]
    /\ UNCHANGED <<rows, inFile, mark, unsaved, claim, prev, mac, snap, used,
                   operator, nextMac, alarm, crashes>>

\* Mutant: an exception leaves the lock taken.
FailLocked(w) ==
    /\ pc[w] \in {"insert", "commit", "checkpoint", "mark", "sync"}
    /\ pc[w] \in Faults
    /\ pc' = [pc EXCEPT ![w] = "idle"]
    /\ UNCHANGED <<disk, unsaved, claim, phase, lock, prev, mac, snap, used,
                   operator, nextMac, acked, alarm, crashes>>

\* The step raises and `with self._lock` is left.  Whether SQLite rolls a
\* failed commit back is its own affair.  During start-up the exception ends
\* the process, and with it the transaction and the claim.
Fail(w) ==
    LET p == ProcOf[w]
        busy == \E o \in Procs \ {p} : unsaved[o] # <<>>
        starting == phase[p] = "verified"
    IN
    /\ pc[w] \in {"insert", "commit", "checkpoint", "mark", "sync"}
    /\ pc[w] \in Faults \cup (IF busy THEN {"insert"} ELSE {})
    /\ unsaved' \in IF starting THEN {[unsaved EXCEPT ![p] = <<>>]}
                    ELSE {unsaved} \cup
                         (IF pc[w] = "commit" THEN {[unsaved EXCEPT ![p] = <<>>]} ELSE {})
    /\ lock' = [lock EXCEPT ![p] = NoWorker]
    /\ pc' = [pc EXCEPT ![w] = "idle"]
    /\ IF starting
       THEN /\ phase' = [phase EXCEPT ![p] = "down"]
            /\ claim' = NoProc
       ELSE UNCHANGED <<phase, claim>>
    /\ UNCHANGED <<disk, prev, mac, snap, used, operator, nextMac, acked, alarm,
                   crashes>>

-----------------------------------------------------------------------------
(***************************************************************************)
(* The verification endpoint: verify, then the head.                       *)
(***************************************************************************)

\* The rows and the mark are read under one acquisition of the lock.
VerifyRead(w) ==
    LET p == ProcOf[w] IN
    /\ phase[p] = "serving"
    /\ pc[w] = "idle"
    /\ lock[p] = NoWorker
    /\ snap' = [snap EXCEPT ![w] = [chain |-> Visible(p), mark |-> mark]]
    /\ pc' = [pc EXCEPT ![w] = "recompute"]
    /\ UNCHANGED <<disk, unsaved, claim, phase, lock, prev, mac, used, operator,
                   nextMac, acked, alarm, crashes>>

\* Mutant: the mark is read after the recomputation, without the lock.
MarkReadLate(w) == mark

MarkRead(w) == snap[w].mark

Recompute(w) ==
    LET ok == Verify(snap[w].chain, MarkRead(w), used[ProcOf[w]]) IN
    /\ pc[w] = "recompute"
    /\ alarm' = (alarm \/ ~ok)
    /\ snap' = [snap EXCEPT ![w] = [chain |-> <<>>, mark |-> NoMark]]
    /\ pc' = [pc EXCEPT ![w] = "publish"]
    /\ UNCHANGED <<disk, unsaved, claim, phase, lock, prev, mac, used, operator,
                   nextMac, acked, crashes>>

\* The head is read under the lock again; the operator may pin it.
PublishHead(w, pin) ==
    LET p == ProcOf[w] IN
    /\ pc[w] = "publish"
    /\ lock[p] = NoWorker
    /\ IF pin
       THEN anchor' = ChainHead(p) /\ pinned' = Visible(p)
       ELSE UNCHANGED <<anchor, pinned>>
    /\ pc' = [pc EXCEPT ![w] = "idle"]
    /\ UNCHANGED <<disk, unsaved, claim, phase, lock, prev, mac, snap, used, copy,
                   restored, restores, nextMac, acked, alarm, crashes>>

-----------------------------------------------------------------------------
(***************************************************************************)
(* Crashes, copies and restores.                                           *)
(***************************************************************************)

\* The process dies; with a power cut an unsynced rename is lost as well.
Crash(p, left) ==
    LET mine == {w \in Workers : ProcOf[w] = p} IN
    /\ crashes < MaxCrashes
    /\ phase[p] \in {"claimed", "verified", "serving"}
    /\ crashes' = crashes + 1
    /\ mark' = left /\ synced' = left
    /\ unsaved' = [unsaved EXCEPT ![p] = <<>>]
    /\ claim' = IF claim = p THEN NoProc ELSE claim
    /\ phase' = [phase EXCEPT ![p] = "down"]
    /\ lock' = [lock EXCEPT ![p] = NoWorker]
    /\ pc' = [w \in Workers |-> IF w \in mine THEN "idle" ELSE pc[w]]
    /\ snap' = [w \in Workers |-> IF w \in mine THEN [chain |-> <<>>, mark |-> NoMark]
                                  ELSE snap[w]]
    /\ UNCHANGED <<rows, inFile, prev, mac, used, operator, nextMac, acked, alarm>>

\* Two files, copied one at a time.
CopyFile ==
    /\ restores < MaxRestores
    /\ copy' = [copy EXCEPT !.chain = SubSeq(rows, 1, inFile)]
    /\ UNCHANGED <<disk, unsaved, claim, phase, lock, threads, used, anchor, pinned,
                   restored, restores, nextMac, acked, alarm, crashes>>

CopyMark ==
    /\ restores < MaxRestores
    /\ copy' = [copy EXCEPT !.mark = mark]
    /\ UNCHANGED <<disk, unsaved, claim, phase, lock, threads, used, anchor, pinned,
                   restored, restores, nextMac, acked, alarm, crashes>>

\* The copy is put back: beside the mark that is there, on a host that has
\* none, or together with the copy of the mark.
Restore(left) ==
    /\ restores < MaxRestores
    /\ \A p \in Procs : phase[p] \in {"down", "refused"}
    /\ restores' = restores + 1
    /\ rows' = copy.chain /\ inFile' = Len(copy.chain)
    /\ mark' = left /\ synced' = left
    /\ restored' = restored \cup
                   {IF left \in {mark, NoMark} /\ ~(left = NoMark /\ copy.chain = <<>>)
                    THEN "file" ELSE "rewound"}
    /\ UNCHANGED <<unsaved, claim, phase, lock, threads, used, anchor, copy, pinned,
                   nextMac, acked, alarm, crashes>>

-----------------------------------------------------------------------------
Step(w) ==
    \/ Insert(w)
    \/ Commit(w)
    \/ Checkpoint(w)
    \/ WriteMark(w)
    \/ Finish(w)
    \/ Fail(w)
    \/ Recompute(w)
    \/ \E pin \in BOOLEAN : PublishHead(w, pin)

Next ==
    \/ \E p \in Procs : Claim(p) \/ Start(p) \/ Retry(p)
    \/ \E w \in Workers : Begin(w) \/ VerifyRead(w) \/ Step(w)
    \/ \E p \in Procs, left \in {mark, synced} : Crash(p, left)
    \/ CopyFile
    \/ CopyMark
    \/ \E left \in {mark, NoMark, copy.mark} : Restore(left)

Spec == Init /\ [][Next]_vars

\* A call that has begun keeps running.  Requests need not arrive.
FairSpec == Spec /\ \A w \in Workers : WF_vars(Step(w))

-----------------------------------------------------------------------------
(***************************************************************************)
(* Properties.                                                             *)
(***************************************************************************)

\* Every variable keeps its type; the database file is never ahead of the rows.
TypeOK ==
    /\ rows \in Seq(Row) /\ inFile \in Nat /\ inFile <= Len(rows)
    /\ mark \in Nat /\ synced \in Nat
    /\ unsaved \in [Procs -> Seq(Row)]
    /\ claim \in Procs \cup {NoProc}
    /\ phase \in [Procs -> {"down", "claimed", "verified", "serving", "refused"}]
    /\ lock \in [Procs -> Workers \cup {NoWorker}]
    /\ pc \in [Workers -> {"idle", "insert", "commit", "checkpoint", "mark", "sync",
                           "recompute", "publish"}]
    /\ prev \in [Workers -> Nat] /\ mac \in [Workers -> Nat]
    /\ snap \in [Workers -> [chain: Seq(Row), mark: Nat]]
    /\ anchor \in Nat /\ used \in [Procs -> Nat]
    /\ copy \in [chain: Seq(Row), mark: Nat]
    /\ nextMac \in Nat \ {0}
    /\ acked \subseteq Nat
    /\ pinned \in Seq(Row)
    /\ restored \subseteq {"file", "rewound"}
    /\ alarm \in BOOLEAN
    /\ crashes \in Nat /\ restores \in Nat

\* Whatever raised and whenever the process died, a log that has a mark and
\* was not put back from a copy verifies: two appends never take the same
\* head, and the mark is never ahead of the rows (#81, #83).
VerifiesOnceMarked ==
    restored = {} /\ mark # NoMark => Verify(rows, mark, NoAnchor)

\* A running server never reports its own log as tampered with: the endpoint
\* reads rows and mark under one lock (#84).
NoFalseAlarm == ~alarm

\* A server only serves a log that still holds every row append has ever
\* returned, unless rows and mark were wound back together or the operator has
\* waived the mark (P15, #82).
AckedSurvive ==
    ~AllowUnmarked /\ "rewound" \notin restored =>
        \A p \in Procs :
            phase[p] \in {"verified", "serving"} => acked \subseteq Macs(rows)

\* A server started with an anchor has the whole chain up to the row that was
\* head when the anchor was published, whatever was put back (P15, #75).
AnchoredRowsKept ==
    \A p \in Procs :
        phase[p] \in {"verified", "serving"} /\ used[p] # NoAnchor /\ used[p] = anchor =>
            /\ Len(pinned) <= Len(Visible(p))
            /\ SubSeq(Visible(p), 1, Len(pinned)) = pinned

\* Between appends the database file alone holds every row append has
\* returned: a copy of the file is a copy of the log (P15, #78).
CopyComplete ==
    restored = {} => acked \subseteq Macs(SubSeq(rows, 1, inFile))

\* append gives the lock back whatever raises, so the log never blocks.
AppendEnds ==
    \A p \in Procs : lock[p] # NoWorker ~> lock[p] = NoWorker

-----------------------------------------------------------------------------
(***************************************************************************)
(* Why they hold: the conjuncts of an inductive invariant (AuditLogProofs  *)
(* has the proof).                                                         *)
(***************************************************************************)
AppendSteps == {"insert", "commit", "checkpoint", "mark", "sync"}

\* p has verified the log and may append to it.
Up(p) == phase[p] \in {"verified", "serving"}

OneServer == \A p \in Procs : phase[p] \in {"claimed", "verified", "serving"} <=> claim = p

Serialised ==
    /\ \A w \in Workers :
           /\ pc[w] # "idle" => Up(ProcOf[w])
           /\ pc[w] \in {"recompute", "publish"} => phase[ProcOf[w]] = "serving"
           /\ pc[w] \in AppendSteps <=> lock[ProcOf[w]] = w
    /\ \A p \in Procs : lock[p] # NoWorker => ProcOf[lock[p]] = p
    /\ \A p \in Procs : unsaved[p] # <<>> => Up(p)

\* A chain of insertions below n, in their order.
Sound(chain, n) ==
    /\ Linked(chain)
    /\ \A i \in DOMAIN chain : 1 <= chain[i].mac /\ chain[i].mac < n
    /\ \A i, j \in DOMAIN chain : i < j => chain[i].mac < chain[j].mac

ChainsSound ==
    /\ Sound(rows, nextMac) /\ Sound(copy.chain, nextMac)
    /\ \A p \in Procs : Sound(Visible(p), nextMac)

InFlight ==
    \A w \in Workers :
        /\ pc[w] = "insert" => prev[w] = ChainHead(ProcOf[w])
        /\ pc[w] \in AppendSteps \ {"insert"} => mac[w] + 1 = nextMac
        /\ pc[w] = "commit" => mac[w] \in Macs(Visible(ProcOf[w]))
        /\ pc[w] \in {"checkpoint", "mark", "sync"} => mac[w] \in Macs(rows)
        /\ pc[w] = "sync" => mark = mac[w]

\* The mark is never ahead of the rows, and what a server runs on verifies.
Marked ==
    /\ restored = {} => {mark, synced} \ {NoMark} \subseteq Macs(rows)
    /\ \A p \in Procs :
           /\ Up(p) => {mark, used[p]} \ {NoMark} \subseteq Macs(rows)
           /\ phase[p] = "serving" => mark # NoMark

\* A chain with one of an append's successors has its row.
Covers(chain) == \A m \in Macs(chain), a \in acked : a <= m => a \in Macs(chain)

\* The mark is never behind what append has returned, or is lost beside rows.
Acknowledged ==
    ~AllowUnmarked /\ "rewound" \notin restored =>
        /\ acked \subseteq 1 .. nextMac - 1
        /\ Covers(rows) /\ Covers(copy.chain)
        /\ \A p \in Procs : Up(p) => acked \subseteq Macs(rows)
        /\ \/ \A a \in acked : a <= mark /\ a <= synced
           \/ /\ mark = NoMark /\ synced = NoMark /\ rows # <<>>
              /\ \A p \in Procs : ~Up(p)

Scanned ==
    /\ ~alarm
    /\ \A w \in Workers : pc[w] = "recompute" =>
           Verify(snap[w].chain, snap[w].mark, used[ProcOf[w]])

\* What the servers, the rows and the mark agree on at every step.
AuditInv ==
    /\ OneServer /\ Serialised /\ ChainsSound /\ InFlight /\ Marked
    /\ Acknowledged /\ Scanned

\* A row is in the file before its mark is written, unless a reader is in the way.
CopiedOut ==
    restored = {} /\ "reader" \notin Faults =>
        /\ acked \subseteq Macs(SubSeq(rows, 1, inFile))
        /\ \A w \in Workers :
               pc[w] \in {"mark", "sync"} => mac[w] \in Macs(SubSeq(rows, 1, inFile))

\* Every chain there is: on disk, in a server, in the operator's hands.
Chains == {rows, copy.chain, pinned} \cup {Visible(p) : p \in Procs}

\* Two chains with one row in common are one chain up to that row.
Agree(c, d) ==
    \A i \in DOMAIN c, j \in DOMAIN d :
        c[i].mac = d[j].mac => i = j /\ \A k \in 1 .. i : c[k] = d[k]

\* The anchor stands for the chain up to it, and only for that chain.
Anchored ==
    /\ anchor = HeadOf(pinned) /\ Sound(pinned, nextMac)
    /\ \A c, d \in Chains : Agree(c, d)

\* What the servers, the rows and the mark agree on at every step, failures,
\* restores and restarts included; what is in the file; what the anchor names.
Consistent == TypeOK /\ AuditInv /\ CopiedOut /\ Anchored

=============================================================================
