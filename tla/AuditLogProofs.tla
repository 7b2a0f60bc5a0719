--------------------------- MODULE AuditLogProofs ---------------------------
(***************************************************************************)
(* Proofs about AuditLog, for every set of processes and threads, every    *)
(* set of failures and any number of crashes and restores.                 *)
(***************************************************************************)
EXTENDS AuditLog, SequenceTheorems, TLAPS

-----------------------------------------------------------------------------
(***************************************************************************)
(* Chains.                                                                 *)
(***************************************************************************)

LEMMA RowAt ==
    ASSUME NEW chain \in Seq(Row)
    PROVE  /\ Len(chain) \in Nat
           /\ DOMAIN chain = 1 .. Len(chain)
           /\ \A i \in DOMAIN chain :
                  chain[i] \in Row /\ chain[i].mac \in Nat /\ chain[i].prev \in Nat
<1>1. Len(chain) \in Nat /\ DOMAIN chain = 1 .. Len(chain)
    BY LenProperties
<1>2. \A i \in DOMAIN chain : chain[i] \in Row
    BY <1>1, ElementOfSeq
<1> QED BY <1>1, <1>2 DEF Row

LEMMA HeadOfTyped ==
    ASSUME NEW chain \in Seq(Row)
    PROVE  /\ HeadOf(chain) \in Nat
           /\ HeadOf(chain) # Genesis => HeadOf(chain) \in Macs(chain)
<1>1. CASE chain = <<>>
    BY <1>1 DEF HeadOf, Genesis
<1>2. CASE chain # <<>>
    <2>1. Len(chain) \in DOMAIN chain
        BY <1>2, EmptySeq, RowAt
    <2> QED BY <1>2, <2>1, RowAt DEF HeadOf, Macs
<1> QED BY <1>1, <1>2

LEMMA MacsOfEmpty == Macs(<<>>) = {}
    BY DEF Macs

LEMMA MacsOfAppend ==
    ASSUME NEW chain \in Seq(Row), NEW row \in Row
    PROVE  Macs(Append(chain, row)) = Macs(chain) \cup {row.mac}
<1> DEFINE longer == Append(chain, row)
<1>1. /\ longer \in Seq(Row) /\ Len(longer) = Len(chain) + 1
      /\ \A i \in 1 .. Len(chain) : longer[i] = chain[i]
      /\ longer[Len(chain) + 1] = row
    BY AppendProperties
<1>2. /\ DOMAIN longer = 1 .. Len(chain) + 1 /\ DOMAIN chain = 1 .. Len(chain)
      /\ Len(chain) \in Nat
    BY <1>1, RowAt
<1> HIDE DEF longer
<1> QED BY <1>1, <1>2 DEF Macs, longer

LEMMA MacsOfConcat ==
    ASSUME NEW s \in Seq(Row), NEW t \in Seq(Row)
    PROVE  Macs(s) \subseteq Macs(s \o t)
<1>1. /\ s \o t \in Seq(Row) /\ Len(s \o t) = Len(s) + Len(t)
      /\ \A i \in 1 .. Len(s) + Len(t) :
             (s \o t)[i] = IF i <= Len(s) THEN s[i] ELSE t[i - Len(s)]
    BY ConcatProperties
<1>2. /\ Len(s) \in Nat /\ Len(t) \in Nat /\ DOMAIN s = 1 .. Len(s)
      /\ DOMAIN (s \o t) = 1 .. Len(s) + Len(t)
    BY <1>1, RowAt
<1>3. \A i \in DOMAIN s : i \in DOMAIN (s \o t) /\ (s \o t)[i] = s[i]
    BY <1>1, <1>2
<1> QED BY <1>3 DEF Macs

LEMMA PrefixFacts ==
    ASSUME NEW chain \in Seq(Row), NEW k \in Nat, k <= Len(chain)
    PROVE  /\ SubSeq(chain, 1, k) \in Seq(Row)
           /\ DOMAIN SubSeq(chain, 1, k) = 1 .. k
           /\ 1 .. k \subseteq DOMAIN chain
           /\ \A i \in 1 .. k : SubSeq(chain, 1, k)[i] = chain[i]
<1>1. Len(chain) \in Nat /\ DOMAIN chain = 1 .. Len(chain)
      /\ \A i \in 1 .. k : chain[i] \in Row
    BY RowAt
<1>2. /\ SubSeq(chain, 1, k) \in Seq(Row)
      /\ Len(SubSeq(chain, 1, k)) = IF 1 <= k THEN k - 1 + 1 ELSE 0
      /\ \A i \in 1 .. k - 1 + 1 : SubSeq(chain, 1, k)[i] = chain[1 + i - 1]
    <2>1. 1 \in Int /\ k \in Int
        OBVIOUS
    <2> QED BY <1>1, <2>1, SubSeqProperties
<1>3. Len(SubSeq(chain, 1, k)) = k
    BY <1>2
<1>4. DOMAIN SubSeq(chain, 1, k) = 1 .. k
    BY <1>2, <1>3, LenProperties
<1>5. \A i \in 1 .. k : SubSeq(chain, 1, k)[i] = chain[i]
    BY <1>2
<1> QED BY <1>1, <1>2, <1>4, <1>5

LEMMA SoundEmpty == ASSUME NEW n \in Nat PROVE Sound(<<>>, n)
    BY DEF Sound, Linked

LEMMA SoundLater ==
    ASSUME NEW chain \in Seq(Row), NEW n \in Nat, NEW m \in Nat, n <= m, Sound(chain, n)
    PROVE  Sound(chain, m)
    BY RowAt DEF Sound

LEMMA SoundPrefix ==
    ASSUME NEW chain \in Seq(Row), NEW n \in Nat, Sound(chain, n),
           NEW k \in Nat, k <= Len(chain)
    PROVE  Sound(SubSeq(chain, 1, k), n)
<1> DEFINE prefix == SubSeq(chain, 1, k)
<1>1. /\ DOMAIN prefix = 1 .. k /\ 1 .. k \subseteq DOMAIN chain
      /\ \A i \in 1 .. k : prefix[i] = chain[i]
    BY PrefixFacts
<1> HIDE DEF prefix
<1>2. \A i \in 1 .. k : i = 1 \/ i - 1 \in 1 .. k
    OBVIOUS
<1>3. Linked(prefix)
    BY <1>1, <1>2 DEF Linked, Sound
<1>4. Sound(prefix, n)
    BY <1>1, <1>3 DEF Sound
<1> QED BY <1>4 DEF prefix

\* A chain grows by a row that names its head and the next number.
LEMMA SoundAppend ==
    ASSUME NEW chain \in Seq(Row), NEW n \in Nat \ {0}, Sound(chain, n)
    PROVE  Sound(Append(chain, [prev |-> HeadOf(chain), mac |-> n]), n + 1)
<1> DEFINE row == [prev |-> HeadOf(chain), mac |-> n]
           longer == Append(chain, row)
           len == Len(chain)
<1>0. row \in Row /\ row.mac = n /\ row.prev = HeadOf(chain)
    BY HeadOfTyped DEF Row
<1> HIDE DEF row
<1>1. /\ longer \in Seq(Row) /\ Len(longer) = len + 1
      /\ \A i \in 1 .. len : longer[i] = chain[i]
      /\ longer[len + 1] = row
    BY <1>0, AppendProperties
<1>2. /\ DOMAIN longer = 1 .. len + 1 /\ DOMAIN chain = 1 .. len /\ len \in Nat
      /\ \A i \in 1 .. len : chain[i].mac \in Nat
    BY <1>1, RowAt
<1>3. HeadOf(chain) = IF len = 0 THEN Genesis ELSE chain[len].mac
    BY EmptySeq DEF HeadOf
<1> HIDE DEF longer, len
<1>4. Linked(longer)
    <2> SUFFICES ASSUME NEW i \in DOMAIN longer
                 PROVE  longer[i].prev = IF i = 1 THEN Genesis ELSE longer[i - 1].mac
        BY DEF Linked
    <2>1. CASE i \in 1 .. len
        <3>1. chain[i].prev = IF i = 1 THEN Genesis ELSE chain[i - 1].mac
            BY <1>2, <2>1 DEF Sound, Linked
        <3>2. i # 1 => i - 1 \in 1 .. len
            BY <1>2, <2>1
        <3> QED BY <1>1, <2>1, <3>1, <3>2
    <2>2. CASE i = len + 1
        <3>1. i # 1 => i - 1 \in 1 .. len /\ len # 0 /\ i - 1 = len
            BY <1>2, <2>2
        <3>2. i = 1 => len = 0
            BY <1>2, <2>2
        <3> QED BY <1>0, <1>1, <1>3, <2>2, <3>1, <3>2
    <2> QED BY <1>2, <2>1, <2>2
<1>5. \A i \in 1 .. len : 1 <= longer[i].mac /\ longer[i].mac < n
    BY <1>1, <1>2 DEF Sound
<1>6. \A i \in DOMAIN longer : 1 <= longer[i].mac /\ longer[i].mac < n + 1
    BY <1>0, <1>1, <1>2, <1>5
<1>7. ASSUME NEW i \in DOMAIN longer, NEW j \in DOMAIN longer, i < j
      PROVE  longer[i].mac < longer[j].mac
    <2>1. i \in 1 .. len
        BY <1>2, <1>7
    <2>2. CASE j \in 1 .. len
        BY <1>1, <1>2, <1>7, <2>1, <2>2 DEF Sound
    <2>3. CASE j = len + 1
        BY <1>0, <1>1, <1>5, <2>1, <2>3
    <2> QED BY <1>2, <2>2, <2>3
<1>8. Sound(longer, n + 1)
    BY <1>4, <1>6, <1>7 DEF Sound
<1> QED BY <1>8 DEF longer, row

\* In a sound chain a prefix holds everything older than what it holds.
LEMMA PrefixClosed ==
    ASSUME NEW chain \in Seq(Row), NEW n \in Nat, Sound(chain, n),
           NEW k \in Nat, k <= Len(chain),
           NEW m \in Macs(SubSeq(chain, 1, k)), NEW a \in Macs(chain), a <= m
    PROVE  a \in Macs(SubSeq(chain, 1, k))
<1> DEFINE prefix == SubSeq(chain, 1, k)
<1>1. /\ DOMAIN prefix = 1 .. k /\ 1 .. k \subseteq DOMAIN chain
      /\ \A i \in 1 .. k : prefix[i] = chain[i]
    BY PrefixFacts
<1>2. DOMAIN chain = 1 .. Len(chain) /\ Len(chain) \in Nat
      /\ \A i \in DOMAIN chain : chain[i].mac \in Nat
    BY RowAt
<1>3. m \in Macs(prefix)
    OBVIOUS
<1> HIDE DEF prefix
<1>4. PICK i \in 1 .. k : chain[i].mac = m
    BY <1>1, <1>3 DEF Macs
<1>5. PICK j \in DOMAIN chain : chain[j].mac = a
    BY DEF Macs
<1>6. ~(i < j)
    <2> SUFFICES ASSUME i < j PROVE FALSE
        OBVIOUS
    <2>1. chain[i].mac < chain[j].mac
        BY <1>1, <1>4, <1>5 DEF Sound
    <2> QED BY <1>1, <1>2, <1>4, <1>5, <2>1
<1>7. j \in 1 .. k
    BY <1>2, <1>4, <1>5, <1>6
<1>8. a \in Macs(prefix)
    BY <1>1, <1>5, <1>7 DEF Macs
<1> QED BY <1>8 DEF prefix

-----------------------------------------------------------------------------
(***************************************************************************)
(* Types.                                                                  *)
(***************************************************************************)

LEMMA VisibleTyped ==
    ASSUME TypeOK, NEW p \in Procs
    PROVE  Visible(p) \in Seq(Row) /\ ChainHead(p) \in Nat
<1>1. rows \in Seq(Row) /\ unsaved[p] \in Seq(Row)
    BY DEF TypeOK
<1>2. Visible(p) \in Seq(Row)
    BY <1>1, ConcatProperties DEF Visible
<1> QED BY <1>2, HeadOfTyped DEF ChainHead

\* What a commit that failed may have left.
LEMMA FailFacts ==
    ASSUME NEW w \in Workers, Fail(w), TypeOK
    PROVE  /\ pc[w] \in {"insert", "commit", "checkpoint", "mark", "sync"}
           /\ unsaved' = unsaved \/ unsaved' = [unsaved EXCEPT ![ProcOf[w]] = <<>>]
           /\ phase[ProcOf[w]] = "verified" =>
                  /\ unsaved' = [unsaved EXCEPT ![ProcOf[w]] = <<>>]
                  /\ phase' = [phase EXCEPT ![ProcOf[w]] = "down"]
                  /\ claim' = NoProc
           /\ phase[ProcOf[w]] # "verified" => phase' = phase /\ claim' = claim
           /\ lock' = [lock EXCEPT ![ProcOf[w]] = NoWorker]
           /\ pc' = [pc EXCEPT ![w] = "idle"]
    BY DEF Fail

LEMMA TypeInit == Init => TypeOK
<1>1. <<>> \in Seq(Row) /\ Len(<<>>) = 0
    BY EmptySeq
<1> SUFFICES ASSUME Init PROVE TypeOK
    OBVIOUS
<1>2. rows \in Seq(Row) /\ pinned \in Seq(Row) /\ inFile <= Len(rows)
      /\ unsaved \in [Procs -> Seq(Row)]
    BY <1>1 DEF Init, PerProc
<1>3. /\ snap \in [Workers -> [chain: Seq(Row), mark: Nat]]
      /\ copy \in [chain: Seq(Row), mark: Nat]
    BY <1>1 DEF Init, PerWorker, NoMark
<1>4. /\ phase \in [Procs -> {"down", "claimed", "verified", "serving", "refused"}]
      /\ lock \in [Procs -> Workers \cup {NoWorker}]
      /\ used \in [Procs -> Nat]
    BY DEF Init, PerProc, NoAnchor
<1>5. /\ pc \in [Workers -> {"idle", "insert", "commit", "checkpoint", "mark", "sync",
                             "recompute", "publish"}]
      /\ prev \in [Workers -> Nat] /\ mac \in [Workers -> Nat]
    BY DEF Init, PerWorker, Genesis
<1>6. /\ mark \in Nat /\ synced \in Nat /\ inFile \in Nat /\ anchor \in Nat
      /\ nextMac \in Nat \ {0} /\ crashes \in Nat /\ restores \in Nat
      /\ claim \in Procs \cup {NoProc}
    BY DEF Init, NoMark, NoAnchor
<1>7. alarm \in BOOLEAN /\ acked \subseteq Nat /\ restored \subseteq {"file", "rewound"}
    BY DEF Init
<1> QED BY <1>2, <1>3, <1>4, <1>5, <1>6, <1>7 DEF TypeOK

LEMMA TypeNext == TypeOK /\ [Next]_vars => TypeOK'
<1> SUFFICES ASSUME TypeOK, [Next]_vars PROVE TypeOK'
    OBVIOUS
<1> USE DEF disk, threads, operator
<1>1. CASE \E p \in Procs : Claim(p) \/ Start(p) \/ Retry(p)
    <2> PICK p \in Procs : Claim(p) \/ Start(p) \/ Retry(p)
        BY <1>1
    <2>1. CASE Claim(p)
        BY <2>1 DEF TypeOK, Claim
    <2>2. CASE Start(p)
        BY <2>2 DEF TypeOK, Start
    <2>3. CASE Retry(p)
        BY <2>3 DEF TypeOK, Retry
    <2> QED BY <2>1, <2>2, <2>3
<1>2. ASSUME NEW w \in Workers, Begin(w) \/ VerifyRead(w) PROVE TypeOK'
    <2> DEFINE p == ProcOf[w]
    <2>1. p \in Procs
        BY AuditAssumption
    <2>2. Visible(p) \in Seq(Row) /\ ChainHead(p) \in Nat
        BY <2>1, VisibleTyped
    <2>3. CASE Begin(w)
        <3>1. lock' = [lock EXCEPT ![p] = w] /\ prev' = [prev EXCEPT ![w] = ChainHead(p)]
              /\ pc' = [pc EXCEPT ![w] = "insert"]
              /\ UNCHANGED <<disk, unsaved, claim, phase, mac, snap, used, operator,
                             nextMac, acked, alarm, crashes>>
            BY <2>3 DEF Begin
        <3> HIDE DEF p
        <3> QED BY <2>1, <2>2, <3>1 DEF TypeOK
    <2>4. CASE VerifyRead(w)
        BY <2>1, <2>2, <2>4 DEF TypeOK, VerifyRead
    <2> QED BY <1>2, <2>3, <2>4
<1>3. ASSUME NEW w \in Workers, Step(w) PROVE TypeOK'
    <2> DEFINE p == ProcOf[w]
    <2>1. p \in Procs
        BY AuditAssumption
    <2>2. Visible(p) \in Seq(Row) /\ ChainHead(p) \in Nat
        BY <2>1, VisibleTyped
    <2>3. CASE Insert(w)
        <3>1. [prev |-> prev[w], mac |-> nextMac] \in Row
            BY DEF TypeOK, Row
        <3>2. unsaved' \in [Procs -> Seq(Row)]
            <4>1. /\ unsaved \in [Procs -> Seq(Row)] /\ unsaved[p] \in Seq(Row)
                  /\ unsaved' = [unsaved EXCEPT ![p] = Append(unsaved[p],
                                     [prev |-> prev[w], mac |-> nextMac])]
                BY <2>1, <2>3 DEF TypeOK, Insert
            <4>2. Append(unsaved[p], [prev |-> prev[w], mac |-> nextMac]) \in Seq(Row)
                BY <3>1, <4>1, AppendProperties
            <4> QED BY <4>1, <4>2
        <3>3. /\ mac' = [mac EXCEPT ![w] = nextMac] /\ nextMac' = nextMac + 1
              /\ pc' = [pc EXCEPT ![w] = "commit"]
              /\ UNCHANGED <<disk, claim, phase, lock, prev, snap, used, operator,
                             acked, alarm, crashes>>
            BY <2>3 DEF Insert
        <3>4. /\ mac' \in [Workers -> Nat] /\ nextMac' \in Nat \ {0}
              /\ pc' \in [Workers -> {"idle", "insert", "commit", "checkpoint", "mark",
                                      "sync", "recompute", "publish"}]
            BY <3>3 DEF TypeOK
        <3> HIDE DEF p
        <3> QED BY <3>2, <3>3, <3>4 DEF TypeOK
    <2>4. CASE Commit(w)
        <3>1. <<>> \in Seq(Row)
            BY EmptySeq
        <3>2. Len(Visible(p)) = Len(rows) + Len(unsaved[p])
            BY <2>1, ConcatProperties DEF TypeOK, Visible
        <3>3. Len(rows) \in Nat /\ Len(unsaved[p]) \in Nat
            BY <2>1, LenProperties DEF TypeOK
        <3>4. inFile' <= Len(rows')
            BY <2>4, <3>2, <3>3 DEF TypeOK, Commit
        <3> QED BY <2>1, <2>2, <2>4, <3>1, <3>4 DEF TypeOK, Commit
    <2>5. CASE Checkpoint(w)
        <3>1. Len(rows) \in Nat
            BY LenProperties DEF TypeOK
        <3>2. inFile' \in Nat /\ inFile' <= Len(rows)
            BY <2>5, <3>1 DEF TypeOK, Checkpoint
        <3> QED BY <2>5, <3>2 DEF TypeOK, Checkpoint
    <2>6. CASE WriteMark(w)
        BY <2>6 DEF TypeOK, WriteMark
    <2>7. CASE Finish(w)
        <3>1. /\ synced' = mark /\ acked' = acked \cup {mac[w]}
              /\ lock' = [lock EXCEPT ![p] = NoWorker]
              /\ phase' = [phase EXCEPT ![p] = "serving"]
              /\ pc' = [pc EXCEPT ![w] = "idle"]
              /\ UNCHANGED <<rows, inFile, mark, unsaved, claim, prev, mac, snap, used,
                             operator, nextMac, alarm, crashes>>
            BY <2>7 DEF Finish
        <3> HIDE DEF p
        <3>2. /\ lock' \in [Procs -> Workers \cup {NoWorker}]
              /\ phase' \in [Procs -> {"down", "claimed", "verified", "serving", "refused"}]
              /\ pc' \in [Workers -> {"idle", "insert", "commit", "checkpoint", "mark",
                                      "sync", "recompute", "publish"}]
            BY <2>1, <3>1 DEF TypeOK
        <3>3. synced' \in Nat /\ acked' \subseteq Nat
            <4>1. mark \in Nat /\ acked \subseteq Nat /\ mac[w] \in Nat
                BY DEF TypeOK
            <4> QED BY <3>1, <4>1
        <3> QED BY <3>1, <3>2, <3>3 DEF TypeOK
    <2>8. CASE Fail(w)
        <3>1. unsaved' \in [Procs -> Seq(Row)]
            <4>1. unsaved \in [Procs -> Seq(Row)] /\ <<>> \in Seq(Row)
                BY EmptySeq DEF TypeOK
            <4>2. unsaved' = unsaved \/ unsaved' = [unsaved EXCEPT ![p] = <<>>]
                BY <2>8, FailFacts
            <4> HIDE DEF p
            <4> QED BY <2>1, <4>1, <4>2
        <3>2. phase' \in [Procs -> {"down", "claimed", "verified", "serving", "refused"}]
              /\ claim' \in Procs \cup {NoProc}
            <4>1. /\ phase' = phase \/ phase' = [phase EXCEPT ![p] = "down"]
                  /\ claim' = claim \/ claim' = NoProc
                BY <2>8, FailFacts
            <4> HIDE DEF p
            <4> QED BY <2>1, <4>1 DEF TypeOK
        <3>3. /\ lock' \in [Procs -> Workers \cup {NoWorker}]
              /\ pc' \in [Workers -> {"idle", "insert", "commit", "checkpoint", "mark",
                                      "sync", "recompute", "publish"}]
            BY <2>1, <2>8, FailFacts DEF TypeOK
        <3>4. UNCHANGED <<rows, inFile, mark, synced, prev, mac, snap, used, operator,
                          nextMac, acked, alarm, crashes>>
            BY <2>8 DEF Fail
        <3> QED BY <3>1, <3>2, <3>3, <3>4 DEF TypeOK
    <2>9. CASE Recompute(w)
        <3>1. <<>> \in Seq(Row)
            BY EmptySeq
        <3> QED BY <2>9, <3>1 DEF TypeOK, Recompute, NoMark
    <2>10. CASE \E pin \in BOOLEAN : PublishHead(w, pin)
        BY <2>1, <2>2, <2>10 DEF TypeOK, PublishHead
    <2> QED BY <1>3, <2>3, <2>4, <2>5, <2>6, <2>7, <2>8, <2>9, <2>10 DEF Step
<1>4. ASSUME NEW p \in Procs, NEW left \in {mark, synced}, Crash(p, left) PROVE TypeOK'
    <2>1. <<>> \in Seq(Row)
        BY EmptySeq
    <2>2. snap' \in [Workers -> [chain: Seq(Row), mark: Nat]]
        BY <1>4, <2>1 DEF TypeOK, Crash, NoMark
    <2>3. unsaved' \in [Procs -> Seq(Row)]
        BY <1>4, <2>1 DEF TypeOK, Crash
    <2> QED BY <1>4, <2>2, <2>3 DEF TypeOK, Crash
<1>5. CASE CopyFile
    <2>1. SubSeq(rows, 1, inFile) \in Seq(Row)
        BY PrefixFacts DEF TypeOK
    <2> QED BY <1>5, <2>1 DEF TypeOK, CopyFile
<1>6. CASE CopyMark
    BY <1>6 DEF TypeOK, CopyMark
<1>7. ASSUME NEW left \in {mark, NoMark, copy.mark}, Restore(left) PROVE TypeOK'
    <2>1. Len(copy.chain) \in Nat /\ copy.chain \in Seq(Row)
        BY LenProperties DEF TypeOK
    <2>2. left \in Nat
        BY DEF TypeOK, NoMark
    <2> QED BY <1>7, <2>1, <2>2 DEF TypeOK, Restore
<1>8. CASE UNCHANGED vars
    BY <1>8 DEF TypeOK, vars
<1> QED BY <1>1, <1>2, <1>3, <1>4, <1>5, <1>6, <1>7, <1>8 DEF Next

-----------------------------------------------------------------------------
(***************************************************************************)
(* One server at a time, one append at a time.                             *)
(***************************************************************************)

LEMMA OnlyServer ==
    ASSUME TypeOK, OneServer, Serialised, NEW p \in Procs, Up(p), NEW o \in Procs, o # p
    PROVE  /\ ~Up(o) /\ unsaved[o] = <<>>
           /\ phase[o] \in {"down", "refused"}
           /\ \A w \in Workers : ProcOf[w] = o => pc[w] = "idle"
<1>1. claim = p
    BY DEF OneServer, Up
<1>2. phase[o] \notin {"claimed", "verified", "serving"}
    BY <1>1 DEF OneServer
<1>3. ~Up(o) /\ phase[o] \in {"down", "refused"}
    BY <1>2 DEF TypeOK, Up
<1> QED BY <1>3 DEF Serialised

\* Nobody appends for p but the thread that holds its lock.
LEMMA OnlyAppend ==
    ASSUME Serialised, NEW w \in Workers, pc[w] \in AppendSteps,
           NEW o \in Workers, o # w, ProcOf[o] = ProcOf[w]
    PROVE  pc[o] \notin AppendSteps
    BY DEF Serialised

LEMMA OneServerNext == TypeOK /\ OneServer /\ Serialised /\ [Next]_vars => OneServer'
<1> SUFFICES ASSUME TypeOK, OneServer, Serialised, [Next]_vars PROVE OneServer'
    OBVIOUS
<1>0. NoProc \notin Procs /\ ProcOf \in [Workers -> Procs]
    BY AuditAssumption
<1>1. ASSUME NEW p \in Procs, Claim(p) \/ Start(p) \/ Retry(p) PROVE OneServer'
    <2>1. CASE Claim(p)
        BY <1>0, <2>1 DEF TypeOK, OneServer, Claim
    <2>2. CASE Start(p)
        BY <1>0, <2>2 DEF TypeOK, OneServer, Start
    <2>3. CASE Retry(p)
        BY <1>0, <2>3 DEF TypeOK, OneServer, Retry
    <2> QED BY <1>1, <2>1, <2>2, <2>3
<1>2. ASSUME NEW w \in Workers, Begin(w) \/ VerifyRead(w) PROVE OneServer'
    BY <1>2 DEF OneServer, Begin, VerifyRead
<1>3. ASSUME NEW w \in Workers, Step(w) PROVE OneServer'
    <2> DEFINE p == ProcOf[w]
    <2>0. p \in Procs
        BY <1>0
    <2>1. CASE Finish(w)
        <3>1. Up(p)
            BY <2>1 DEF Serialised, Finish
        <3>2. phase' = [phase EXCEPT ![p] = "serving"] /\ claim' = claim
            BY <2>1 DEF Finish
        <3> HIDE DEF p
        <3> QED BY <2>0, <3>1, <3>2 DEF TypeOK, OneServer, Up
    <2>2. CASE Fail(w)
        <3>1. phase[p] # "verified" => phase' = phase /\ claim' = claim
            BY <2>2, FailFacts
        <3>2. phase[p] = "verified" => phase' = [phase EXCEPT ![p] = "down"] /\ claim' = NoProc
            BY <2>2, FailFacts
        <3> HIDE DEF p
        <3>3. CASE phase[p] = "verified"
            BY <1>0, <2>0, <3>2, <3>3 DEF TypeOK, OneServer
        <3> QED BY <3>1, <3>3 DEF OneServer
    <2>3. CASE ~Finish(w) /\ ~Fail(w)
        <3>1. phase' = phase /\ claim' = claim
            BY <1>3, <2>3 DEF Step, Insert, Commit, Checkpoint, WriteMark, Recompute,
                              PublishHead
        <3> QED BY <3>1 DEF OneServer
    <2> QED BY <2>1, <2>2, <2>3
<1>4. ASSUME NEW p \in Procs, NEW left \in {mark, synced}, Crash(p, left) PROVE OneServer'
    BY <1>0, <1>4 DEF TypeOK, OneServer, Crash
<1>5. CASE CopyFile \/ CopyMark \/ (\E left \in {mark, NoMark, copy.mark} : Restore(left))
    BY <1>5 DEF OneServer, CopyFile, CopyMark, Restore
<1>6. CASE UNCHANGED vars
    BY <1>6 DEF OneServer, vars
<1> QED BY <1>1, <1>2, <1>3, <1>4, <1>5, <1>6 DEF Next

LEMMA SerialisedNext == TypeOK /\ OneServer /\ Serialised /\ [Next]_vars => Serialised'
<1> SUFFICES ASSUME TypeOK, OneServer, Serialised, [Next]_vars PROVE Serialised'
    OBVIOUS
<1>0. NoProc \notin Procs /\ NoWorker \notin Workers /\ ProcOf \in [Workers -> Procs]
    BY AuditAssumption
<1>1. ASSUME NEW p \in Procs, Claim(p) \/ Start(p) \/ Retry(p) PROVE Serialised'
    <2>1. ~Up(p) /\ unsaved' = unsaved /\ pc' = pc /\ lock' = lock
        BY <1>1 DEF Up, Claim, Start, Retry, threads
    <2>2. \A o \in Procs : o # p => phase'[o] = phase[o]
        BY <1>1 DEF TypeOK, Claim, Start, Retry
    <2>3. /\ \A w \in Workers : ProcOf[w] = p => pc[w] = "idle"
          /\ unsaved[p] = <<>>
        BY <2>1 DEF Serialised
    <2>4. \A o \in Procs : Up(o) => o # p /\ Up(o)'
        BY <2>1, <2>2 DEF Up
    <2>5. \A w \in Workers : pc[w] # "idle" => ProcOf[w] # p /\ phase'[ProcOf[w]] = phase[ProcOf[w]]
        BY <1>0, <2>2, <2>3
    <2> QED BY <1>0, <2>1, <2>3, <2>4, <2>5 DEF Serialised, AppendSteps
<1>2. ASSUME NEW w \in Workers, Begin(w) PROVE Serialised'
    <2> DEFINE p == ProcOf[w]
    <2>1. /\ p \in Procs /\ Up(p) /\ lock[p] = NoWorker /\ pc[w] = "idle"
          /\ lock' = [lock EXCEPT ![p] = w] /\ pc' = [pc EXCEPT ![w] = "insert"]
          /\ phase' = phase /\ unsaved' = unsaved
        BY <1>0, <1>2 DEF Begin, Up
    <2> HIDE DEF p
    <2>2. \A o \in Workers : ProcOf[o] = p => pc[o] \notin AppendSteps
        BY <1>0, <2>1 DEF Serialised
    <2>3. lock' \in [Procs -> Workers \cup {NoWorker}] /\ pc'[w] = "insert"
          /\ lock'[p] = w
          /\ \A o \in Workers : o # w => pc'[o] = pc[o]
          /\ \A q \in Procs : q # p => lock'[q] = lock[q]
        BY <2>1 DEF TypeOK
    <2>4. \A o \in Workers : pc'[o] \in AppendSteps <=> lock'[ProcOf[o]] = o
        <3> TAKE o \in Workers
        <3>1. CASE o = w
            BY <2>3, <3>1 DEF AppendSteps, p
        <3>2. CASE o # w /\ ProcOf[o] = p
            BY <2>2, <2>3, <3>2
        <3>3. CASE o # w /\ ProcOf[o] # p
            BY <1>0, <2>3, <3>3 DEF Serialised
        <3> QED BY <3>1, <3>2, <3>3
    <2>5. \A o \in Procs : lock'[o] # NoWorker => ProcOf[lock'[o]] = o
        BY <2>1, <2>3 DEF Serialised, p
    <2>6. \A o \in Workers : /\ pc'[o] # "idle" => Up(ProcOf[o])
                             /\ pc'[o] \in {"recompute", "publish"} => phase[ProcOf[o]] = "serving"
        BY <2>1, <2>3 DEF Serialised, p
    <2> QED BY <2>1, <2>4, <2>5, <2>6 DEF Serialised, Up
<1>3. ASSUME NEW w \in Workers,
             VerifyRead(w) \/ Recompute(w) \/ (\E pin \in BOOLEAN : PublishHead(w, pin))
      PROVE  Serialised'
    <2>1. /\ pc[w] \in {"idle", "recompute", "publish"}
          /\ phase[ProcOf[w]] = "serving"
          /\ \/ pc' = [pc EXCEPT ![w] = "idle"]
             \/ pc' = [pc EXCEPT ![w] = "recompute"]
             \/ pc' = [pc EXCEPT ![w] = "publish"]
          /\ lock' = lock /\ phase' = phase /\ unsaved' = unsaved
        BY <1>3 DEF VerifyRead, Recompute, PublishHead, Serialised
    <2>2. /\ pc'[w] \in {"idle", "recompute", "publish"}
          /\ \A o \in Workers : o # w => pc'[o] = pc[o]
        BY <2>1 DEF TypeOK
    <2>3. \A o \in Workers : pc'[o] \in AppendSteps <=> pc[o] \in AppendSteps
        BY <2>1, <2>2 DEF AppendSteps
    <2> QED BY <2>1, <2>2, <2>3 DEF Serialised, Up
<1>4. ASSUME NEW w \in Workers,
             Insert(w) \/ Commit(w) \/ Checkpoint(w) \/ WriteMark(w)
      PROVE  Serialised'
    <2>1. /\ pc[w] \in AppendSteps
          /\ \/ pc' = [pc EXCEPT ![w] = "commit"]
             \/ pc' = [pc EXCEPT ![w] = "checkpoint"]
             \/ pc' = [pc EXCEPT ![w] = "mark"]
             \/ pc' = [pc EXCEPT ![w] = "sync"]
          /\ lock' = lock /\ phase' = phase
        BY <1>4 DEF Insert, Commit, Checkpoint, WriteMark, AppendSteps
    <2>2. /\ pc'[w] \in AppendSteps /\ pc'[w] \notin {"idle", "recompute", "publish"}
          /\ \A o \in Workers : o # w => pc'[o] = pc[o]
        BY <2>1 DEF TypeOK, AppendSteps
    <2>3. Up(ProcOf[w])
        BY <2>1 DEF Serialised, AppendSteps
    <2>4. \A o \in Procs : o # ProcOf[w] => unsaved'[o] = unsaved[o]
        BY <1>4 DEF TypeOK, Insert, Commit, Checkpoint, WriteMark
    <2> QED BY <2>1, <2>2, <2>3, <2>4 DEF Serialised, Up
<1>5. ASSUME NEW w \in Workers, Finish(w) \/ Fail(w) PROVE Serialised'
    <2> DEFINE p == ProcOf[w]
    <2>1. /\ p \in Procs /\ pc[w] \in AppendSteps
          /\ lock' = [lock EXCEPT ![p] = NoWorker] /\ pc' = [pc EXCEPT ![w] = "idle"]
        BY <1>0, <1>5, FailFacts DEF Finish, AppendSteps
    <2>2. \A o \in Procs : o # p => phase'[o] = phase[o] /\ unsaved'[o] = unsaved[o]
        <3>1. CASE Finish(w)
            BY <2>1, <3>1 DEF TypeOK, Finish
        <3>2. CASE Fail(w)
            <4>1. /\ unsaved' = unsaved \/ unsaved' = [unsaved EXCEPT ![p] = <<>>]
                  /\ phase' = phase \/ phase' = [phase EXCEPT ![p] = "down"]
                BY <3>2, FailFacts
            <4> HIDE DEF p
            <4> QED BY <2>1, <4>1 DEF TypeOK
        <3> QED BY <1>5, <3>1, <3>2
    <2>3. Up(p) /\ lock[p] = w
        BY <2>1 DEF Serialised, AppendSteps
    <2>4. \/ phase'[p] = "down" /\ unsaved'[p] = <<>> /\ phase[p] = "verified"
          \/ phase'[p] = "serving"
          \/ phase'[p] = phase[p]
        <3>1. CASE Finish(w)
            BY <2>1, <3>1 DEF TypeOK, Finish
        <3>2. CASE Fail(w)
            <4>1. \/ phase[p] = "verified" /\ unsaved' = [unsaved EXCEPT ![p] = <<>>]
                     /\ phase' = [phase EXCEPT ![p] = "down"]
                  \/ phase' = phase
                BY <3>2, FailFacts
            <4> HIDE DEF p
            <4> QED BY <2>1, <4>1 DEF TypeOK
        <3> QED BY <1>5, <3>1, <3>2
    <2>5. \A o \in Workers : o # w /\ ProcOf[o] = p => pc[o] \notin AppendSteps
        BY <2>1, OnlyAppend
    <2> HIDE DEF p
    <2>6. /\ pc'[w] = "idle" /\ \A o \in Workers : o # w => pc'[o] = pc[o]
          /\ lock'[p] = NoWorker /\ \A o \in Procs : o # p => lock'[o] = lock[o]
        BY <2>1 DEF TypeOK
    <2>7. phase[p] = "verified" => \A o \in Workers : o # w /\ ProcOf[o] = p => pc[o] = "idle"
        <3> SUFFICES ASSUME phase[p] = "verified", NEW o \in Workers, o # w, ProcOf[o] = p
                     PROVE  pc[o] = "idle"
            OBVIOUS
        <3>1. pc[o] \notin {"recompute", "publish"}
            BY DEF Serialised
        <3>2. pc[o] \notin AppendSteps
            BY <2>5
        <3> QED BY <3>1, <3>2 DEF TypeOK, AppendSteps
    <2>8. ASSUME NEW o \in Workers
          PROVE  /\ pc'[o] # "idle" => Up(ProcOf[o])'
                 /\ pc'[o] \in {"recompute", "publish"} => phase'[ProcOf[o]] = "serving"
        <3>1. CASE o = w
            BY <2>6, <3>1
        <3>2. CASE o # w /\ ProcOf[o] = p
            BY <2>3, <2>4, <2>6, <2>7, <3>2 DEF Serialised, Up
        <3>3. CASE o # w /\ ProcOf[o] # p
            BY <1>0, <2>2, <2>6, <3>3 DEF Serialised, Up
        <3> QED BY <3>1, <3>2, <3>3
    <2>9. ASSUME NEW o \in Workers PROVE pc'[o] \in AppendSteps <=> lock'[ProcOf[o]] = o
        <3>1. CASE o = w
            BY <1>0, <2>6, <3>1 DEF AppendSteps, p
        <3>2. CASE o # w /\ ProcOf[o] = p
            BY <1>0, <2>5, <2>6, <3>2
        <3>3. CASE o # w /\ ProcOf[o] # p
            BY <1>0, <2>6, <3>3 DEF Serialised
        <3> QED BY <3>1, <3>2, <3>3
    <2>10. \A o \in Procs : lock'[o] # NoWorker => ProcOf[lock'[o]] = o
        BY <2>6 DEF Serialised
    <2>11. \A o \in Procs : unsaved'[o] # <<>> => Up(o)'
        BY <2>2, <2>3, <2>4 DEF Serialised, Up
    <2> QED BY <2>8, <2>9, <2>10, <2>11 DEF Serialised
<1>6. ASSUME NEW p \in Procs, NEW left \in {mark, synced}, Crash(p, left) PROVE Serialised'
    <2>1. /\ phase' = [phase EXCEPT ![p] = "down"]
          /\ lock' = [lock EXCEPT ![p] = NoWorker]
          /\ unsaved' = [unsaved EXCEPT ![p] = <<>>]
          /\ \A o \in Workers : pc'[o] = IF ProcOf[o] = p THEN "idle" ELSE pc[o]
        BY <1>6 DEF Crash
    <2>2. /\ \A o \in Procs : o # p => /\ phase'[o] = phase[o] /\ lock'[o] = lock[o]
                                       /\ unsaved'[o] = unsaved[o]
          /\ lock'[p] = NoWorker /\ unsaved'[p] = <<>>
        BY <2>1 DEF TypeOK
    <2>3. ASSUME NEW o \in Workers
          PROVE  /\ pc'[o] # "idle" => Up(ProcOf[o])'
                 /\ pc'[o] \in {"recompute", "publish"} => phase'[ProcOf[o]] = "serving"
                 /\ pc'[o] \in AppendSteps <=> lock'[ProcOf[o]] = o
        <3>1. CASE ProcOf[o] = p
            BY <1>0, <2>1, <2>2, <3>1 DEF AppendSteps
        <3>2. CASE ProcOf[o] # p
            BY <1>0, <2>1, <2>2, <3>2 DEF Serialised, Up
        <3> QED BY <3>1, <3>2
    <2>4. \A o \in Procs : lock'[o] # NoWorker => ProcOf[lock'[o]] = o
        BY <2>2 DEF Serialised
    <2>5. \A o \in Procs : unsaved'[o] # <<>> => Up(o)'
        BY <2>2 DEF Serialised, Up
    <2> QED BY <2>3, <2>4, <2>5 DEF Serialised
<1>7. CASE CopyFile \/ CopyMark \/ (\E left \in {mark, NoMark, copy.mark} : Restore(left))
    <2>1. UNCHANGED <<phase, lock, unsaved, pc>>
        BY <1>7 DEF CopyFile, CopyMark, Restore, threads
    <2> QED BY <2>1 DEF Serialised, Up
<1>8. CASE UNCHANGED vars
    BY <1>8 DEF Serialised, Up, vars, threads
<1> QED BY <1>1, <1>2, <1>3, <1>4, <1>5, <1>6, <1>7, <1>8 DEF Next, Step

-----------------------------------------------------------------------------
(***************************************************************************)
(* What an action does to the chains.                                      *)
(***************************************************************************)

LEMMA InsertChains ==
    ASSUME TypeOK, InFlight, NEW w \in Workers, Insert(w)
    PROVE  /\ rows' = rows /\ nextMac' = nextMac + 1
           /\ Visible(ProcOf[w])' =
                  Append(Visible(ProcOf[w]),
                         [prev |-> HeadOf(Visible(ProcOf[w])), mac |-> nextMac])
           /\ \A o \in Procs : o # ProcOf[w] => Visible(o)' = Visible(o)
<1> DEFINE p == ProcOf[w]
           row == [prev |-> prev[w], mac |-> nextMac]
<1>1. p \in Procs
    BY AuditAssumption
<1>2. /\ rows' = rows /\ nextMac' = nextMac + 1
      /\ unsaved' = [unsaved EXCEPT ![p] = Append(unsaved[p], row)]
    BY DEF Insert, disk
<1>3. prev[w] = HeadOf(Visible(p))
    BY DEF InFlight, Insert, ChainHead
<1>4. row \in Row /\ rows \in Seq(Row) /\ unsaved[p] \in Seq(Row)
    BY <1>1 DEF TypeOK, Row
<1>5. rows \o Append(unsaved[p], row) = Append(rows \o unsaved[p], row)
    <2>1. <<row>> \in Seq(Row)
        BY <1>4
    <2>2. Append(unsaved[p], row) = unsaved[p] \o <<row>>
        BY <1>4, AppendIsConcat
    <2>3. Append(rows \o unsaved[p], row) = (rows \o unsaved[p]) \o <<row>>
        BY <1>4, AppendIsConcat, ConcatProperties
    <2> QED BY SMTT(30), <1>4, <2>1, <2>2, <2>3, ConcatAssociative
<1>6. row = [prev |-> HeadOf(Visible(p)), mac |-> nextMac]
    BY <1>3
<1> HIDE DEF p, row
<1>7. /\ unsaved'[p] = Append(unsaved[p], row)
      /\ \A o \in Procs : o # p => unsaved'[o] = unsaved[o]
    BY <1>1, <1>2 DEF TypeOK
<1>8. /\ Visible(p)' = Append(Visible(p), row)
      /\ \A o \in Procs : o # p => Visible(o)' = Visible(o)
    BY <1>2, <1>5, <1>7 DEF Visible
<1> QED BY <1>2, <1>6, <1>8 DEF p

LEMMA CommitChains ==
    ASSUME TypeOK, OneServer, Serialised, NEW w \in Workers, Commit(w)
    PROVE  /\ rows' = Visible(ProcOf[w]) /\ nextMac' = nextMac
           /\ \A o \in Procs : Visible(o)' = Visible(ProcOf[w])
<1> DEFINE p == ProcOf[w]
<1>1. p \in Procs /\ Up(p)
    BY AuditAssumption DEF Commit, Serialised
<1>2. rows' = Visible(p) /\ nextMac' = nextMac /\ unsaved' = [unsaved EXCEPT ![p] = <<>>]
    BY DEF Commit
<1>3. \A o \in Procs : o # p => unsaved[o] = <<>>
    BY <1>1, OnlyServer
<1>4. Visible(p) \in Seq(Row)
    BY <1>1, VisibleTyped
<1>5. Visible(p) \o <<>> = Visible(p)
    BY <1>4, ConcatEmptySeq
<1> HIDE DEF p
<1>6. \A o \in Procs : unsaved'[o] = <<>>
    BY <1>2, <1>3 DEF TypeOK
<1>7. \A o \in Procs : Visible(o)' = rows' \o unsaved'[o]
    BY DEF Visible
<1> QED BY <1>2, <1>5, <1>6, <1>7 DEF p

\* A process loses its open transaction, or nothing happens to it.
LEMMA RollbackChains ==
    ASSUME TypeOK, NEW p \in Procs, rows' = rows,
           unsaved' = unsaved \/ unsaved' = [unsaved EXCEPT ![p] = <<>>]
    PROVE  /\ Visible(p)' = Visible(p) \/ Visible(p)' = rows
           /\ \A o \in Procs : o # p => Visible(o)' = Visible(o)
<1>1. rows \o <<>> = rows
    BY ConcatEmptySeq DEF TypeOK
<1>2. CASE unsaved' = unsaved
    BY <1>2 DEF Visible
<1>3. CASE unsaved' = [unsaved EXCEPT ![p] = <<>>]
    <2>1. unsaved'[p] = <<>> /\ \A o \in Procs : o # p => unsaved'[o] = unsaved[o]
        BY <1>3 DEF TypeOK
    <2> QED BY <1>1, <2>1 DEF Visible
<1> QED BY <1>2, <1>3

LEMMA RestoreChains ==
    ASSUME TypeOK, Serialised, NEW left, Restore(left)
    PROVE  /\ rows' = copy.chain /\ nextMac' = nextMac /\ copy' = copy
           /\ \A o \in Procs : ~Up(o) /\ Visible(o)' = copy.chain
           /\ \A w \in Workers : pc[w] = "idle"
<1>1. \A o \in Procs : ~Up(o)
    BY DEF Restore, Up
<1>2. \A o \in Procs : unsaved[o] = <<>>
    BY <1>1 DEF Serialised
<1>3. rows' = copy.chain /\ unsaved' = unsaved /\ nextMac' = nextMac /\ copy' = copy
    BY DEF Restore
<1>4. copy.chain \in Seq(Row)
    BY DEF TypeOK
<1>5. copy.chain \o <<>> = copy.chain
    BY <1>4, ConcatEmptySeq
<1>6. \A w \in Workers : pc[w] = "idle"
    BY <1>1, AuditAssumption DEF Serialised
<1> QED BY <1>1, <1>2, <1>3, <1>5, <1>6 DEF Visible

\* Every other action leaves the chains alone.
Quiet ==
    \/ \E p \in Procs : Claim(p) \/ Start(p) \/ Retry(p)
    \/ \E w \in Workers :
           \/ Begin(w) \/ VerifyRead(w) \/ Checkpoint(w) \/ WriteMark(w) \/ Finish(w)
           \/ Recompute(w) \/ (\E pin \in BOOLEAN : PublishHead(w, pin))
    \/ CopyMark
    \/ UNCHANGED vars

LEMMA QuietChains ==
    ASSUME Quiet
    PROVE  /\ rows' = rows /\ unsaved' = unsaved /\ nextMac' = nextMac
           /\ copy'.chain = copy.chain
           /\ \A p \in Procs : Visible(p)' = Visible(p)
<1>1. CASE CopyMark
    BY <1>1 DEF CopyMark, disk, Visible
<1>2. CASE ~CopyMark
    <2>1. rows' = rows /\ unsaved' = unsaved /\ nextMac' = nextMac /\ copy' = copy
        BY <1>2 DEF Quiet, Claim, Start, Retry, Begin, VerifyRead, Checkpoint, WriteMark,
                    Finish, Recompute, PublishHead, vars, disk, operator
    <2> QED BY <2>1 DEF Visible
<1> QED BY <1>1, <1>2

LEMMA NextCases ==
    ASSUME [Next]_vars
    PROVE  \/ Quiet
           \/ \E w \in Workers : Insert(w) \/ Commit(w) \/ Fail(w)
           \/ \E p \in Procs, left \in {mark, synced} : Crash(p, left)
           \/ CopyFile
           \/ \E left \in {mark, NoMark, copy.mark} : Restore(left)
    BY DEF Next, Step, Quiet

LEMMA ChainsSoundNext ==
    TypeOK /\ OneServer /\ Serialised /\ InFlight /\ ChainsSound /\ [Next]_vars => ChainsSound'
<1> SUFFICES ASSUME TypeOK, OneServer, Serialised, InFlight, ChainsSound, [Next]_vars
             PROVE  ChainsSound'
    OBVIOUS
<1>0. /\ ProcOf \in [Workers -> Procs]
      /\ nextMac \in Nat \ {0} /\ nextMac + 1 \in Nat /\ nextMac <= nextMac + 1
      /\ rows \in Seq(Row) /\ copy.chain \in Seq(Row)
      /\ \A p \in Procs : Visible(p) \in Seq(Row)
    BY AuditAssumption, VisibleTyped DEF TypeOK
<1>1. CASE Quiet
    BY <1>1, QuietChains DEF ChainsSound
<1>2. ASSUME NEW w \in Workers, Insert(w) PROVE ChainsSound'
    <2> DEFINE p == ProcOf[w]
    <2>1. p \in Procs
        BY <1>0
    <2>2. Sound(Visible(p)', nextMac')
        BY <1>0, <1>2, <2>1, InsertChains, SoundAppend DEF ChainsSound
    <2>3. \A o \in Procs : o # p => Sound(Visible(o)', nextMac')
        <3>1. /\ nextMac' = nextMac + 1
              /\ \A o \in Procs : o # p => Visible(o)' = Visible(o)
            BY <1>2, InsertChains
        <3>2. \A o \in Procs : Sound(Visible(o), nextMac)
            BY DEF ChainsSound
        <3> HIDE DEF p
        <3> QED BY <1>0, <3>1, <3>2, SoundLater
    <2>4. Sound(rows', nextMac') /\ Sound(copy'.chain, nextMac')
        <3>1. rows' = rows /\ copy' = copy /\ nextMac' = nextMac + 1
            BY <1>2 DEF Insert, disk, operator
        <3>2. Sound(rows, nextMac + 1) /\ Sound(copy.chain, nextMac + 1)
            BY <1>0, SoundLater DEF ChainsSound
        <3> QED BY <3>1, <3>2
    <2> QED BY <2>2, <2>3, <2>4 DEF ChainsSound
<1>3. ASSUME NEW w \in Workers, Commit(w) PROVE ChainsSound'
    <2>1. copy' = copy
        BY <1>3 DEF Commit, operator
    <2> QED BY <1>0, <1>3, <2>1, CommitChains DEF ChainsSound
<1>4. ASSUME NEW p \in Procs, rows' = rows, nextMac' = nextMac, copy' = copy,
             unsaved' = unsaved \/ unsaved' = [unsaved EXCEPT ![p] = <<>>]
      PROVE  ChainsSound'
    BY <1>4, RollbackChains DEF ChainsSound
<1>5. ASSUME NEW w \in Workers, Fail(w) PROVE ChainsSound'
    <2>1. rows' = rows /\ nextMac' = nextMac /\ copy' = copy
        BY <1>5 DEF Fail, disk, operator
    <2> QED BY <1>0, <1>4, <1>5, <2>1, FailFacts
<1>6. ASSUME NEW p \in Procs, NEW left \in {mark, synced}, Crash(p, left) PROVE ChainsSound'
    BY <1>4, <1>6 DEF Crash, operator
<1>7. CASE CopyFile
    <2>1. /\ rows' = rows /\ unsaved' = unsaved /\ nextMac' = nextMac
          /\ copy'.chain = SubSeq(rows, 1, inFile)
        BY <1>7 DEF CopyFile, disk, TypeOK
    <2>2. Sound(SubSeq(rows, 1, inFile), nextMac)
        BY <1>0, SoundPrefix DEF ChainsSound, TypeOK
    <2> QED BY <2>1, <2>2 DEF ChainsSound, Visible
<1>8. ASSUME NEW left, Restore(left) PROVE ChainsSound'
    BY <1>8, RestoreChains DEF ChainsSound
<1> QED BY <1>1, <1>2, <1>3, <1>5, <1>6, <1>7, <1>8, NextCases

-----------------------------------------------------------------------------
(***************************************************************************)
(* Appends in flight.                                                      *)
(***************************************************************************)

LEMMA Alone ==
    ASSUME TypeOK, OneServer, Serialised, NEW w \in Workers, pc[w] \in AppendSteps,
           NEW o \in Workers, o # w
    PROVE  pc[o] \notin AppendSteps
<1>1. Up(ProcOf[w]) /\ ProcOf[w] \in Procs /\ ProcOf[o] \in Procs
    BY AuditAssumption DEF Serialised, AppendSteps
<1>2. CASE ProcOf[o] = ProcOf[w]
    BY <1>2, OnlyAppend
<1>3. CASE ProcOf[o] # ProcOf[w]
    BY <1>1, <1>3, OnlyServer DEF AppendSteps
<1> QED BY <1>2, <1>3

LEMMA InFlightNext ==
    TypeOK /\ OneServer /\ Serialised /\ InFlight /\ [Next]_vars => InFlight'
<1> SUFFICES ASSUME TypeOK, OneServer, Serialised, InFlight, [Next]_vars
             PROVE  InFlight'
    OBVIOUS
<1> DEFINE Settled(x) ==
        /\ pc[x] = "insert" => prev[x] = ChainHead(ProcOf[x])
        /\ pc[x] \in AppendSteps \ {"insert"} => mac[x] + 1 = nextMac
        /\ pc[x] = "commit" => mac[x] \in Macs(Visible(ProcOf[x]))
        /\ pc[x] \in {"checkpoint", "mark", "sync"} => mac[x] \in Macs(rows)
        /\ pc[x] = "sync" => mark = mac[x]
<1>0. /\ \A x \in Workers : Settled(x)
      /\ (\A x \in Workers : Settled(x)') => InFlight'
    BY DEF InFlight
<1>1. \A x \in Workers : pc'[x] \notin AppendSteps => Settled(x)'
    BY DEF AppendSteps
<1>2. ProcOf \in [Workers -> Procs]
    BY AuditAssumption
<1>3. ASSUME pc' = pc, prev' = prev, mac' = mac, nextMac' = nextMac, rows' = rows,
             unsaved' = unsaved, mark' = mark
      PROVE  InFlight'
    BY <1>3 DEF InFlight, ChainHead, Visible
\* The appending thread is the only one with anything to keep.
<1>4. ASSUME NEW w \in Workers, pc[w] \in AppendSteps,
             \A x \in Workers : x # w => pc'[x] = pc[x],
             Settled(w)'
      PROVE  InFlight'
    <2> HIDE DEF Settled
    <2>1. \A x \in Workers : x # w => pc'[x] \notin AppendSteps
        BY <1>4, Alone
    <2> QED BY <1>0, <1>1, <1>4, <2>1
<1>5. ASSUME NEW w \in Workers, pc[w] \in AppendSteps, pc'[w] = "idle",
             \A x \in Workers : x # w => pc'[x] = pc[x]
      PROVE  InFlight'
    <2>1. Settled(w)'
        BY <1>1, <1>5 DEF AppendSteps
    <2> HIDE DEF Settled
    <2> QED BY <1>4, <1>5, <2>1
<1>6. ASSUME NEW p \in Procs, Claim(p) \/ Start(p) \/ Retry(p) PROVE InFlight'
    BY <1>3, <1>6 DEF Claim, Start, Retry, disk, threads
<1>7. ASSUME NEW w \in Workers, Begin(w) PROVE InFlight'
    <2>1. /\ prev' = [prev EXCEPT ![w] = ChainHead(ProcOf[w])]
          /\ pc' = [pc EXCEPT ![w] = "insert"]
          /\ rows' = rows /\ unsaved' = unsaved /\ mark' = mark /\ mac' = mac
          /\ nextMac' = nextMac
        BY <1>7 DEF Begin, disk
    <2>2. pc'[w] = "insert" /\ prev'[w] = ChainHead(ProcOf[w])
        BY <2>1 DEF TypeOK
    <2>3. \A x \in Workers : x # w => pc'[x] = pc[x] /\ prev'[x] = prev[x]
        BY <2>1 DEF TypeOK
    <2>4. \A p \in Procs : ChainHead(p)' = ChainHead(p) /\ Visible(p)' = Visible(p)
        BY <2>1 DEF ChainHead, Visible
    <2>5. Settled(w)'
        BY <1>2, <2>2, <2>4
    <2>6. \A x \in Workers : x # w => Settled(x)'
        BY <1>0, <1>2, <2>1, <2>3, <2>4
    <2> QED BY <1>0, <2>5, <2>6
<1>8. ASSUME NEW w \in Workers,
             VerifyRead(w) \/ Recompute(w) \/ (\E pin \in BOOLEAN : PublishHead(w, pin))
      PROVE  InFlight'
    <2>1. /\ \/ pc' = [pc EXCEPT ![w] = "idle"]
             \/ pc' = [pc EXCEPT ![w] = "recompute"]
             \/ pc' = [pc EXCEPT ![w] = "publish"]
          /\ rows' = rows /\ unsaved' = unsaved /\ mark' = mark /\ mac' = mac
          /\ nextMac' = nextMac /\ prev' = prev
        BY <1>8 DEF VerifyRead, Recompute, PublishHead, disk
    <2>2. /\ pc'[w] \in {"idle", "recompute", "publish"}
          /\ \A x \in Workers : x # w => pc'[x] = pc[x]
        BY <2>1 DEF TypeOK
    <2>3. \A p \in Procs : ChainHead(p)' = ChainHead(p) /\ Visible(p)' = Visible(p)
        BY <2>1 DEF ChainHead, Visible
    <2>4. \A x \in Workers : x # w => Settled(x)'
        BY <1>0, <1>2, <2>1, <2>2, <2>3
    <2>5. Settled(w)'
        BY <1>1, <2>2 DEF AppendSteps
    <2> QED BY <1>0, <2>4, <2>5
<1>9. ASSUME NEW w \in Workers, Insert(w) PROVE InFlight'
    <2>1. /\ pc[w] = "insert" /\ pc' = [pc EXCEPT ![w] = "commit"]
          /\ mac' = [mac EXCEPT ![w] = nextMac]
        BY <1>9 DEF Insert
    <2>2. /\ pc'[w] = "commit" /\ mac'[w] = nextMac
          /\ \A x \in Workers : x # w => pc'[x] = pc[x]
        BY <2>1 DEF TypeOK
    <2>3. Macs(Visible(ProcOf[w])') = Macs(Visible(ProcOf[w])) \cup {nextMac}
        <3>1. /\ Visible(ProcOf[w]) \in Seq(Row) /\ HeadOf(Visible(ProcOf[w])) \in Nat
              /\ nextMac \in Nat
            BY <1>2, VisibleTyped DEF ChainHead, TypeOK
        <3>2. [prev |-> HeadOf(Visible(ProcOf[w])), mac |-> nextMac] \in Row
            BY <3>1 DEF Row
        <3> QED BY <1>9, <3>1, <3>2, InsertChains, MacsOfAppend
    <2>4. nextMac' = nextMac + 1
        BY <1>9 DEF Insert
    <2>5. Settled(w)'
        BY <2>2, <2>3, <2>4 DEF Macs
    <2>6. pc[w] \in AppendSteps
        BY <2>1 DEF AppendSteps
    <2> HIDE DEF Settled
    <2> QED BY <1>4, <2>2, <2>5, <2>6
<1>10. ASSUME NEW w \in Workers, Commit(w) PROVE InFlight'
    <2>1. /\ pc[w] = "commit" /\ pc' = [pc EXCEPT ![w] = "checkpoint"]
          /\ mac' = mac /\ nextMac' = nextMac /\ rows' = Visible(ProcOf[w])
        BY <1>10 DEF Commit
    <2>2. /\ pc'[w] = "checkpoint"
          /\ \A x \in Workers : x # w => pc'[x] = pc[x]
        BY <2>1 DEF TypeOK
    <2>3. Settled(w)'
        BY <1>0, <2>1, <2>2 DEF AppendSteps
    <2>4. pc[w] \in AppendSteps
        BY <2>1 DEF AppendSteps
    <2> HIDE DEF Settled
    <2> QED BY <1>4, <2>2, <2>3, <2>4
<1>11. ASSUME NEW w \in Workers, Checkpoint(w) \/ WriteMark(w) PROVE InFlight'
    <2>1. /\ pc[w] \in {"checkpoint", "mark"}
          /\ mac' = mac /\ nextMac' = nextMac /\ rows' = rows
          /\ \/ pc' = [pc EXCEPT ![w] = "mark"]
             \/ pc' = [pc EXCEPT ![w] = "sync"] /\ mark' = mac[w]
        BY <1>11 DEF Checkpoint, WriteMark
    <2>2. /\ pc'[w] = "mark" \/ (pc'[w] = "sync" /\ mark' = mac[w])
          /\ \A x \in Workers : x # w => pc'[x] = pc[x]
        BY <2>1 DEF TypeOK
    <2>3. Settled(w)'
        BY <1>0, <2>1, <2>2 DEF AppendSteps
    <2>4. pc[w] \in AppendSteps
        BY <2>1 DEF AppendSteps
    <2> HIDE DEF Settled
    <2> QED BY <1>4, <2>2, <2>3, <2>4
<1>12. ASSUME NEW w \in Workers, Finish(w) \/ Fail(w) PROVE InFlight'
    <2>1. pc[w] \in AppendSteps /\ pc' = [pc EXCEPT ![w] = "idle"]
        BY <1>12, FailFacts DEF Finish, AppendSteps
    <2>2. pc'[w] = "idle" /\ \A x \in Workers : x # w => pc'[x] = pc[x]
        BY <2>1 DEF TypeOK
    <2> QED BY <1>5, <2>1, <2>2
<1>13. ASSUME NEW p \in Procs, NEW left \in {mark, synced}, Crash(p, left) PROVE InFlight'
    <2>1. /\ phase[p] \in {"claimed", "verified", "serving"}
          /\ \A x \in Workers : pc'[x] = IF ProcOf[x] = p THEN "idle" ELSE pc[x]
        BY <1>13 DEF Crash
    <2>2. \A x \in Workers : ProcOf[x] # p => ~Up(ProcOf[x])
        BY <1>2, <2>1 DEF OneServer, Up
    <2>3. \A x \in Workers : pc'[x] = "idle"
        BY <2>1, <2>2 DEF Serialised
    <2> QED BY <1>0, <1>1, <2>3 DEF AppendSteps
<1>14. CASE CopyFile \/ CopyMark \/ UNCHANGED vars
    BY <1>3, <1>14 DEF CopyFile, CopyMark, vars, disk, threads
<1>15. ASSUME NEW left, Restore(left) PROVE InFlight'
    <2>1. \A x \in Workers : pc'[x] = "idle"
        BY <1>15, RestoreChains DEF Restore, threads
    <2> QED BY <1>0, <1>1, <2>1 DEF AppendSteps
<1> QED BY <1>6, <1>7, <1>8, <1>9, <1>10, <1>11, <1>12, <1>13, <1>14, <1>15 DEF Next, Step

-----------------------------------------------------------------------------
(***************************************************************************)
(* The mark.                                                               *)
(***************************************************************************)

LEMMA VisibleMacs ==
    ASSUME TypeOK, NEW p \in Procs
    PROVE  /\ Macs(rows) \subseteq Macs(Visible(p))
           /\ unsaved[p] = <<>> => Visible(p) = rows
<1>1. rows \in Seq(Row) /\ unsaved[p] \in Seq(Row)
    BY DEF TypeOK
<1> QED BY <1>1, MacsOfConcat, ConcatEmptySeq DEF Visible

LEMMA SoundMacs ==
    ASSUME NEW chain \in Seq(Row), NEW n \in Nat, Sound(chain, n), NEW m \in Macs(chain)
    PROVE  m \in Nat /\ 1 <= m /\ m < n
<1>1. PICK i \in DOMAIN chain : chain[i].mac = m
    BY DEF Macs
<1> QED BY <1>1, RowAt DEF Sound

\* A server that starts runs on a log that holds its mark and its anchor.
LEMMA StartFacts ==
    ASSUME TypeOK, OneServer, Serialised, NEW p \in Procs, Start(p)
    PROVE  /\ ~Up(p)
           /\ \A o \in Procs : o # p => phase'[o] = phase[o] /\ used'[o] = used[o]
           /\ used'[p] = anchor
           /\ UNCHANGED <<rows, mark, synced, restored, acked, nextMac, copy, unsaved, pc,
                          snap, alarm>>
           /\ phase'[p] # "serving"
           /\ Up(p)' =>
                  /\ {mark, anchor} \ {NoMark} \subseteq Macs(rows)
                  /\ mark = NoMark => rows = <<>> \/ AllowUnmarked
<1>1. phase[p] = "claimed" /\ ~Up(p)
    BY DEF Start, Up
<1>2. unsaved[p] = <<>>
    BY <1>1 DEF Serialised
<1>3. Visible(p) = rows
    BY <1>2, VisibleMacs
<1>4. /\ used' = [used EXCEPT ![p] = anchor]
      /\ IF Verify(rows, mark, anchor)
         THEN phase' = [phase EXCEPT ![p] = "verified"]
         ELSE phase' = [phase EXCEPT ![p] = "refused"]
      /\ UNCHANGED <<rows, mark, synced, restored, acked, nextMac, copy, unsaved, pc, snap,
                     alarm>>
    BY <1>3 DEF Start, disk, operator, threads
<1>5. CASE Verify(rows, mark, anchor)
    <2>1. /\ {mark, anchor} \ {NoMark} \subseteq Macs(rows)
          /\ mark = NoMark => rows = <<>> \/ AllowUnmarked
        BY <1>5 DEF Verify, NoMark, NoAnchor
    <2> QED BY <1>1, <1>4, <1>5, <2>1 DEF TypeOK
<1>6. CASE ~Verify(rows, mark, anchor)
    BY <1>1, <1>4, <1>6 DEF TypeOK, Up
<1> QED BY <1>5, <1>6

\* After a crash nobody serves.
LEMMA CrashFacts ==
    ASSUME TypeOK, OneServer, NEW p \in Procs, NEW left \in {mark, synced}, Crash(p, left)
    PROVE  /\ \A o \in Procs : ~Up(o)'
           /\ mark' = left /\ synced' = left
           /\ UNCHANGED <<rows, restored, acked, nextMac, copy, used, alarm>>
<1>1. claim = p /\ phase' = [phase EXCEPT ![p] = "down"]
    BY DEF OneServer, Crash
<1>2. \A o \in Procs : o # p => ~Up(o) /\ phase'[o] = phase[o]
    BY <1>1 DEF OneServer, TypeOK, Up
<1>3. \A o \in Procs : ~Up(o)'
    BY <1>1, <1>2 DEF TypeOK, Up
<1> QED BY <1>3 DEF Crash, operator

LEMMA MarkedNext ==
    TypeOK /\ OneServer /\ Serialised /\ ChainsSound /\ InFlight /\ Marked /\ [Next]_vars
        => Marked'
<1> SUFFICES ASSUME TypeOK, OneServer, Serialised, ChainsSound, InFlight, Marked, [Next]_vars
             PROVE  Marked'
    OBVIOUS
<1>0. ProcOf \in [Workers -> Procs]
    BY AuditAssumption
<1>1. ASSUME Macs(rows) \subseteq Macs(rows'),
             UNCHANGED <<mark, synced, used, restored>>,
             \A p \in Procs : Up(p)' => Up(p),
             \A p \in Procs : phase'[p] = "serving" => phase[p] = "serving"
      PROVE  Marked'
    BY <1>1 DEF Marked
<1>2. ASSUME NEW p \in Procs, Claim(p) \/ Retry(p) PROVE Marked'
    <2>1. /\ UNCHANGED <<rows, mark, synced, used, restored>>
          /\ phase' = [phase EXCEPT ![p] = "claimed"] \/ phase' = [phase EXCEPT ![p] = "down"]
        BY <1>2 DEF Claim, Retry, disk, operator
    <2>2. \A o \in Procs : /\ Up(o)' => Up(o)
                           /\ phase'[o] = "serving" => phase[o] = "serving"
        BY <2>1 DEF TypeOK, Up
    <2> QED BY <1>1, <2>1, <2>2
<1>3. ASSUME NEW p \in Procs, Start(p) PROVE Marked'
    <2>1. ASSUME NEW o \in Procs
          PROVE  /\ Up(o)' => {mark', used'[o]} \ {NoMark} \subseteq Macs(rows')
                 /\ phase'[o] = "serving" => mark' # NoMark
        <3>1. CASE o = p
            BY <1>3, <3>1, StartFacts
        <3>2. CASE o # p
            BY <1>3, <3>2, StartFacts DEF Marked, Up
        <3> QED BY <3>1, <3>2
    <2> QED BY <1>3, <2>1, StartFacts DEF Marked
<1>4. ASSUME NEW w \in Workers,
             \/ Begin(w) \/ VerifyRead(w) \/ Insert(w) \/ Checkpoint(w) \/ Recompute(w)
             \/ \E pin \in BOOLEAN : PublishHead(w, pin)
      PROVE  Marked'
    <2>1. UNCHANGED <<rows, mark, synced, used, restored, phase>>
        BY <1>4 DEF Begin, VerifyRead, Insert, Checkpoint, Recompute, PublishHead, disk,
                    operator
    <2> QED BY <1>1, <2>1 DEF Up
<1>5. ASSUME NEW w \in Workers, Commit(w) PROVE Marked'
    <2>1. rows' = Visible(ProcOf[w]) /\ UNCHANGED <<mark, synced, used, restored, phase>>
        BY <1>5 DEF Commit, operator
    <2>2. Macs(rows) \subseteq Macs(rows')
        BY <1>0, <2>1, VisibleMacs
    <2> QED BY <1>1, <2>1, <2>2 DEF Up
<1>6. ASSUME NEW w \in Workers, WriteMark(w) \/ Finish(w)
      PROVE  Marked' /\ mac[w] \in Macs(rows) /\ mac[w] # NoMark
    <2> DEFINE p == ProcOf[w]
    <2>1. /\ p \in Procs /\ pc[w] \in {"mark", "sync"} /\ Up(p)
          /\ mac[w] \in Macs(rows)
        BY <1>0, <1>6 DEF WriteMark, Finish, Serialised, InFlight
    <2>2. mac[w] # NoMark
        BY <2>1, SoundMacs DEF ChainsSound, TypeOK, NoMark
    <2>3. /\ rows' = rows /\ used' = used /\ restored' = restored
          /\ mark' = mac[w]
          /\ synced' = synced \/ synced' = mac[w]
        BY <1>6 DEF WriteMark, Finish, operator, InFlight
    <2>4. \A o \in Procs : Up(o)' => o = p
        <3>1. phase' = phase \/ phase' = [phase EXCEPT ![p] = "serving"]
            BY <1>6 DEF WriteMark, Finish
        <3> HIDE DEF p
        <3>2. \A o \in Procs : o # p => phase'[o] = phase[o] /\ ~Up(o)
            BY SMTT(30), <2>1, <3>1, OnlyServer DEF TypeOK
        <3> QED BY <3>2 DEF Up
    <2> HIDE DEF p
    <2>5. used[p] # NoMark => used[p] \in Macs(rows)
        BY <2>1 DEF Marked
    <2>6. restored' = {} => {mark', synced'} \ {NoMark} \subseteq Macs(rows')
        BY <2>1, <2>3 DEF Marked
    <2>7. \A o \in Procs : /\ Up(o)' => {mark', used'[o]} \ {NoMark} \subseteq Macs(rows')
                           /\ phase'[o] = "serving" => mark' # NoMark
        BY <2>1, <2>2, <2>3, <2>4, <2>5 DEF Up
    <2> QED BY <2>1, <2>2, <2>6, <2>7 DEF Marked
<1>7. ASSUME NEW w \in Workers, Fail(w) PROVE Marked'
    <2>1. UNCHANGED <<rows, mark, synced, used, restored>>
        BY <1>7 DEF Fail, disk, operator
    <2>2. phase' = phase \/ phase' = [phase EXCEPT ![ProcOf[w]] = "down"]
        BY <1>7, FailFacts
    <2>3. \A o \in Procs : /\ Up(o)' => Up(o)
                           /\ phase'[o] = "serving" => phase[o] = "serving"
        BY <2>2 DEF TypeOK, Up
    <2> QED BY <1>1, <2>1, <2>3
<1>8. ASSUME NEW p \in Procs, NEW left \in {mark, synced}, Crash(p, left) PROVE Marked'
    BY <1>8, CrashFacts DEF Marked, Up
<1>9. CASE CopyFile \/ CopyMark \/ UNCHANGED vars
    <2>1. UNCHANGED <<rows, mark, synced, used, restored, phase>>
        BY <1>9 DEF CopyFile, CopyMark, vars, disk, operator
    <2> QED BY <1>1, <2>1 DEF Up
<1>10. ASSUME NEW left, Restore(left) PROVE Marked'
    <2>1. restored' # {} /\ phase' = phase
        BY <1>10 DEF Restore
    <2>2. \A p \in Procs : ~Up(p)
        BY <1>10, RestoreChains
    <2> QED BY <2>1, <2>2 DEF Marked, Up
<1> QED BY <1>2, <1>3, <1>4, <1>5, <1>6, <1>7, <1>8, <1>9, <1>10 DEF Next, Step

-----------------------------------------------------------------------------
(***************************************************************************)
(* Verification.                                                           *)
(***************************************************************************)

LEMMA ScannedNext ==
    /\ TypeOK /\ OneServer /\ Serialised /\ ChainsSound /\ Marked /\ Scanned /\ [Next]_vars
    => Scanned'
<1> SUFFICES ASSUME TypeOK, OneServer, Serialised, ChainsSound, Marked, Scanned, [Next]_vars
             PROVE  Scanned'
    OBVIOUS
<1>0. ProcOf \in [Workers -> Procs]
    BY AuditAssumption
\* A scan under way keeps its snapshot and its anchor.
<1>1. ASSUME alarm' = alarm,
             \A x \in Workers : pc'[x] = "recompute" =>
                 pc[x] = "recompute" /\ snap'[x] = snap[x]
                 /\ used'[ProcOf[x]] = used[ProcOf[x]]
      PROVE  Scanned'
    BY <1>1 DEF Scanned
<1>2. ASSUME NEW p \in Procs, Claim(p) \/ Retry(p) PROVE Scanned'
    BY <1>1, <1>2 DEF Claim, Retry, threads
<1>3. ASSUME NEW p \in Procs, Start(p) PROVE Scanned'
    <2>1. \A x \in Workers : pc[x] = "recompute" => ProcOf[x] # p
        BY <1>3, StartFacts DEF Serialised
    <2>2. \A x \in Workers : pc[x] = "recompute" => used'[ProcOf[x]] = used[ProcOf[x]]
        BY <1>0, <1>3, <2>1, StartFacts
    <2> QED BY <1>1, <1>3, <2>2, StartFacts
<1>4. ASSUME NEW w \in Workers,
             \/ Begin(w) \/ Insert(w) \/ Commit(w) \/ Checkpoint(w) \/ WriteMark(w)
             \/ Finish(w) \/ Fail(w) \/ \E pin \in BOOLEAN : PublishHead(w, pin)
      PROVE  Scanned'
    <2>1. alarm' = alarm /\ snap' = snap /\ used' = used
        BY <1>4 DEF Begin, Insert, Commit, Checkpoint, WriteMark, Finish, Fail, PublishHead
    <2>2. \/ pc' = [pc EXCEPT ![w] = "insert"]
          \/ pc' = [pc EXCEPT ![w] = "commit"]
          \/ pc' = [pc EXCEPT ![w] = "checkpoint"]
          \/ pc' = [pc EXCEPT ![w] = "mark"]
          \/ pc' = [pc EXCEPT ![w] = "sync"]
          \/ pc' = [pc EXCEPT ![w] = "idle"]
        BY <1>4 DEF Begin, Insert, Commit, Checkpoint, WriteMark, Finish, Fail, PublishHead
    <2>3. \A x \in Workers : pc'[x] = "recompute" => pc[x] = "recompute"
        BY <2>2 DEF TypeOK
    <2> QED BY <1>1, <2>1, <2>3
<1>5. ASSUME NEW w \in Workers, VerifyRead(w) PROVE Scanned'
    <2> DEFINE p == ProcOf[w]
    <2>1. /\ p \in Procs /\ phase[p] = "serving" /\ Up(p)
          /\ snap' = [snap EXCEPT ![w] = [chain |-> Visible(p), mark |-> mark]]
          /\ pc' = [pc EXCEPT ![w] = "recompute"]
          /\ used' = used /\ alarm' = alarm
        BY <1>0, <1>5 DEF VerifyRead, Up
    <2> HIDE DEF p
    <2>2. Verify(Visible(p), mark, used[p])
        <3>1. Linked(Visible(p))
            BY <2>1 DEF ChainsSound, Sound
        <3>2. /\ mark # NoMark /\ mark \in Macs(rows)
              /\ used[p] # NoAnchor => used[p] \in Macs(rows)
            BY <2>1 DEF Marked, NoMark, NoAnchor
        <3>3. Macs(rows) \subseteq Macs(Visible(p))
            BY <2>1, VisibleMacs
        <3> QED BY <3>1, <3>2, <3>3 DEF Verify
    <2>3. snap'[w] = [chain |-> Visible(p), mark |-> mark]
          /\ \A x \in Workers : x # w => pc'[x] = pc[x] /\ snap'[x] = snap[x]
        BY <2>1 DEF TypeOK
    <2>4. Verify(snap'[w].chain, snap'[w].mark, used'[p])
        BY <2>1, <2>2, <2>3
    <2>5. \A x \in Workers : pc'[x] = "recompute" =>
              Verify(snap'[x].chain, snap'[x].mark, used'[ProcOf[x]])
        BY <2>1, <2>3, <2>4 DEF Scanned, p
    <2> QED BY <2>1, <2>5 DEF Scanned
<1>6. ASSUME NEW w \in Workers, Recompute(w) PROVE Scanned'
    <2>1. /\ pc[w] = "recompute" /\ used' = used
          /\ alarm' = (alarm \/ ~Verify(snap[w].chain, snap[w].mark, used[ProcOf[w]]))
          /\ pc' = [pc EXCEPT ![w] = "publish"]
          /\ snap' = [snap EXCEPT ![w] = [chain |-> <<>>, mark |-> NoMark]]
        BY <1>6 DEF Recompute, MarkRead
    <2>2. ~alarm'
        <3>1. Verify(snap[w].chain, snap[w].mark, used[ProcOf[w]]) /\ ~alarm
            BY <2>1 DEF Scanned
        <3> QED BY <2>1, <3>1, Zenon
    <2>3. /\ pc'[w] = "publish"
          /\ \A x \in Workers : x # w => pc'[x] = pc[x] /\ snap'[x] = snap[x]
        BY <2>1 DEF TypeOK
    <2>4. \A x \in Workers : pc'[x] = "recompute" =>
              Verify(snap'[x].chain, snap'[x].mark, used'[ProcOf[x]])
        BY <2>1, <2>3 DEF Scanned
    <2> QED BY <2>2, <2>4 DEF Scanned
<1>7. ASSUME NEW p \in Procs, NEW left \in {mark, synced}, Crash(p, left) PROVE Scanned'
    BY <1>1, <1>7 DEF Crash
<1>8. CASE CopyFile \/ CopyMark \/ (\E left \in {mark, NoMark, copy.mark} : Restore(left))
           \/ UNCHANGED vars
    BY <1>1, <1>8 DEF CopyFile, CopyMark, Restore, vars, threads
<1> QED BY <1>2, <1>3, <1>4, <1>5, <1>6, <1>7, <1>8 DEF Next, Step

-----------------------------------------------------------------------------
(***************************************************************************)
(* What append has returned.                                               *)
(***************************************************************************)

LEMMA AcknowledgedNext ==
    /\ TypeOK /\ OneServer /\ Serialised /\ ChainsSound /\ InFlight /\ Marked
    /\ Acknowledged /\ [Next]_vars
    => Acknowledged'
<1> DEFINE Ahead == \A a \in acked : a <= mark /\ a <= synced
           Lost == /\ mark = NoMark /\ synced = NoMark /\ rows # <<>>
                   /\ \A p \in Procs : ~Up(p)
           Held == \A p \in Procs : Up(p) => acked \subseteq Macs(rows)
           Body == /\ acked \subseteq 1 .. nextMac - 1
                   /\ Covers(rows) /\ Covers(copy.chain) /\ Held
                   /\ Ahead \/ Lost
<1> SUFFICES ASSUME TypeOK, OneServer, Serialised, ChainsSound, InFlight, Marked,
                    Acknowledged, [Next]_vars, ~AllowUnmarked, "rewound" \notin restored'
             PROVE  Body'
    BY DEF Acknowledged
<1>0. /\ ProcOf \in [Workers -> Procs]
      /\ nextMac \in Nat \ {0} /\ rows \in Seq(Row) /\ copy.chain \in Seq(Row)
      /\ mark \in Nat /\ synced \in Nat
    BY AuditAssumption DEF TypeOK
<1>1. "rewound" \notin restored
    <2>1. restored \subseteq restored'
        BY DEF Next, Step, Claim, Start, Retry, Begin, Insert, Commit, Checkpoint, WriteMark,
               Finish, Fail, VerifyRead, Recompute, PublishHead, Crash, CopyFile, CopyMark,
               Restore, vars, operator
    <2> QED BY <2>1
<1>2. Body
    BY <1>1 DEF Acknowledged
<1>3. \A a \in acked : a \in Nat /\ 1 <= a /\ a <= nextMac - 1
    BY <1>0, <1>2
\* Nothing that counts has changed.
<1>4. ASSUME UNCHANGED <<rows, mark, synced, acked>>, copy'.chain = copy.chain,
             nextMac' = nextMac \/ nextMac' = nextMac + 1,
             \A p \in Procs : Up(p)' => Up(p)
      PROVE  Body'
    <2>1. acked' \subseteq 1 .. nextMac' - 1
        BY <1>0, <1>3, <1>4
    <2> QED BY <1>2, <1>4, <2>1 DEF Covers
<1>5. ASSUME NEW p \in Procs, Claim(p) \/ Retry(p) PROVE Body'
    <2>1. /\ UNCHANGED <<rows, mark, synced, acked, nextMac, copy>>
          /\ phase' = [phase EXCEPT ![p] = "claimed"] \/ phase' = [phase EXCEPT ![p] = "down"]
        BY <1>5 DEF Claim, Retry, disk, operator
    <2>2. \A o \in Procs : Up(o)' => Up(o)
        BY <2>1 DEF TypeOK, Up
    <2> QED BY <1>4, <2>1, <2>2
<1>6. ASSUME NEW w \in Workers,
             \/ Begin(w) \/ VerifyRead(w) \/ Insert(w) \/ Checkpoint(w) \/ Recompute(w)
             \/ \E pin \in BOOLEAN : PublishHead(w, pin)
      PROVE  Body'
    <2>1. /\ UNCHANGED <<rows, mark, synced, acked, copy, phase>>
          /\ nextMac' = nextMac \/ nextMac' = nextMac + 1
        BY <1>6 DEF Begin, VerifyRead, Insert, Checkpoint, Recompute, PublishHead, disk,
                    operator
    <2> QED BY <1>4, <2>1 DEF Up
<1>7. ASSUME NEW w \in Workers, Fail(w) PROVE Body'
    <2>1. UNCHANGED <<rows, mark, synced, acked, nextMac, copy>>
        BY <1>7 DEF Fail, disk, operator
    <2>2. phase' = phase \/ phase' = [phase EXCEPT ![ProcOf[w]] = "down"]
        BY <1>7, FailFacts
    <2>3. \A o \in Procs : Up(o)' => Up(o)
        BY <2>2 DEF TypeOK, Up
    <2> QED BY <1>4, <2>1, <2>3
<1>8. CASE CopyMark \/ UNCHANGED vars
    <2>1. UNCHANGED <<rows, mark, synced, acked, nextMac, phase>> /\ copy'.chain = copy.chain
        <3>1. CASE CopyMark
            BY <3>1 DEF CopyMark, disk, TypeOK
        <3>2. CASE UNCHANGED vars
            BY <3>2 DEF vars, disk, operator
        <3> QED BY <1>8, <3>1, <3>2
    <2> QED BY <1>4, <2>1 DEF Up
\* A server that starts holds its mark, and so everything before it.
<1>9. ASSUME NEW p \in Procs, Start(p) PROVE Body'
    <2>1. /\ UNCHANGED <<rows, mark, synced, acked, nextMac, copy>>
          /\ \A o \in Procs : o # p /\ Up(o)' => Up(o)
        BY <1>9, StartFacts DEF Up
    <2>2. CASE Up(p)'
        <3>1. /\ {mark, anchor} \ {NoMark} \subseteq Macs(rows)
              /\ mark = NoMark => rows = <<>>
            BY <1>9, <2>2, StartFacts
        <3>2. Ahead
            BY <1>2, <3>1
        <3>3. \A a \in acked : a \in Macs(rows)
            <4> SUFFICES ASSUME NEW a \in acked PROVE a \in Macs(rows)
                OBVIOUS
            <4>1. a <= mark /\ 1 <= a /\ a \in Nat
                BY <1>3, <3>2
            <4>2. mark # NoMark
                BY <1>0, <4>1 DEF NoMark
            <4> QED BY <1>2, <3>1, <4>1, <4>2 DEF Covers
        <3> QED BY <1>2, <2>1, <3>2, <3>3 DEF Covers
    <2>3. CASE ~Up(p)'
        BY <1>4, <2>1, <2>3
    <2> QED BY <2>2, <2>3
<1>10. ASSUME NEW w \in Workers, Commit(w) PROVE Body'
    <2>1. Up(ProcOf[w]) /\ ProcOf[w] \in Procs
        BY <1>0, <1>10 DEF Commit, Serialised
    <2>2. /\ rows' = Visible(ProcOf[w])
          /\ UNCHANGED <<mark, synced, acked, nextMac, copy, phase>>
        BY <1>10 DEF Commit, operator
    <2>3. acked \subseteq Macs(rows')
        BY <1>2, <2>1, <2>2, VisibleMacs
    <2>4. Ahead
        BY <1>2, <2>1
    <2> QED BY <1>2, <2>2, <2>3, <2>4 DEF Covers, Up
<1>11. ASSUME NEW w \in Workers, WriteMark(w) PROVE Body'
    <2>1. Up(ProcOf[w]) /\ ProcOf[w] \in Procs /\ mac[w] + 1 = nextMac /\ mac[w] \in Nat
        BY <1>0, <1>11 DEF WriteMark, Serialised, InFlight, AppendSteps, TypeOK
    <2>2. mark' = mac[w] /\ UNCHANGED <<rows, synced, acked, nextMac, copy, phase>>
        BY <1>11 DEF WriteMark, operator
    <2>3. Ahead
        BY <1>2, <2>1
    <2>4. \A a \in acked : a <= mac[w]
        BY <1>3, <2>1
    <2> QED BY <1>2, <2>2, <2>3, <2>4 DEF Covers, Up
<1>12. ASSUME NEW w \in Workers, Finish(w) PROVE Body'
    <2>1. /\ Up(ProcOf[w]) /\ ProcOf[w] \in Procs /\ mac[w] + 1 = nextMac
          /\ mac[w] \in Nat /\ mac[w] \in Macs(rows) /\ mark = mac[w]
        BY <1>0, <1>12 DEF Finish, Serialised, InFlight, AppendSteps, TypeOK
    <2>2. /\ synced' = mark /\ acked' = acked \cup {mac[w]}
          /\ phase' = [phase EXCEPT ![ProcOf[w]] = "serving"]
          /\ UNCHANGED <<rows, mark, nextMac, copy>>
        BY <1>12 DEF Finish, operator
    <2>3. \A o \in Procs : Up(o)' => Up(o)
        BY <2>1, <2>2 DEF TypeOK, Up
    <2>4. 1 <= mac[w]
        BY <1>0, <2>1, SoundMacs DEF ChainsSound
    <2>5. acked' \subseteq 1 .. nextMac' - 1
        BY <1>0, <1>3, <2>1, <2>2, <2>4
    <2>6. Held'
        BY <1>2, <2>1, <2>2, <2>3
    <2>7. \A a \in acked : a <= mac[w]
        BY <1>3, <2>1
    <2>8. Ahead'
        BY <2>1, <2>2, <2>7
    <2>9. ASSUME NEW chain \in Seq(Row), Sound(chain, nextMac), Covers(chain)
          PROVE  \A m \in Macs(chain), a \in acked' : a <= m => a \in Macs(chain)
        <3> SUFFICES ASSUME NEW m \in Macs(chain), mac[w] <= m PROVE mac[w] \in Macs(chain)
            BY <2>2, <2>9 DEF Covers
        <3>1. m \in Nat /\ m < nextMac
            BY <1>0, <2>9, SoundMacs
        <3> QED BY <2>1, <3>1
    <2>10. Covers(rows)' /\ Covers(copy.chain)'
        BY <1>0, <1>2, <2>2, <2>9 DEF ChainsSound, Covers
    <2> QED BY <2>5, <2>6, <2>8, <2>10
<1>13. ASSUME NEW p \in Procs, NEW left \in {mark, synced}, Crash(p, left) PROVE Body'
    <2>1. /\ \A o \in Procs : ~Up(o)'
          /\ mark' = left /\ synced' = left
          /\ UNCHANGED <<rows, acked, nextMac, copy>>
        BY <1>13, CrashFacts
    <2>2. Ahead' \/ Lost'
        BY <1>2, <2>1
    <2> QED BY <1>2, <2>1, <2>2 DEF Covers
<1>14. CASE CopyFile
    <2>1. /\ copy'.chain = SubSeq(rows, 1, inFile)
          /\ UNCHANGED <<rows, mark, synced, acked, nextMac, phase>>
        BY <1>14 DEF CopyFile, disk, TypeOK
    <2>2. inFile \in Nat /\ inFile <= Len(rows) /\ Sound(rows, nextMac)
        BY DEF TypeOK, ChainsSound
    <2>3. ASSUME NEW m \in Macs(SubSeq(rows, 1, inFile)), NEW a \in acked, a <= m
          PROVE  a \in Macs(SubSeq(rows, 1, inFile))
        <3>1. m \in Macs(rows)
            <4>1. /\ DOMAIN SubSeq(rows, 1, inFile) = 1 .. inFile
                  /\ 1 .. inFile \subseteq DOMAIN rows
                  /\ \A i \in 1 .. inFile : SubSeq(rows, 1, inFile)[i] = rows[i]
                BY <1>0, <2>2, PrefixFacts
            <4> QED BY <4>1 DEF Macs
        <3>2. a \in Macs(rows)
            BY <1>2, <2>3, <3>1 DEF Covers
        <3> QED BY <1>0, <2>2, <2>3, <3>2, PrefixClosed
    <2>4. Covers(copy.chain)'
        BY <2>1, <2>3 DEF Covers
    <2> QED BY <1>2, <2>1, <2>4 DEF Covers, Up
<1>15. ASSUME NEW left \in {mark, NoMark, copy.mark}, Restore(left) PROVE Body'
    <2>1. /\ rows' = copy.chain /\ nextMac' = nextMac /\ copy' = copy
          /\ \A o \in Procs : ~Up(o)
        BY <1>15, RestoreChains
    <2>2. mark' = left /\ synced' = left /\ acked' = acked /\ phase' = phase
        BY <1>15 DEF Restore
    <2>3. left \in {mark, NoMark} /\ ~(left = NoMark /\ copy.chain = <<>>)
        BY <1>15 DEF Restore
    <2>4. \A o \in Procs : ~Up(o)'
        BY <2>1, <2>2 DEF Up
    <2>5. CASE left = NoMark
        BY <1>2, <2>1, <2>2, <2>3, <2>4, <2>5 DEF Covers
    <2>6. CASE left # NoMark
        <3>1. Ahead /\ left = mark
            BY <1>2, <2>3, <2>6
        <3> QED BY <1>2, <2>1, <2>2, <2>4, <3>1 DEF Covers
    <2> QED BY <2>5, <2>6
<1> QED BY <1>5, <1>6, <1>7, <1>8, <1>9, <1>10, <1>11, <1>12, <1>13, <1>14, <1>15
        DEF Next, Step

-----------------------------------------------------------------------------
(***************************************************************************)
(* The database file.                                                      *)
(***************************************************************************)

\* A prefix as long as the chain holds what the chain holds, and a chain's
\* growth changes none of its prefixes.
LEMMA WholePrefix ==
    ASSUME NEW chain \in Seq(Row)
    PROVE  Macs(SubSeq(chain, 1, Len(chain))) = Macs(chain)
<1>1. Len(chain) \in Nat /\ DOMAIN chain = 1 .. Len(chain)
    BY RowAt
<1>2. /\ DOMAIN SubSeq(chain, 1, Len(chain)) = 1 .. Len(chain)
      /\ \A i \in 1 .. Len(chain) : SubSeq(chain, 1, Len(chain))[i] = chain[i]
    BY <1>1, PrefixFacts
<1> QED BY <1>1, <1>2 DEF Macs

LEMMA PrefixMacs ==
    ASSUME NEW chain \in Seq(Row), NEW k \in Nat, k <= Len(chain)
    PROVE  Macs(SubSeq(chain, 1, k)) \subseteq Macs(chain)
<1>1. /\ DOMAIN SubSeq(chain, 1, k) = 1 .. k /\ 1 .. k \subseteq DOMAIN chain
      /\ \A i \in 1 .. k : SubSeq(chain, 1, k)[i] = chain[i]
    BY PrefixFacts
<1> QED BY <1>1 DEF Macs

LEMMA PrefixOfConcat ==
    ASSUME NEW s \in Seq(Row), NEW t \in Seq(Row), NEW k \in Nat, k <= Len(s)
    PROVE  Macs(SubSeq(s \o t, 1, k)) = Macs(SubSeq(s, 1, k))
<1>1. /\ s \o t \in Seq(Row) /\ Len(s \o t) = Len(s) + Len(t)
      /\ \A i \in 1 .. Len(s) + Len(t) :
             (s \o t)[i] = IF i <= Len(s) THEN s[i] ELSE t[i - Len(s)]
    BY ConcatProperties
<1>2. Len(s) \in Nat /\ Len(t) \in Nat
    BY RowAt
<1>3. k <= Len(s \o t)
    BY <1>1, <1>2
<1>4. /\ DOMAIN SubSeq(s \o t, 1, k) = 1 .. k
      /\ \A i \in 1 .. k : SubSeq(s \o t, 1, k)[i] = (s \o t)[i]
    BY <1>1, <1>3, PrefixFacts
<1>5. /\ DOMAIN SubSeq(s, 1, k) = 1 .. k
      /\ \A i \in 1 .. k : SubSeq(s, 1, k)[i] = s[i]
    BY PrefixFacts
<1>6. \A i \in 1 .. k : (s \o t)[i] = s[i]
    BY <1>1, <1>2
<1> QED BY <1>4, <1>5, <1>6 DEF Macs

LEMMA CopiedOutNext ==
    TypeOK /\ OneServer /\ Serialised /\ InFlight /\ CopiedOut /\ [Next]_vars => CopiedOut'
<1> SUFFICES ASSUME TypeOK, OneServer, Serialised, InFlight, CopiedOut, [Next]_vars,
                    restored' = {}, "reader" \notin Faults
             PROVE  /\ acked' \subseteq Macs(SubSeq(rows', 1, inFile'))
                    /\ \A x \in Workers :
                           pc'[x] \in {"mark", "sync"} =>
                               mac'[x] \in Macs(SubSeq(rows', 1, inFile'))
    BY DEF CopiedOut
<1> DEFINE filed == Macs(SubSeq(rows, 1, inFile))
           filedNext == Macs(SubSeq(rows', 1, inFile'))
<1>0. /\ ProcOf \in [Workers -> Procs]
      /\ rows \in Seq(Row) /\ inFile \in Nat /\ inFile <= Len(rows)
      /\ restored = {} => /\ acked \subseteq filed
                          /\ \A x \in Workers : pc[x] \in {"mark", "sync"} => mac[x] \in filed
    BY AuditAssumption DEF TypeOK, CopiedOut
\* An action that takes no thread past its checkpoint and drops nothing.
<1>1. ASSUME restored' = restored, acked' = acked, filed \subseteq filedNext,
             \A x \in Workers : pc'[x] \in {"mark", "sync"} =>
                 pc[x] \in {"mark", "sync"} /\ mac'[x] = mac[x]
      PROVE  acked' \subseteq filedNext
             /\ \A x \in Workers : pc'[x] \in {"mark", "sync"} => mac'[x] \in filedNext
    <2> HIDE DEF filed, filedNext
    <2> QED BY <1>0, <1>1
<1>2. ASSUME NEW p \in Procs, Claim(p) \/ Start(p) \/ Retry(p)
      PROVE  acked' \subseteq filedNext
             /\ \A x \in Workers : pc'[x] \in {"mark", "sync"} => mac'[x] \in filedNext
    BY <1>1, <1>2 DEF Claim, Start, Retry, disk, threads, operator
<1>3. ASSUME NEW w \in Workers, Begin(w) \/ VerifyRead(w) \/ Fail(w) \/ Recompute(w)
                                \/ (\E pin \in BOOLEAN : PublishHead(w, pin))
      PROVE  acked' \subseteq filedNext
             /\ \A x \in Workers : pc'[x] \in {"mark", "sync"} => mac'[x] \in filedNext
    <2>1. /\ rows' = rows /\ inFile' = inFile /\ restored' = restored /\ acked' = acked
          /\ mac' = mac
          /\ \/ pc' = [pc EXCEPT ![w] = "insert"]
             \/ pc' = [pc EXCEPT ![w] = "idle"]
             \/ pc' = [pc EXCEPT ![w] = "recompute"]
             \/ pc' = [pc EXCEPT ![w] = "publish"]
        BY <1>3 DEF Begin, VerifyRead, Fail, Recompute, PublishHead, disk, operator
    <2>2. \A x \in Workers : pc'[x] \in {"mark", "sync"} => pc[x] \in {"mark", "sync"}
        BY <2>1 DEF TypeOK
    <2> QED BY <1>1, <2>1, <2>2
<1>4. ASSUME NEW w \in Workers, Insert(w)
      PROVE  acked' \subseteq filedNext
             /\ \A x \in Workers : pc'[x] \in {"mark", "sync"} => mac'[x] \in filedNext
    <2>1. /\ rows' = rows /\ inFile' = inFile /\ restored' = restored /\ acked' = acked
          /\ mac' = [mac EXCEPT ![w] = nextMac] /\ pc' = [pc EXCEPT ![w] = "commit"]
        BY <1>4 DEF Insert, disk, operator
    <2>2. \A x \in Workers : pc'[x] \in {"mark", "sync"} =>
              pc[x] \in {"mark", "sync"} /\ mac'[x] = mac[x]
        BY <2>1 DEF TypeOK
    <2> QED BY <1>1, <2>1, <2>2
<1>5. ASSUME NEW w \in Workers, Commit(w)
      PROVE  acked' \subseteq filedNext
             /\ \A x \in Workers : pc'[x] \in {"mark", "sync"} => mac'[x] \in filedNext
    <2>1. /\ rows' = rows \o unsaved[ProcOf[w]] /\ inFile' = inFile /\ restored' = restored
          /\ acked' = acked /\ mac' = mac /\ pc' = [pc EXCEPT ![w] = "checkpoint"]
        BY <1>5 DEF Commit, Visible, operator
    <2>2. unsaved[ProcOf[w]] \in Seq(Row)
        BY <1>0 DEF TypeOK
    <2>3. filedNext = filed
        BY <1>0, <2>1, <2>2, PrefixOfConcat
    <2>4. \A x \in Workers : pc'[x] \in {"mark", "sync"} => pc[x] \in {"mark", "sync"}
        BY <2>1 DEF TypeOK
    <2> HIDE DEF filed, filedNext
    <2> QED BY <1>1, <2>1, <2>3, <2>4
<1>6. ASSUME NEW w \in Workers, Checkpoint(w)
      PROVE  acked' \subseteq filedNext
             /\ \A x \in Workers : pc'[x] \in {"mark", "sync"} => mac'[x] \in filedNext
    <2>1. /\ rows' = rows /\ inFile' = Len(rows) /\ restored' = restored
          /\ acked' = acked /\ mac' = mac
          /\ pc[w] = "checkpoint" /\ pc' = [pc EXCEPT ![w] = "mark"]
        BY <1>6 DEF Checkpoint, operator
    <2>2. filedNext = Macs(rows)
        BY <1>0, <2>1, WholePrefix
    <2>3. filed \subseteq Macs(rows)
        BY <1>0, PrefixMacs
    <2>4. mac'[w] \in Macs(rows)
        BY <2>1 DEF InFlight
    <2>5. \A x \in Workers : x # w => pc'[x] \notin {"mark", "sync"}
        <3>1. \A x \in Workers : x # w => pc[x] \notin AppendSteps
            BY <2>1, Alone DEF AppendSteps
        <3> QED BY <2>1, <3>1 DEF AppendSteps, TypeOK
    <2> HIDE DEF filed, filedNext
    <2> QED BY <1>0, <2>1, <2>2, <2>3, <2>4, <2>5
<1>7. ASSUME NEW w \in Workers, WriteMark(w)
      PROVE  acked' \subseteq filedNext
             /\ \A x \in Workers : pc'[x] \in {"mark", "sync"} => mac'[x] \in filedNext
    <2>1. /\ rows' = rows /\ inFile' = inFile /\ restored' = restored /\ acked' = acked
          /\ mac' = mac /\ pc[w] = "mark" /\ pc' = [pc EXCEPT ![w] = "sync"]
        BY <1>7 DEF WriteMark, operator
    <2>2. \A x \in Workers : pc'[x] \in {"mark", "sync"} => pc[x] \in {"mark", "sync"}
        BY <2>1 DEF TypeOK
    <2> QED BY <1>1, <2>1, <2>2
<1>8. ASSUME NEW w \in Workers, Finish(w)
      PROVE  acked' \subseteq filedNext
             /\ \A x \in Workers : pc'[x] \in {"mark", "sync"} => mac'[x] \in filedNext
    <2>1. /\ rows' = rows /\ inFile' = inFile /\ restored' = restored
          /\ acked' = acked \cup {mac[w]} /\ mac' = mac
          /\ pc[w] = "sync" /\ pc' = [pc EXCEPT ![w] = "idle"]
        BY <1>8 DEF Finish, operator
    <2>2. \A x \in Workers : pc'[x] \in {"mark", "sync"} => pc[x] \in {"mark", "sync"}
        BY <2>1 DEF TypeOK
    <2>3. filedNext = filed
        BY <2>1
    <2> HIDE DEF filed, filedNext
    <2> QED BY <1>0, <2>1, <2>2, <2>3
<1>9. ASSUME NEW p \in Procs, NEW left \in {mark, synced}, Crash(p, left)
      PROVE  acked' \subseteq filedNext
             /\ \A x \in Workers : pc'[x] \in {"mark", "sync"} => mac'[x] \in filedNext
    <2>1. /\ rows' = rows /\ inFile' = inFile /\ restored' = restored /\ acked' = acked
          /\ mac' = mac
          /\ \A x \in Workers : pc'[x] = "idle" \/ pc'[x] = pc[x]
        BY <1>9 DEF Crash, operator
    <2> QED BY <1>1, <2>1
<1>10. CASE CopyFile \/ CopyMark \/ UNCHANGED vars
    BY <1>1, <1>10 DEF CopyFile, CopyMark, vars, disk, threads, operator
<1>11. \A left : ~Restore(left)
    BY DEF Restore
<1> QED BY <1>2, <1>3, <1>4, <1>5, <1>6, <1>7, <1>8, <1>9, <1>10, <1>11 DEF Next, Step

-----------------------------------------------------------------------------
(***************************************************************************)
(* The anchor.                                                             *)
(***************************************************************************)

\* c is d, or the rows of d up to one of them.
BeginsOf(c, d) ==
    /\ DOMAIN c \subseteq DOMAIN d
    /\ \A i \in DOMAIN c : c[i] = d[i] /\ 1 .. i \subseteq DOMAIN c

LEMMA BeginsItself ==
    ASSUME NEW chain \in Seq(Row)
    PROVE  BeginsOf(chain, chain)
<1>1. DOMAIN chain = 1 .. Len(chain) /\ Len(chain) \in Nat
    BY RowAt
<1> QED BY <1>1 DEF BeginsOf

LEMMA AgreeBegins ==
    ASSUME NEW c, NEW d, NEW a, NEW b, Agree(a, b), BeginsOf(c, a), BeginsOf(d, b)
    PROVE  Agree(c, d)
<1> SUFFICES ASSUME NEW i \in DOMAIN c, NEW j \in DOMAIN d, c[i].mac = d[j].mac
             PROVE  i = j /\ \A k \in 1 .. i : c[k] = d[k]
    BY DEF Agree
<1>1. i \in DOMAIN a /\ j \in DOMAIN b /\ a[i].mac = b[j].mac
    BY DEF BeginsOf
<1>2. i = j /\ \A k \in 1 .. i : a[k] = b[k]
    BY <1>1 DEF Agree
<1>3. \A k \in 1 .. i : k \in DOMAIN c /\ k \in DOMAIN d
    BY <1>2 DEF BeginsOf
<1> QED BY <1>2, <1>3 DEF BeginsOf

\* A row with a new number is in no other chain.
LEMMA AgreeAppend ==
    ASSUME NEW c \in Seq(Row), NEW d \in Seq(Row), NEW n \in Nat, NEW row \in Row,
           row.mac = n, Sound(d, n), Agree(c, d), Agree(d, c)
    PROVE  Agree(Append(c, row), d) /\ Agree(d, Append(c, row))
<1> DEFINE longer == Append(c, row)
<1>1. /\ longer \in Seq(Row) /\ Len(longer) = Len(c) + 1
      /\ \A i \in 1 .. Len(c) : longer[i] = c[i]
      /\ longer[Len(c) + 1] = row
    BY AppendProperties
<1>2. /\ DOMAIN longer = 1 .. Len(c) + 1 /\ DOMAIN c = 1 .. Len(c) /\ Len(c) \in Nat
      /\ DOMAIN d = 1 .. Len(d) /\ Len(d) \in Nat
    BY <1>1, RowAt
<1>3. \A j \in DOMAIN d : d[j].mac # n
    BY RowAt DEF Sound
<1> HIDE DEF longer
<1>4. ASSUME NEW i \in DOMAIN longer, NEW j \in DOMAIN d, longer[i].mac = d[j].mac
      PROVE  i = j /\ \A k \in 1 .. i : longer[k] = d[k]
    <2>1. i \in 1 .. Len(c)
        BY <1>1, <1>2, <1>3, <1>4
    <2>2. i \in DOMAIN c /\ c[i].mac = d[j].mac
        BY <1>1, <1>2, <1>4, <2>1
    <2>3. i = j /\ \A k \in 1 .. i : c[k] = d[k]
        BY <2>2 DEF Agree
    <2>4. \A k \in 1 .. i : longer[k] = c[k]
        BY <1>1, <1>2, <2>1
    <2> QED BY <2>3, <2>4
<1>5. Agree(longer, d)
    BY <1>4 DEF Agree
<1>6. Agree(d, longer)
    <2> SUFFICES ASSUME NEW j \in DOMAIN d, NEW i \in DOMAIN longer, d[j].mac = longer[i].mac
                 PROVE  j = i /\ \A k \in 1 .. j : d[k] = longer[k]
        BY DEF Agree
    <2> QED BY <1>4
<1> QED BY <1>5, <1>6 DEF longer

\* A sound chain agrees with itself.
LEMMA AgreeItself ==
    ASSUME NEW c \in Seq(Row), NEW n \in Nat, Sound(c, n)
    PROVE  Agree(c, c)
<1>1. DOMAIN c = 1 .. Len(c) /\ Len(c) \in Nat /\ \A i \in DOMAIN c : c[i].mac \in Nat
    BY RowAt
<1>2. \A i, j \in DOMAIN c : c[i].mac = c[j].mac => ~(i < j) /\ ~(j < i)
    BY <1>1 DEF Sound
<1>3. \A i, j \in DOMAIN c : c[i].mac = c[j].mac => i = j
    BY <1>1, <1>2
<1> QED BY <1>3 DEF Agree

\* If every chain after a step is the beginning of one before it, they agree.
LEMMA ChainsBegin ==
    ASSUME \A c, d \in Chains : Agree(c, d),
           \A c \in Chains' : \E a \in Chains : BeginsOf(c, a)
    PROVE  \A c, d \in Chains' : Agree(c, d)
<1> SUFFICES ASSUME NEW c \in Chains', NEW d \in Chains' PROVE Agree(c, d)
    OBVIOUS
<1>1. PICK a \in Chains : BeginsOf(c, a)
    OBVIOUS
<1>2. PICK b \in Chains : BeginsOf(d, b)
    OBVIOUS
<1> QED BY <1>1, <1>2, AgreeBegins

LEMMA ChainsTyped ==
    ASSUME TypeOK
    PROVE  \A c \in Chains : c \in Seq(Row) /\ BeginsOf(c, c)
<1>1. \A c \in Chains : c \in Seq(Row)
    BY VisibleTyped DEF Chains, TypeOK
<1> QED BY <1>1, BeginsItself

LEMMA PinnedNext ==
    ASSUME TypeOK, ChainsSound, Anchored, [Next]_vars
    PROVE  anchor' = HeadOf(pinned') /\ Sound(pinned', nextMac')
<1>0. anchor = HeadOf(pinned) /\ Sound(pinned, nextMac) /\ pinned \in Seq(Row)
      /\ nextMac \in Nat /\ nextMac + 1 \in Nat /\ nextMac <= nextMac + 1
    BY DEF Anchored, TypeOK
<1>1. ASSUME anchor' = anchor, pinned' = pinned, nextMac' = nextMac
      PROVE  anchor' = HeadOf(pinned') /\ Sound(pinned', nextMac')
    BY <1>0, <1>1
<1>2. ASSUME NEW w \in Workers, NEW pin \in BOOLEAN, PublishHead(w, pin)
      PROVE  anchor' = HeadOf(pinned') /\ Sound(pinned', nextMac')
    <2>1. ProcOf[w] \in Procs /\ nextMac' = nextMac
        BY <1>2, AuditAssumption DEF PublishHead
    <2>2. CASE pin
        BY <1>2, <2>1, <2>2 DEF PublishHead, ChainHead, ChainsSound
    <2>3. CASE ~pin
        BY <1>1, <1>2, <2>1, <2>3 DEF PublishHead
    <2> QED BY <2>2, <2>3
<1>3. ASSUME NEW w \in Workers, Insert(w)
      PROVE  anchor' = HeadOf(pinned') /\ Sound(pinned', nextMac')
    <2>1. anchor' = anchor /\ pinned' = pinned /\ nextMac' = nextMac + 1
        BY <1>3 DEF Insert, operator
    <2> QED BY <1>0, <2>1, SoundLater
<1>4. CASE /\ ~(\E w \in Workers : Insert(w))
           /\ ~(\E w \in Workers, pin \in BOOLEAN : PublishHead(w, pin))
    <2>1. anchor' = anchor /\ pinned' = pinned /\ nextMac' = nextMac
        BY <1>4 DEF Next, Step, Claim, Start, Retry, Begin, VerifyRead, Commit, Checkpoint,
                    WriteMark, Finish, Fail, Recompute, Crash, CopyFile, CopyMark, Restore,
                    vars, operator
    <2> QED BY <1>1, <2>1
<1> QED BY <1>2, <1>3, <1>4

LEMMA AnchoredNext ==
    TypeOK /\ OneServer /\ Serialised /\ InFlight /\ ChainsSound /\ Anchored /\ [Next]_vars
        => Anchored'
<1> SUFFICES ASSUME TypeOK, OneServer, Serialised, InFlight, ChainsSound, Anchored,
                    [Next]_vars
             PROVE  \A c, d \in Chains' : Agree(c, d)
    BY PinnedNext DEF Anchored
<1>0. /\ ProcOf \in [Workers -> Procs]
      /\ \A c, d \in Chains : Agree(c, d)
      /\ \A c \in Chains : c \in Seq(Row) /\ BeginsOf(c, c)
      /\ rows \in Chains /\ copy.chain \in Chains /\ pinned \in Chains
      /\ \A p \in Procs : Visible(p) \in Chains
    BY AuditAssumption, ChainsTyped DEF Anchored, Chains
\* Every action but an insertion only drops, moves or cuts chains.
<1>1. ASSUME \E a \in Chains : BeginsOf(rows', a),
             \E a \in Chains : BeginsOf(copy'.chain, a),
             \E a \in Chains : BeginsOf(pinned', a),
             \A p \in Procs : \E a \in Chains : BeginsOf(Visible(p)', a)
      PROVE  \A c, d \in Chains' : Agree(c, d)
    <2>1. \A c \in Chains' : \E a \in Chains : BeginsOf(c, a)
        BY <1>1 DEF Chains
    <2> QED BY <1>0, <2>1, ChainsBegin
<1>2. CASE Quiet
    <2>1. /\ rows' = rows /\ copy'.chain = copy.chain
          /\ \A p \in Procs : Visible(p)' = Visible(p)
        BY <1>2, QuietChains
    <2>2. pinned' = pinned \/ \E p \in Procs : pinned' = Visible(p)
        BY <1>0, <1>2 DEF Quiet, Claim, Start, Retry, Begin, VerifyRead, Checkpoint,
                          WriteMark, Finish, Recompute, PublishHead, CopyMark, vars, operator
    <2> QED BY <1>0, <1>1, <2>1, <2>2
<1>3. ASSUME NEW w \in Workers, Commit(w) PROVE \A c, d \in Chains' : Agree(c, d)
    <2>1. copy' = copy /\ pinned' = pinned
        BY <1>3 DEF Commit, operator
    <2> QED BY <1>0, <1>1, <1>3, <2>1, CommitChains
<1>4. ASSUME NEW p \in Procs, rows' = rows, copy' = copy, pinned' = pinned,
             unsaved' = unsaved \/ unsaved' = [unsaved EXCEPT ![p] = <<>>]
      PROVE  \A c, d \in Chains' : Agree(c, d)
    BY <1>0, <1>1, <1>4, RollbackChains
<1>5. ASSUME NEW w \in Workers, Fail(w) PROVE \A c, d \in Chains' : Agree(c, d)
    <2>1. rows' = rows /\ copy' = copy /\ pinned' = pinned
        BY <1>5 DEF Fail, disk, operator
    <2> QED BY <1>0, <1>4, <1>5, <2>1, FailFacts
<1>6. ASSUME NEW p \in Procs, NEW left \in {mark, synced}, Crash(p, left)
      PROVE  \A c, d \in Chains' : Agree(c, d)
    BY <1>4, <1>6 DEF Crash, operator
<1>7. CASE CopyFile
    <2>1. /\ rows' = rows /\ unsaved' = unsaved /\ pinned' = pinned
          /\ copy'.chain = SubSeq(rows, 1, inFile)
        BY <1>7 DEF CopyFile, disk, TypeOK
    <2>2. BeginsOf(copy'.chain, rows)
        <3>1. rows \in Seq(Row) /\ inFile \in Nat /\ inFile <= Len(rows)
            BY DEF TypeOK
        <3>2. /\ DOMAIN SubSeq(rows, 1, inFile) = 1 .. inFile
              /\ 1 .. inFile \subseteq DOMAIN rows
              /\ \A i \in 1 .. inFile : SubSeq(rows, 1, inFile)[i] = rows[i]
            BY <3>1, PrefixFacts
        <3>3. \A i \in 1 .. inFile : 1 .. i \subseteq 1 .. inFile
            BY <3>1
        <3> QED BY <2>1, <3>2, <3>3 DEF BeginsOf
    <2>3. \A p \in Procs : Visible(p)' = Visible(p)
        BY <2>1 DEF Visible
    <2> QED BY <1>0, <1>1, <2>1, <2>2, <2>3
<1>8. ASSUME NEW left, Restore(left) PROVE \A c, d \in Chains' : Agree(c, d)
    <2>1. pinned' = pinned
        BY <1>8 DEF Restore
    <2> QED BY <1>0, <1>1, <1>8, <2>1, RestoreChains
\* An insertion's number is in no chain but the one it makes longer.
<1>9. ASSUME NEW w \in Workers, Insert(w) PROVE \A c, d \in Chains' : Agree(c, d)
    <2> DEFINE p == ProcOf[w]
               row == [prev |-> HeadOf(Visible(p)), mac |-> nextMac]
               longer == Append(Visible(p), row)
    <2>1. p \in Procs /\ nextMac \in Nat \ {0}
        BY <1>0 DEF TypeOK
    <2>2. rows' = rows /\ copy' = copy /\ pinned' = pinned
        BY <1>9 DEF Insert, disk, operator
    <2>3. Visible(p)' = longer /\ \A o \in Procs : o # p => Visible(o)' = Visible(o)
        BY <1>9, InsertChains
    <2>4. row \in Row /\ row.mac = nextMac
        BY <2>1, VisibleTyped DEF Row, ChainHead
    <2>5. \A d \in Chains : Sound(d, nextMac)
        BY DEF Chains, ChainsSound, Anchored
    <2>6. longer \in Seq(Row) /\ Sound(longer, nextMac + 1)
        BY <1>0, <2>1, <2>4, <2>5, SoundAppend, AppendProperties
    <2>7. Visible(p) \in Chains
        BY <1>0, <2>1
    <2>8. Chains' \subseteq Chains \cup {longer}
        <3> HIDE DEF p, longer
        <3> QED BY <2>2, <2>3 DEF Chains
    <2>9. Agree(longer, longer)
        <3>1. nextMac + 1 \in Nat
            BY <2>1
        <3> HIDE DEF longer
        <3> QED BY <2>6, <3>1, AgreeItself
    <2>10. \A d \in Chains : Agree(longer, d) /\ Agree(d, longer)
        <3> HIDE DEF p, row
        <3> QED BY <1>0, <2>1, <2>4, <2>5, <2>7, AgreeAppend
    <2> HIDE DEF longer, p, row
    <2> QED BY <1>0, <2>8, <2>9, <2>10
<1> QED BY <1>2, <1>3, <1>5, <1>6, <1>7, <1>8, <1>9, NextCases

-----------------------------------------------------------------------------
(***************************************************************************)
(* The theorems.                                                           *)
(***************************************************************************)

LEMMA AuditInit == Init => AuditInv
<1> SUFFICES ASSUME Init PROVE AuditInv
    OBVIOUS
<1>0. ProcOf \in [Workers -> Procs] /\ NoProc \notin Procs /\ NoWorker \notin Workers
    BY AuditAssumption
<1>1. /\ rows = <<>> /\ copy.chain = <<>> /\ acked = {} /\ nextMac = 1
      /\ \A p \in Procs : /\ phase[p] = "down" /\ lock[p] = NoWorker /\ unsaved[p] = <<>>
      /\ \A w \in Workers : pc[w] = "idle"
      /\ mark = NoMark /\ synced = NoMark /\ ~alarm /\ claim = NoProc
    BY DEF Init, PerProc, PerWorker
<1>2. \A p \in Procs : ~Up(p) /\ Visible(p) = <<>>
    <2>1. <<>> \o <<>> = <<>>
        BY EmptySeq, ConcatEmptySeq
    <2> QED BY <1>1, <2>1 DEF Up, Visible
<1>3. OneServer
    BY <1>0, <1>1 DEF OneServer
<1>4. Serialised
    BY <1>0, <1>1 DEF Serialised, AppendSteps
<1>5. ChainsSound
    BY <1>1, <1>2, SoundEmpty DEF ChainsSound
<1>6. InFlight
    BY <1>1 DEF InFlight, AppendSteps
<1>7. Marked
    BY <1>1, <1>2 DEF Marked
<1>8. Acknowledged
    BY <1>1, <1>2, MacsOfEmpty DEF Acknowledged, Covers
<1>9. Scanned
    BY <1>1 DEF Scanned
<1> QED BY <1>3, <1>4, <1>5, <1>6, <1>7, <1>8, <1>9 DEF AuditInv

LEMMA EmptyAnchored == Init => CopiedOut /\ Anchored
<1> SUFFICES ASSUME Init PROVE CopiedOut /\ Anchored
    OBVIOUS
<1>1. /\ rows = <<>> /\ copy.chain = <<>> /\ pinned = <<>> /\ acked = {}
      /\ anchor = 0 /\ nextMac = 1
      /\ \A p \in Procs : unsaved[p] = <<>>
      /\ \A w \in Workers : pc[w] = "idle"
    BY DEF Init, PerProc, PerWorker, NoAnchor
<1>2. \A p \in Procs : Visible(p) = <<>>
    <2>1. <<>> \o <<>> = <<>>
        BY EmptySeq, ConcatEmptySeq
    <2> QED BY <1>1, <2>1 DEF Visible
<1>3. CopiedOut
    BY <1>1 DEF CopiedOut
<1>4. \A c \in Chains : c = <<>>
    BY <1>1, <1>2 DEF Chains
<1>5. Agree(<<>>, <<>>)
    BY DEF Agree
<1>6. Anchored
    BY <1>1, <1>4, <1>5, SoundEmpty DEF Anchored, HeadOf, Genesis
<1> QED BY <1>3, <1>6

\* The servers, the rows and the mark agree at every step (AuditLog.append,
\* verify, claim_exclusive and the start-up together), and so do the file and
\* what an operator has copied and pinned.
THEOREM AuditCorrect == Spec => [](TypeOK /\ AuditInv /\ CopiedOut /\ Anchored)
<1> DEFINE Inv == TypeOK /\ AuditInv /\ CopiedOut /\ Anchored
<1>1. Init => Inv
    BY TypeInit, AuditInit, EmptyAnchored
<1>2. TypeOK /\ AuditInv /\ [Next]_vars => TypeOK' /\ AuditInv'
    BY TypeNext, OneServerNext, SerialisedNext, ChainsSoundNext, InFlightNext, MarkedNext,
       AcknowledgedNext, ScannedNext DEF AuditInv
<1>3. Inv /\ [Next]_vars => CopiedOut' /\ Anchored'
    BY CopiedOutNext, AnchoredNext DEF AuditInv
<1>4. Inv /\ [Next]_vars => Inv'
    BY <1>2, <1>3
<1> QED BY <1>1, <1>4, PTL DEF Spec

\* Every variable of the audit log keeps its type.
THEOREM AuditTypeCorrect == Spec => []TypeOK
<1>1. TypeOK /\ AuditInv /\ CopiedOut /\ Anchored => TypeOK
    OBVIOUS
<1> QED BY <1>1, AuditCorrect, PTL

\* A log with a mark that was not put back from a copy verifies, whatever
\* raised in append and whenever the process died.
THEOREM LogVerifies == Spec => []VerifiesOnceMarked
<1>1. TypeOK /\ AuditInv /\ CopiedOut /\ Anchored => VerifiesOnceMarked
    <2> SUFFICES ASSUME TypeOK, AuditInv, restored = {}, mark # NoMark
                 PROVE  Verify(rows, mark, NoAnchor)
        BY DEF VerifiesOnceMarked
    <2>1. Linked(rows)
        BY DEF AuditInv, ChainsSound, Sound
    <2>2. mark \in Macs(rows)
        BY DEF AuditInv, Marked
    <2> QED BY <2>1, <2>2 DEF Verify
<1> QED BY <1>1, AuditCorrect, PTL

\* The verification endpoint never reports a running server's own log.
THEOREM NoFalseAlarms == Spec => []NoFalseAlarm
<1>1. TypeOK /\ AuditInv /\ CopiedOut /\ Anchored => NoFalseAlarm
    BY DEF AuditInv, Scanned, NoFalseAlarm
<1> QED BY <1>1, AuditCorrect, PTL

\* A server serves only a log that holds every row append has returned, unless
\* rows and mark were wound back together.
THEOREM AcknowledgedSurvive == Spec => []AckedSurvive
<1>1. TypeOK /\ AuditInv /\ CopiedOut /\ Anchored => AckedSurvive
    BY DEF AuditInv, Acknowledged, AckedSurvive, Up
<1> QED BY <1>1, AuditCorrect, PTL

\* Between appends the database file holds every row append has returned, as
\* long as no other connection holds a read transaction open (append's
\* wal_checkpoint).
THEOREM FileIsCopy ==
    ASSUME "reader" \notin Faults
    PROVE  Spec => []CopyComplete
<1>1. TypeOK /\ AuditInv /\ CopiedOut /\ Anchored => CopyComplete
    BY DEF CopiedOut, CopyComplete
<1> QED BY <1>1, AuditCorrect, PTL

\* A server started with an anchor has the whole chain up to the anchored row,
\* whatever was put back in between (verify and the published head).
THEOREM AnchorKept == Spec => []AnchoredRowsKept
<1>1. TypeOK /\ AuditInv /\ CopiedOut /\ Anchored => AnchoredRowsKept
    <2> SUFFICES ASSUME TypeOK, AuditInv, Anchored, NEW p \in Procs,
                        phase[p] \in {"verified", "serving"}, used[p] # NoAnchor,
                        used[p] = anchor
                 PROVE  /\ Len(pinned) <= Len(Visible(p))
                        /\ SubSeq(Visible(p), 1, Len(pinned)) = pinned
        BY DEF AnchoredRowsKept
    <2>1. /\ pinned \in Seq(Row) /\ Visible(p) \in Seq(Row)
          /\ Len(pinned) \in Nat /\ DOMAIN pinned = 1 .. Len(pinned)
          /\ Len(Visible(p)) \in Nat /\ DOMAIN Visible(p) = 1 .. Len(Visible(p))
        BY VisibleTyped, RowAt DEF TypeOK
    <2>2. used[p] \in Macs(Visible(p))
        BY VisibleMacs DEF AuditInv, Marked, Up, NoMark, NoAnchor
    <2>3. pinned # <<>> /\ pinned[Len(pinned)].mac = used[p]
        BY DEF Anchored, HeadOf, Genesis, NoAnchor
    <2>4. Len(pinned) \in DOMAIN pinned
        BY <2>1, <2>3, EmptySeq
    <2>5. PICK i \in DOMAIN Visible(p) : Visible(p)[i].mac = used[p]
        BY <2>2 DEF Macs
    <2>6. Agree(Visible(p), pinned)
        BY DEF Anchored, Chains
    <2>7. i = Len(pinned) /\ \A k \in 1 .. i : Visible(p)[k] = pinned[k]
        BY <2>3, <2>4, <2>5, <2>6 DEF Agree
    <2>8. Len(pinned) <= Len(Visible(p))
        BY <2>1, <2>5, <2>7
    <2>9. /\ SubSeq(Visible(p), 1, Len(pinned)) \in Seq(Row)
          /\ DOMAIN SubSeq(Visible(p), 1, Len(pinned)) = 1 .. Len(pinned)
          /\ \A k \in 1 .. Len(pinned) :
                 SubSeq(Visible(p), 1, Len(pinned))[k] = Visible(p)[k]
        BY <2>1, <2>8, PrefixFacts
    <2>10. Len(SubSeq(Visible(p), 1, Len(pinned))) = Len(pinned)
        BY <2>1, <2>9, LenProperties
    <2> QED BY <2>1, <2>7, <2>8, <2>9, <2>10, SeqEqual
<1> QED BY <1>1, AuditCorrect, PTL

\* Together they are inductive, so they hold at every step.
THEOREM AuditConsistent == Spec => []Consistent
<1>1. TypeOK /\ AuditInv /\ CopiedOut /\ Anchored => Consistent
    BY DEF Consistent
<1> QED BY <1>1, AuditCorrect, PTL

=============================================================================
