------------------------------ MODULE FlatFile ------------------------------
(***************************************************************************)
(* The two flat-file writer goroutines of bridgenode/flatfile.go           *)
(* (flatFileBlockWorker, flatFileTTLWorker), the block source feeding      *)
(* them, and the reader GetUDataBytesFromFile of bridgenode/server.go.     *)
(*                                                                         *)
(* The proof file is a sequence of 4-byte words; every offset is counted   *)
(* in words (the code's byte offsets divided by 4).  A proof payload is    *)
(* its TTL slots, one word per output the block creates, all zero when     *)
(* written.  Both workers open the proof file with O_APPEND, so every      *)
(* write lands at the end of the file whatever was sought before it.       *)
(***************************************************************************)
EXTENDS Naturals, Sequences, FiniteSets
LOCAL INSTANCE SequencesExt

CONSTANTS
    FirstHeight,  \* height of the first proof the block source sends
    NumBlocks,    \* number of blocks in the run
    Slots,        \* Slots[h]: outputs created by block h (its TTL slots)
    ChanCap,      \* capacity of proofChan, ttlResultChan and offsetChan
    MaxRestarts   \* bound on process restarts

Heights == FirstHeight .. FirstHeight + NumBlocks - 1
Outputs == UNION {{<<h, i>> : i \in 0 .. Slots[h] - 1} : h \in Heights}
Never == 0   \* a TTL the block source marks "never spent" and never sends

VARIABLES
    spend,       \* spend[o]: height of the block spending output o, or Never
    nextProof,   \* block source: next height whose proof it sends
    nextTTL,     \* block source: next height whose ttlResultBlock it sends
    proofChan, ttlChan, offsetChan,
    proofFile,   \* the proof file, word by word
    offsetFile,  \* the offset file, one int64 entry per element
    bw,          \* flatFileBlockWorker locals and program counter
    tw,          \* flatFileTTLWorker locals and program counter
    halt,        \* "running", or why the process stopped
    restarts,
    written,     \* history: heights whose proof the block worker wrote
    applied      \* history: <<c, i, H>> for every TTL value the worker wrote

vars == <<spend, nextProof, nextTTL, proofChan, ttlChan, offsetChan,
          proofFile, offsetFile, bw, tw, halt, restarts, written, applied>>

up == halt = "running"

SizeWord(h) == [kind |-> "size", h |-> h, i |-> 0, v |-> Slots[h]]
SlotWord(h, i) == [kind |-> "slot", h |-> h, i |-> i, v |-> 0]
TTLWord(v) == [kind |-> "ttl", h |-> 0, i |-> 0, v |-> v]
MagicWord == [kind |-> "magic", h |-> 0, i |-> 0, v |-> 0]

\* ttlRes.Created for block H: the outputs it spends, in creation order.
Created(H) ==
    SetToSortSeq({o \in Outputs : spend[o] = H},
                 LAMBDA a, b : a[1] < b[1] \/ (a[1] = b[1] /\ a[2] < b[2]))

BWStart(replay) == [pc |-> IF replay THEN "replay" ELSE "recv", h |-> 0,
                    curOffset |-> 0, proofWriteHeight |-> 0, k |-> 1]
TWStart == [pc |-> "select", inRamOffsets |-> << >>, maxOffsetHeight |-> 1,
            H |-> 0, todo |-> << >>]

Init ==
    /\ spend \in {f \in [Outputs -> {Never} \cup Heights] :
                    \A o \in Outputs : f[o] = Never \/ f[o] > o[1]}
    /\ nextProof = FirstHeight
    /\ nextTTL = FirstHeight
    /\ proofChan = << >> /\ ttlChan = << >> /\ offsetChan = << >>
    /\ proofFile = << >> /\ offsetFile = << >>
    /\ bw = BWStart(FALSE)
    /\ tw = TWStart
    /\ halt = "running"
    /\ restarts = 0
    /\ written = {}
    /\ applied = {}

-----------------------------------------------------------------------------
(* The block source: proofs and TTL results, each in height order. *)

SendProof ==
    /\ up /\ nextProof \in Heights /\ Len(proofChan) < ChanCap
    /\ proofChan' = Append(proofChan, nextProof)
    /\ nextProof' = nextProof + 1
    /\ UNCHANGED <<spend, nextTTL, ttlChan, offsetChan, proofFile, offsetFile, bw, tw, halt, restarts, written, applied>>

SendTTL ==
    /\ up /\ nextTTL \in Heights /\ Len(ttlChan) < ChanCap
    /\ ttlChan' = Append(ttlChan, nextTTL)
    /\ nextTTL' = nextTTL + 1
    /\ UNCHANGED <<spend, nextProof, proofChan, offsetChan, proofFile, offsetFile, bw, tw, halt, restarts, written, applied>>

-----------------------------------------------------------------------------
(* flatFileBlockWorker *)

\* BW(from, to, change): a step of the block worker.
BW(from, to, newBw) ==
    /\ up /\ bw.pc = from
    /\ bw' = [newBw EXCEPT !.pc = to]

\* Startup with a non-empty offset file: read every entry and send it to
\* the TTL worker; offsetPos never advances, so the next read hits EOF and
\* the goroutine panics, taking the process down.
BWReplay ==
    /\ up /\ bw.pc = "replay"
    /\ IF bw.k <= Len(offsetFile)
       THEN /\ Len(offsetChan) < ChanCap
            /\ offsetChan' = Append(offsetChan, offsetFile[bw.k])
            /\ bw' = [bw EXCEPT !.k = @ + 1, !.curOffset = offsetFile[bw.k]]
            /\ UNCHANGED halt
       ELSE /\ halt' = "replayEOF"
            /\ UNCHANGED <<bw, offsetChan>>
    /\ UNCHANGED <<spend, nextProof, nextTTL, proofChan, ttlChan, proofFile, offsetFile, tw, restarts, written, applied>>

BWRecv ==
    /\ proofChan # << >>
    /\ BW("recv", "offset", [bw EXCEPT !.h = Head(proofChan)])
    /\ proofChan' = Tail(proofChan)
    /\ UNCHANGED <<spend, nextProof, nextTTL, ttlChan, offsetChan, proofFile, offsetFile, tw, halt, restarts, written, applied>>

\* Seek(proofWriteHeight*8) then write curOffset; O_APPEND puts it at the end.
BWWriteOffset ==
    /\ BW("offset", "size", bw)
    /\ offsetFile' = Append(offsetFile, bw.curOffset)
    /\ UNCHANGED <<spend, nextProof, nextTTL, proofChan, ttlChan, offsetChan, proofFile, tw, halt, restarts, written, applied>>

BWWriteSize ==
    /\ BW("size", "payload", bw)
    /\ proofFile' = Append(proofFile, SizeWord(bw.h))
    /\ UNCHANGED <<spend, nextProof, nextTTL, proofChan, ttlChan, offsetChan, offsetFile, tw, halt, restarts, written, applied>>

\* Write the payload; curOffset += written + 4; proofWriteHeight++.
BWWritePayload ==
    /\ BW("payload", "send",
          [bw EXCEPT !.curOffset = @ + Slots[bw.h] + 1, !.proofWriteHeight = @ + 1])
    /\ proofFile' = proofFile \o [i \in 1 .. Slots[bw.h] |-> SlotWord(bw.h, i - 1)]
    /\ written' = written \cup {bw.h}
    /\ UNCHANGED <<spend, nextProof, nextTTL, proofChan, ttlChan, offsetChan, offsetFile, tw, halt, restarts, applied>>

\* offsetChan <- curOffset, then fileWait.Done().
BWSendOffset ==
    /\ Len(offsetChan) < ChanCap
    /\ BW("send", "recv", bw)
    /\ offsetChan' = Append(offsetChan, bw.curOffset)
    /\ UNCHANGED <<spend, nextProof, nextTTL, proofChan, ttlChan, proofFile, offsetFile, tw, halt, restarts, written, applied>>

-----------------------------------------------------------------------------
(* flatFileTTLWorker *)

\* Variant of the offset case that forgets maxOffsetHeight++.
TWTakeOffsetNoCount ==
    /\ up /\ tw.pc = "select" /\ offsetChan # << >>
    /\ tw' = [tw EXCEPT !.inRamOffsets = Append(@, Head(offsetChan))]
    /\ offsetChan' = Tail(offsetChan)
    /\ UNCHANGED <<spend, nextProof, nextTTL, proofChan, ttlChan, proofFile, offsetFile, bw, halt, restarts, written, applied>>

\* select case nextOffset := <-offsetChan
TWTakeOffset ==
    /\ up /\ tw.pc = "select" /\ offsetChan # << >>
    /\ tw' = [tw EXCEPT !.inRamOffsets = Append(@, Head(offsetChan)),
                        !.maxOffsetHeight = @ + 1]
    /\ offsetChan' = Tail(offsetChan)
    /\ UNCHANGED <<spend, nextProof, nextTTL, proofChan, ttlChan, proofFile, offsetFile, bw, halt, restarts, written, applied>>

\* select case ttlRes := <-ttlResultChan
TWTakeTTL ==
    /\ up /\ tw.pc = "select" /\ ttlChan # << >>
    /\ tw' = [tw EXCEPT !.pc = "catchup", !.H = Head(ttlChan), !.todo = Created(Head(ttlChan))]
    /\ ttlChan' = Tail(ttlChan)
    /\ UNCHANGED <<spend, nextProof, nextTTL, proofChan, offsetChan, proofFile, offsetFile, bw, halt, restarts, written, applied>>

\* for ttlRes.Height > maxOffsetHeight { append(<-offsetChan); max++ }
TWCatchUp ==
    /\ up /\ tw.pc = "catchup" /\ tw.H > tw.maxOffsetHeight /\ offsetChan # << >>
    /\ tw' = [tw EXCEPT !.inRamOffsets = Append(@, Head(offsetChan)),
                        !.maxOffsetHeight = @ + 1]
    /\ offsetChan' = Tail(offsetChan)
    /\ UNCHANGED <<spend, nextProof, nextTTL, proofChan, ttlChan, proofFile, offsetFile, bw, halt, restarts, written, applied>>

\* Variant with the operands of the subtraction swapped.
TTLValueSwapped(H, c) == c - H

\* The lifespan written for an output created at c and spent at H.
TTLValue(H, c) == H - c

\* For one created output: Seek(inRamOffsets[c] + 4 + 4*idx) and write
\* H - c.  An index past the in-RAM offsets is a panic; otherwise O_APPEND
\* puts the value at the end of the proof file.  After the last output
\* fileWait.Done() and back to select.
TWPatch ==
    /\ up /\ tw.pc = "catchup" /\ tw.H <= tw.maxOffsetHeight
    /\ IF tw.todo = << >>
       THEN /\ tw' = [tw EXCEPT !.pc = "select"]
            /\ UNCHANGED <<proofFile, halt, applied>>
       ELSE LET c == Head(tw.todo)[1] IN
            IF c >= Len(tw.inRamOffsets)
            THEN /\ halt' = "indexPanic"
                 /\ UNCHANGED <<tw, proofFile, applied>>
            ELSE /\ proofFile' = Append(proofFile, TTLWord(TTLValue(tw.H, c)))
                 /\ tw' = [tw EXCEPT !.todo = Tail(@)]
                 /\ applied' = applied \cup {<<c, Head(tw.todo)[2], tw.H>>}
                 /\ UNCHANGED halt
    /\ UNCHANGED <<spend, nextProof, nextTTL, proofChan, ttlChan, offsetChan, offsetFile, bw, restarts, written>>

-----------------------------------------------------------------------------
(* The process is killed, or restarted on the files it left.  Channels and  *)
(* in-RAM state are lost; the block source resumes at the height the offset *)
(* file records (a block source outside this repository).                  *)

Crash ==
    /\ up
    /\ halt' = "crashed"
    /\ UNCHANGED <<spend, nextProof, nextTTL, proofChan, ttlChan, offsetChan, proofFile, offsetFile, bw, tw, restarts, written, applied>>

\* Both workers start again: the block worker replays the offset file when it
\* is not empty (offsetMax > 0), the TTL worker starts with no offsets.
Restart ==
    /\ ~up /\ restarts < MaxRestarts
    /\ halt' = "running"
    /\ restarts' = restarts + 1
    /\ nextProof' = FirstHeight + Len(offsetFile)
    /\ nextTTL' = FirstHeight + Len(offsetFile)
    /\ proofChan' = << >> /\ ttlChan' = << >> /\ offsetChan' = << >>
    /\ bw' = BWStart(Len(offsetFile) > 0)
    /\ tw' = TWStart
    /\ UNCHANGED <<spend, proofFile, offsetFile, written, applied>>

Source == SendProof \/ SendTTL
BlockWorker == BWReplay \/ BWRecv \/ BWWriteOffset \/ BWWriteSize \/ BWWritePayload \/ BWSendOffset
TTLWorker == TWTakeOffset \/ TWTakeTTL \/ TWCatchUp \/ TWPatch

Next == Source \/ BlockWorker \/ TTLWorker \/ Crash \/ Restart

\* Goroutines that can run are eventually scheduled, and Go's select picks
\* uniformly among ready cases, so each case gets weak fairness.  Crashes
\* and restarts are not fair: they are outside events.
Fairness ==
    /\ WF_vars(SendProof) /\ WF_vars(SendTTL)
    /\ WF_vars(BlockWorker)
    /\ WF_vars(TWTakeOffset) /\ WF_vars(TWTakeTTL) /\ WF_vars(TWCatchUp) /\ WF_vars(TWPatch)

Spec == Init /\ [][Next]_vars /\ Fairness

-----------------------------------------------------------------------------
(* GetUDataBytesFromFile(height): the offset at entry `height` of the offset *)
(* file, then the 4-byte magic, the size word and the payload there.  An     *)
(* error is "err".                                                          *)
GetUDataBytesFromFile(height) ==
    IF height = 0 \/ height + 1 > Len(offsetFile) THEN "err"
    ELSE LET offset == offsetFile[height + 1] IN
         IF offset + 2 > Len(proofFile) \/ proofFile[offset + 1] # MagicWord
         THEN "err"
         ELSE LET size == proofFile[offset + 2].v IN
              IF offset + 2 + size > Len(proofFile) THEN "err"
              ELSE SubSeq(proofFile, offset + 3, offset + 2 + size)

-----------------------------------------------------------------------------
(* Properties *)

\* The words a proof file can hold, a TTL being the number of blocks between
\* an output's creation and its spending.
Words == {SizeWord(h) : h \in Heights} \cup {SlotWord(o[1], o[2]) : o \in Outputs}
            \cup {TTLWord(v) : v \in 1 .. NumBlocks - 1}

TypeOK ==
    /\ halt \in {"running", "crashed", "replayEOF", "indexPanic"}
    /\ bw.pc \in {"replay", "recv", "offset", "size", "payload", "send"}
    /\ tw.pc \in {"select", "catchup"}
    /\ proofChan \in Seq(Heights) /\ ttlChan \in Seq(Heights) /\ offsetChan \in Seq(Nat)
    /\ proofFile \in Seq(Words)
    /\ offsetFile \in Seq(Nat)
    /\ written \subseteq Heights
    /\ restarts <= MaxRestarts

\* Every work item handed to the workers has been written.
Finished ==
    /\ nextProof \notin Heights /\ proofChan = << >> /\ bw.pc = "recv"
    /\ nextTTL \notin Heights /\ ttlChan = << >> /\ tw.pc = "select"

\* The pipeline never stalls (the question the comment above the block
\* worker's loop asks): whatever the interleaving of the two workers and
\* the block source, it eventually finishes all work or the process stops.
Progress == <>(Finished \/ ~up)

\* The offset file locates the proofs (offset entry k is where the k-th
\* record's size word is), so both the TTL worker and the reader can seek.
OffsetsLocateRecords ==
    \A k \in 1 .. Len(offsetFile) :
        offsetFile[k] < Len(proofFile) =>
            proofFile[offsetFile[k] + 1] = SizeWord(FirstHeight + k - 1)

\* The TTL worker never indexes past the offsets it holds: the catch-up
\* loop waits for the offsets of every created height it patches.
NoOffsetIndexPanic == halt # "indexPanic"

\* A restarted block worker gets through its startup replay of the offset
\* file and goes on writing proofs.
StartupReplayCompletes == halt # "replayEOF"

\* The reader returns the payload the block worker wrote for every height
\* whose proof is complete and indexed.
ReaderReturnsProofs ==
    \A h \in written :
        h + 1 <= Len(offsetFile) =>
            LET r == GetUDataBytesFromFile(h) IN
            r # "err" /\ Len(r) = Slots[h]
            /\ \A j \in 1 .. Len(r) : r[j].kind = "slot" /\ r[j].h = h /\ r[j].i = j - 1

\* Spec 4.4.1: a record starts with the magic aaffaaff, then the size; the
\* entry of the offset file points at the magic, which is what
\* GetUDataBytesFromFile checks before it reads the size.
RecordsStartWithMagic ==
    \A k \in 1 .. Len(offsetFile) :
        offsetFile[k] < Len(proofFile) => proofFile[offsetFile[k] + 1] = MagicWord
=============================================================================
