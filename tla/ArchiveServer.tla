--------------------------- MODULE ArchiveServer ---------------------------
(***************************************************************************)
(* The archive server of bridgenode/server.go: ArchiveServer starts        *)
(* stopServer and runs blockServer, which starts acceptConnections and a   *)
(* serveBlocksWorker per connection.  Shutdown is a handshake: the OS      *)
(* signal makes stopServer send on haltRequest and start a 2-second        *)
(* force-quit timer; blockServer closes the listener, sends on haltAccept  *)
(* and closes cons; stopServer then calls os.Exit(0).                      *)
(*                                                                         *)
(* haltRequest and haltAccept have capacity 1 and one sender each, so they *)
(* are counters.  cons is unbuffered: a send is a rendezvous with          *)
(* blockServer's select, and a send on it once closed panics the process.  *)
(* A client's request is a pair of heights; whether the proof, block and   *)
(* schedule reads and the connection write of a height succeed depends on  *)
(* files and peers outside this module and is a nondeterministic choice,   *)
(* except that GetUDataBytesFromFile always fails for heights <= 0.        *)
(***************************************************************************)
EXTENDS Integers, FiniteSets

CONSTANTS
    MaxConns,     \* bound on the client connections that arrive
    EndHeight,    \* restoreHeight: serve up to and including this height
    ReqHeights    \* the heights a client may put in a request

VARIABLES
    ss,           \* stopServer: "waitSig", "sendReq", "waitAccept"
    timerOn,      \* the force-quit goroutine has been started
    haltRequest,  \* values buffered in haltRequest (capacity 1)
    haltAccept,   \* values buffered in haltAccept (capacity 1)
    bs,           \* ArchiveServer/blockServer: "setup", "loop", "halt1",
                  \* "halt2", "returned", "failed"
    listenerOpen, \* the TCP listener accepts connections
    consClosed,   \* close(cons) has run
    acc,          \* acceptConnections: "off", "check", "accept", "send", "done"
    arrived,      \* connections accepted so far (the last one is being sent)
    w,            \* w[i]: the serveBlocksWorker of connection i
    exit          \* "running", "exit0", "exit1" (timer), "panic"

vars == <<ss, timerOn, haltRequest, haltAccept, bs, listenerOpen, consClosed,
          acc, arrived, w, exit>>

Conns == 1 .. MaxConns

NoWorker == [pc |-> "none", from |-> 0, to |-> 0, cur |-> 0, dir |-> 1, sent |-> {}]

Init ==
    /\ ss = "waitSig"
    /\ timerOn = FALSE
    /\ haltRequest = 0 /\ haltAccept = 0
    /\ bs = "setup"
    /\ listenerOpen = FALSE /\ consClosed = FALSE
    /\ acc = "off"
    /\ arrived = 0
    /\ w = [i \in Conns |-> NoWorker]
    /\ exit = "running"

\* Every goroutine stops when the process exits.
Running == exit = "running"

-----------------------------------------------------------------------------
(* stopServer *)

\* <-sig: the user interrupts the process.
StopRecvSig ==
    /\ Running /\ ss = "waitSig"
    /\ ss' = "sendReq"
    /\ UNCHANGED <<timerOn, haltRequest, haltAccept, bs, listenerOpen,
                   consClosed, acc, arrived, w, exit>>

\* haltRequest <- true, then go the force-quit timer.
StopSendReq ==
    /\ Running /\ ss = "sendReq" /\ haltRequest < 1
    /\ haltRequest' = haltRequest + 1
    /\ timerOn' = TRUE
    /\ ss' = "waitAccept"
    /\ UNCHANGED <<haltAccept, bs, listenerOpen, consClosed, acc, arrived, w, exit>>

\* <-haltAccept; os.Exit(0).
StopExit ==
    /\ Running /\ ss = "waitAccept" /\ haltAccept > 0
    /\ haltAccept' = haltAccept - 1
    /\ exit' = "exit0"
    /\ UNCHANGED <<ss, timerOn, haltRequest, bs, listenerOpen, consClosed,
                   acc, arrived, w>>

\* time.Sleep(2 * time.Second); os.Exit(1).
TimerFire ==
    /\ Running /\ timerOn
    /\ exit' = "exit1"
    /\ UNCHANGED <<ss, timerOn, haltRequest, haltAccept, bs, listenerOpen,
                   consClosed, acc, arrived, w>>

-----------------------------------------------------------------------------
(* ArchiveServer and blockServer *)

\* HasAccess, leveldb.OpenFile, restoreHeight, ResolveTCPAddr and
\* ListenTCP succeed: the listener is open and acceptConnections runs.
BSSetup ==
    /\ Running /\ bs = "setup"
    /\ bs' = "loop" /\ listenerOpen' = TRUE /\ acc' = "check"
    /\ UNCHANGED <<ss, timerOn, haltRequest, haltAccept, consClosed, arrived, w, exit>>

\* One of them fails: ArchiveServer or blockServer returns, and nothing
\* will ever receive on haltRequest.
BSFail ==
    /\ Running /\ bs = "setup"
    /\ bs' = "failed"
    /\ UNCHANGED <<ss, timerOn, haltRequest, haltAccept, listenerOpen,
                   consClosed, acc, arrived, w, exit>>

\* case <-haltRequest: listener.Close().
BSHaltRecv ==
    /\ Running /\ bs = "loop" /\ haltRequest > 0
    /\ haltRequest' = haltRequest - 1
    /\ listenerOpen' = FALSE
    /\ bs' = "halt1"
    /\ UNCHANGED <<ss, timerOn, haltAccept, consClosed, acc, arrived, w, exit>>

\* Variant that moves on without sending on haltAccept.
BSSendAcceptSkip ==
    /\ Running /\ bs = "halt1" /\ haltAccept < 1
    /\ bs' = "halt2"
    /\ UNCHANGED <<ss, timerOn, haltRequest, haltAccept, listenerOpen, consClosed,
                   acc, arrived, w, exit>>

\* haltAccept <- true.
BSSendAccept ==
    /\ Running /\ bs = "halt1" /\ haltAccept < 1
    /\ haltAccept' = haltAccept + 1
    /\ bs' = "halt2"
    /\ UNCHANGED <<ss, timerOn, haltRequest, listenerOpen, consClosed, acc,
                   arrived, w, exit>>

\* close(cons); return.
BSCloseCons ==
    /\ Running /\ bs = "halt2"
    /\ consClosed' = TRUE
    /\ bs' = "returned"
    /\ UNCHANGED <<ss, timerOn, haltRequest, haltAccept, listenerOpen, acc,
                   arrived, w, exit>>

\* case con := <-cons: the rendezvous with acceptConnections' send, and
\* go serveBlocksWorker(con).
BSRecvCon ==
    /\ Running /\ bs = "loop" /\ acc = "send" /\ ~consClosed
    /\ acc' = "check"
    /\ w' = [w EXCEPT ![arrived].pc = "read"]
    /\ UNCHANGED <<ss, timerOn, haltRequest, haltAccept, bs, listenerOpen,
                   consClosed, arrived, exit>>

-----------------------------------------------------------------------------
(* acceptConnections *)

\* select { case <-cons: return; default: }  A receive on the closed cons
\* returns at once; on the open one nobody else sends, so default runs.
AccCheck ==
    /\ Running /\ acc = "check"
    /\ acc' = IF consClosed THEN "done" ELSE "accept"
    /\ UNCHANGED <<ss, timerOn, haltRequest, haltAccept, bs, listenerOpen,
                   consClosed, arrived, w, exit>>

\* listener.Accept() returns a new client connection.
AccAcceptConn ==
    /\ Running /\ acc = "accept" /\ listenerOpen /\ arrived < MaxConns
    /\ arrived' = arrived + 1
    /\ acc' = "send"
    /\ UNCHANGED <<ss, timerOn, haltRequest, haltAccept, bs, listenerOpen,
                   consClosed, w, exit>>

\* listener.Accept() on the closed listener fails: return.
AccAcceptErr ==
    /\ Running /\ acc = "accept" /\ ~listenerOpen
    /\ acc' = "done"
    /\ UNCHANGED <<ss, timerOn, haltRequest, haltAccept, bs, listenerOpen,
                   consClosed, arrived, w, exit>>

\* cons <- con on the closed channel: a runtime panic ends the process.
AccSendClosed ==
    /\ Running /\ acc = "send" /\ consClosed
    /\ exit' = "panic"
    /\ UNCHANGED <<ss, timerOn, haltRequest, haltAccept, bs, listenerOpen,
                   consClosed, acc, arrived, w>>

-----------------------------------------------------------------------------
(* serveBlocksWorker *)

\* The heights the loop visits: from fromHeight in steps of direction
\* while not past toHeight.
InRange(wk, h) == IF wk.dir = 1 THEN h <= wk.to ELSE h >= wk.to

\* Variant that does not clamp toHeight to endHeight.
WStartNoClamp(i, f, t, ok) ==
    LET dir == IF t < f THEN -1 ELSE 1 IN
    /\ Running /\ w[i].pc = "read"
    /\ w' = [w EXCEPT ![i] =
              IF ok /\ f <= EndHeight
              THEN [pc |-> "serve", from |-> f, to |-> t, cur |-> f,
                    dir |-> dir, sent |-> {}]
              ELSE [@ EXCEPT !.pc = "done"]]
    /\ UNCHANGED <<ss, timerOn, haltRequest, haltAccept, bs, listenerOpen,
                   consClosed, acc, arrived, exit>>

\* Read fromHeight and toHeight, pick the direction, clamp toHeight to
\* endHeight, refuse fromHeight > endHeight, open the schedule file.
\* ok is FALSE when a read or the open fails.
WStart(i, f, t, ok) ==
    LET dir == IF t < f THEN -1 ELSE 1
        to  == IF t > EndHeight THEN EndHeight ELSE t
    IN /\ Running /\ w[i].pc = "read"
       /\ w' = [w EXCEPT ![i] =
                 IF ok /\ f <= EndHeight
                 THEN [pc |-> "serve", from |-> f, to |-> to, cur |-> f,
                       dir |-> dir, sent |-> {}]
                 ELSE [@ EXCEPT !.pc = "done"]]
       /\ UNCHANGED <<ss, timerOn, haltRequest, haltAccept, bs, listenerOpen,
                      consClosed, acc, arrived, exit>>

\* Variant whose loop always counts up, whatever the direction.
WServeUp(i, ok) ==
    LET wk == w[i] IN
    /\ Running /\ wk.pc = "serve"
    /\ w' = [w EXCEPT ![i] =
              IF InRange(wk, wk.cur) /\ ok /\ wk.cur > 0
              THEN [wk EXCEPT !.sent = @ \cup {wk.cur}, !.cur = @ + 1]
              ELSE [wk EXCEPT !.pc = "done"]]
    /\ UNCHANGED <<ss, timerOn, haltRequest, haltAccept, bs, listenerOpen,
                   consClosed, acc, arrived, exit>>

\* One iteration: leave the loop past toHeight; otherwise read the proof
\* (GetUDataBytesFromFile fails for height 0 and, at Seek, below it), the
\* block and the schedule and write them; any failure breaks the loop.
WServe(i, ok) ==
    LET wk == w[i] IN
    /\ Running /\ wk.pc = "serve"
    /\ w' = [w EXCEPT ![i] =
              IF InRange(wk, wk.cur) /\ ok /\ wk.cur > 0
              THEN [wk EXCEPT !.sent = @ \cup {wk.cur}, !.cur = @ + wk.dir]
              ELSE [wk EXCEPT !.pc = "done"]]
    /\ UNCHANGED <<ss, timerOn, haltRequest, haltAccept, bs, listenerOpen,
                   consClosed, acc, arrived, exit>>

-----------------------------------------------------------------------------

Next ==
    \/ StopRecvSig \/ StopSendReq \/ StopExit \/ TimerFire
    \/ BSSetup \/ BSFail \/ BSHaltRecv \/ BSSendAccept \/ BSCloseCons \/ BSRecvCon
    \/ AccCheck \/ AccAcceptConn \/ AccAcceptErr \/ AccSendClosed
    \/ \E i \in Conns, f, t \in ReqHeights, ok \in BOOLEAN : WStart(i, f, t, ok)
    \/ \E i \in Conns, ok \in BOOLEAN : WServe(i, ok)

\* Every goroutine that can run eventually does (weak fairness per step).
\* The signal and the clients are outside events, and the 2-second timer
\* gets no fairness either: the liveness property below asks whether the
\* handshake ends the process by itself.
Fairness ==
    /\ WF_vars(StopSendReq) /\ WF_vars(StopExit)
    /\ WF_vars(BSSetup \/ BSFail) /\ WF_vars(BSHaltRecv) /\ WF_vars(BSSendAccept)
    /\ WF_vars(BSCloseCons) /\ WF_vars(BSRecvCon)
    /\ WF_vars(AccCheck) /\ WF_vars(AccAcceptErr) /\ WF_vars(AccSendClosed)
    /\ \A i \in Conns : WF_vars(\E f, t \in ReqHeights, ok \in BOOLEAN : WStart(i, f, t, ok))
    /\ \A i \in Conns : WF_vars(\E ok \in BOOLEAN : WServe(i, ok))

Spec == Init /\ [][Next]_vars /\ Fairness

-----------------------------------------------------------------------------
(* Properties *)

TypeOK ==
    /\ ss \in {"waitSig", "sendReq", "waitAccept"}
    /\ timerOn \in BOOLEAN
    /\ haltRequest \in 0 .. 1 /\ haltAccept \in 0 .. 1
    /\ bs \in {"setup", "loop", "halt1", "halt2", "returned", "failed"}
    /\ acc \in {"off", "check", "accept", "send", "done"}
    /\ arrived \in 0 .. MaxConns
    /\ \A i \in Conns : w[i].pc \in {"none", "read", "serve", "done"}
    /\ \A i \in Conns : w[i].cur \in {h + d : h \in ReqHeights, d \in -1 .. 1}
    /\ exit \in {"running", "exit0", "exit1", "panic"}

\* serveBlocksWorker sends a client only heights the archive holds
\* (1 .. endHeight) and only heights between the two it asked for, in
\* whichever direction it asked.
ServedWithinRequest ==
    \A i \in Conns :
        \A h \in w[i].sent :
            /\ 1 <= h /\ h <= EndHeight
            /\ IF w[i].dir = 1 THEN w[i].from <= h /\ h <= w[i].to
                               ELSE w[i].to <= h /\ h <= w[i].from

\* Once stopServer waits on haltAccept, the halt handshake with
\* blockServer ends the process without the force-quit timer, unless
\* the server never got to its accept loop.
HandshakeEndsProcess ==
    ss = "waitAccept" ~> (exit # "running" \/ bs = "failed")

\* Shutdown never crashes the process: acceptConnections never sends a
\* connection on cons after blockServer has closed it.
NoSendOnClosedCons == exit # "panic"
=============================================================================
