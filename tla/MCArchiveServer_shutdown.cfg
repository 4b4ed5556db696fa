\* Shutdown handshake and serving, with two connections.  The process may
\* stop: os.Exit and the panic end every goroutine, so deadlock is not checked.
CONSTANTS
    MaxConns = 2
    EndHeight = 2
    ReqHeights <- MCReqHeights
SPECIFICATION Spec
INVARIANT TypeOK
INVARIANT ServedWithinRequest
PROPERTY HandshakeEndsProcess
CHECK_DEADLOCK FALSE
