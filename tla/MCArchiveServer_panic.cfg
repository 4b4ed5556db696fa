\* Shutdown never panics; expected to be violated.
\* Deadlock is not checked: os.Exit and the panic end the process.
CONSTANTS
    MaxConns = 2
    EndHeight = 2
    ReqHeights <- MCReqHeights
SPECIFICATION Spec
INVARIANT NoSendOnClosedCons
CHECK_DEADLOCK FALSE
