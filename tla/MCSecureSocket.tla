--------------------------- MODULE MCSecureSocket ---------------------------
(***************************************************************************)
(* The plain and the SSL mode of the sockets above EdSocket, and the event *)
(* loop below it, for model checking in one run: a behaviour is one of the *)
(* three, and the others stay as they are initially.  Descriptors are      *)
(* interchangeable, so that the task's may be any one of them.             *)
(***************************************************************************)
EXTENDS EdSmartSocket, EdSSL, TLC

CONSTANTS Objs, Task, Fds, NoFd, Evts, NoEvt, MAX_GET_EVENTS, NDEBUG

VARIABLES fds, interest, evts, mFd, mEvt, mIsReg, reserved, batch, lpc, exit_flag, fault

Loop == INSTANCE EdEventLoop

loopVars == <<fds, interest, evts, mFd, mEvt, mIsReg, reserved, batch, lpc, exit_flag, fault>>

VARIABLE part

SocketInit ==
    /\ part \in {"plain", "ssl", "loop"}
    /\ Init /\ SslInit /\ Loop!Init
    /\ part # "ssl" => sslCls = CHOOSE c \in SslClasses : TRUE
    /\ fds = {CHOOSE fd \in Fds : TRUE}

SocketNext ==
    /\ UNCHANGED part
    /\ IF part = "plain" THEN Next ELSE UNCHANGED vars
    /\ IF part = "ssl" THEN SslNext ELSE UNCHANGED sslVars
    /\ IF part = "loop" THEN Loop!Next ELSE UNCHANGED loopVars

\* The thread runs and handlers return.
LoopRuns == part = "loop" /\ Loop!LoopStep

SocketSpec ==
    /\ SocketInit /\ [][SocketNext]_<<part, vars, sslVars, loopVars>>
    /\ Fairness /\ SslFairness /\ WF_loopVars(LoopRuns)

\* The loop that runs returns after EDM_EXIT, and not before every entry that was
\* reported with the message has got its callback or was closed (esMain).
ExitEnds == part = "loop" => Loop!ExitEnds
=============================================================================
