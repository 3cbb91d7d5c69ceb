----------------------------- MODULE TcpTransport -----------------------------
(***************************************************************************)
(* The TCP transport of the node (neo-go pkg/network/tcp_transport.go):    *)
(* the Accept goroutine that Server.Start runs, and Close that            *)
(* Server.Shutdown calls, racing on t.lock, t.quit and t.listener.         *)
(*                                                                         *)
(* Each section that holds t.lock is one atomic step; the steps of Accept  *)
(* between them interleave with Close.  A connection is a count: the peer *)
(* goroutine it starts is not modelled.                                    *)
(***************************************************************************)
EXTENDS Naturals

CONSTANTS
  \* Bound: connections accepted.
  MaxConns,
  \* Bound: transient errors of l.Accept (e.g. too many open files).
  MaxErrors

VARIABLES
  acceptPc,   \* where the Accept goroutine is
  sock,       \* the listening socket l: "none", "open" or "closed"
  listener,   \* t.listener # nil
  quit,       \* t.quit
  closeErr,   \* the last l.Accept error is "use of closed network connection"
  closePc,    \* "idle" before Close, "done" after
  conns,      \* connections accepted
  errors      \* transient accept errors

vars == <<acceptPc, sock, listener, quit, closeErr, closePc, conns, errors>>

-----------------------------------------------------------------------------
(* Accept *)

\* net.Listen (a failure is log.Panic, not modelled).
AcceptListen ==
  /\ acceptPc = "listen"
  /\ sock' = "open"
  /\ acceptPc' = "store"
  /\ UNCHANGED <<listener, quit, closeErr, closePc, conns, errors>>

\* Mutant: the listener stored without looking at t.quit.
AcceptStoreNoQuitCheck ==
  /\ acceptPc = "store"
  /\ listener' = TRUE
  /\ acceptPc' = "loop"
  /\ UNCHANGED <<sock, quit, closeErr, closePc, conns, errors>>

\* Under t.lock: after Close, l is closed and Accept returns; otherwise l
\* becomes t.listener.
AcceptStore ==
  /\ acceptPc = "store"
  /\ IF quit
       THEN /\ sock' = "closed"
            /\ acceptPc' = "done"
            /\ UNCHANGED listener
       ELSE /\ listener' = TRUE
            /\ acceptPc' = "loop"
            /\ UNCHANGED sock
  /\ UNCHANGED <<quit, closeErr, closePc, conns, errors>>

\* l.Accept returns a connection; its peer goroutine is started.
AcceptConn ==
  /\ acceptPc = "loop"
  /\ sock = "open"
  /\ conns < MaxConns
  /\ conns' = conns + 1
  /\ UNCHANGED <<acceptPc, sock, listener, quit, closeErr, closePc, errors>>

\* l.Accept fails on an open socket.
AcceptTransientError ==
  /\ acceptPc = "loop"
  /\ sock = "open"
  /\ errors < MaxErrors
  /\ errors' = errors + 1
  /\ closeErr' = FALSE
  /\ acceptPc' = "check"
  /\ UNCHANGED <<sock, listener, quit, closePc, conns>>

\* l.Accept on a closed socket: "use of closed network connection".
AcceptClosedError ==
  /\ acceptPc = "loop"
  /\ sock = "closed"
  /\ closeErr' = TRUE
  /\ acceptPc' = "check"
  /\ UNCHANGED <<sock, listener, quit, closePc, conns, errors>>

\* Mutant: any accept error ends the loop.
AcceptCheckAnyError ==
  /\ acceptPc = "check"
  /\ acceptPc' = "done"
  /\ UNCHANGED <<sock, listener, quit, closeErr, closePc, conns, errors>>

\* t.quit read under t.lock: a close error after Close ends the loop, any
\* other error is logged and the loop goes on.
AcceptCheck ==
  /\ acceptPc = "check"
  /\ acceptPc' = IF closeErr /\ quit THEN "done" ELSE "loop"
  /\ UNCHANGED <<sock, listener, quit, closeErr, closePc, conns, errors>>

-----------------------------------------------------------------------------
(* Close *)

\* Under t.lock: the stored listener is closed and t.quit set.
Close ==
  /\ closePc = "idle"
  /\ IF listener THEN sock' = "closed" ELSE UNCHANGED sock
  /\ quit' = TRUE
  /\ closePc' = "done"
  /\ UNCHANGED <<acceptPc, listener, closeErr, conns, errors>>

-----------------------------------------------------------------------------

Init ==
  /\ acceptPc = "listen"
  /\ sock = "none"
  /\ listener = FALSE
  /\ quit = FALSE
  /\ closeErr = FALSE
  /\ closePc = "idle"
  /\ conns = 0
  /\ errors = 0

AcceptStep ==
  \/ AcceptListen
  \/ AcceptStore
  \/ AcceptConn
  \/ AcceptTransientError
  \/ AcceptClosedError
  \/ AcceptCheck

Next == AcceptStep \/ Close

\* The scheduler runs the Accept goroutine whenever it can go on by itself;
\* connections, transient errors and Close come from outside.
Fairness ==
  /\ WF_vars(AcceptListen)
  /\ WF_vars(AcceptStore)
  /\ WF_vars(AcceptClosedError)
  /\ WF_vars(AcceptCheck)

Spec == Init /\ [][Next]_vars /\ Fairness

-----------------------------------------------------------------------------
(* Properties *)

\* The refinement mapping: the implementation serves while t.listener is
\* stored and t.quit is not set; it has stopped when Accept has returned.
Transporter ==
  INSTANCE Transporter WITH
    sock <- sock,
    serving <- listener /\ ~quit,
    closed <- quit,
    stopped <- acceptPc = "done",
    conns <- conns

\* The transport as its interface promises it: the socket is opened once,
\* connections are accepted only between the start of serving and Close,
\* Accept returns only after Close with the socket closed, and after Close
\* it does return.  About Close racing net.Listen, the quit check and store
\* of t.listener, and the quit check after an accept error.
TransporterRefined == Transporter!Spec

=============================================================================
