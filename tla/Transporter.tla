----------------------------- MODULE Transporter -----------------------------
(***************************************************************************)
(* What a node's transport promises the server (the Transporter interface  *)
(* of neo-go pkg/network), without the goroutine, the lock or the errors   *)
(* of an implementation:                                                   *)
(*                                                                         *)
(*   - the listening socket is opened once;                                *)
(*   - connections are accepted only while the transport serves: after    *)
(*     it has started on an open socket and before Close;                  *)
(*   - Accept returns only after Close, with the socket closed;            *)
(*   - once Close has been called, Accept returns.                         *)
(***************************************************************************)
EXTENDS Naturals

CONSTANTS
  \* Bound: connections accepted.
  MaxConns

VARIABLES
  sock,     \* the listening socket: "none", "open" or "closed"
  serving,  \* connections are being accepted
  closed,   \* Close has been called
  stopped,  \* Accept has returned
  conns     \* connections accepted

avars == <<sock, serving, closed, stopped, conns>>

Init ==
  /\ sock = "none"
  /\ serving = FALSE
  /\ closed = FALSE
  /\ stopped = FALSE
  /\ conns = 0

\* The socket is opened, whether Close has come first or not.
Listen ==
  /\ sock = "none"
  /\ sock' = "open"
  /\ UNCHANGED <<serving, closed, stopped, conns>>

\* Serving starts on the open socket, unless Close has come first.
Start ==
  /\ sock = "open" /\ ~serving /\ ~closed /\ ~stopped
  /\ serving' = TRUE
  /\ UNCHANGED <<sock, closed, stopped, conns>>

Connect ==
  /\ serving /\ conns < MaxConns
  /\ conns' = conns + 1
  /\ UNCHANGED <<sock, serving, closed, stopped>>

\* Close ends serving and closes the socket it serves on.
Close ==
  /\ ~closed
  /\ closed' = TRUE
  /\ serving' = FALSE
  /\ sock' = IF serving THEN "closed" ELSE sock
  /\ UNCHANGED <<stopped, conns>>

\* Accept returns after Close, leaving the socket closed.
Stop ==
  /\ closed /\ ~stopped
  /\ stopped' = TRUE
  /\ sock' = "closed"
  /\ UNCHANGED <<serving, closed, conns>>

Next == Listen \/ Start \/ Connect \/ Close \/ Stop

\* The transport's own steps are taken; connections and Close come from
\* outside.
Spec ==
  /\ Init /\ [][Next]_avars
  /\ WF_avars(Listen) /\ WF_avars(Start) /\ WF_avars(Stop)

=============================================================================
