------------------------------ MODULE Discovery ------------------------------
(***************************************************************************)
(* DefaultDiscovery of neo-go (pkg/network/discovery.go): the peer address *)
(* book and the goroutine that turns connection requests into dials.       *)
(*                                                                         *)
(* Goroutines: run (one), tryAddress (one per dial started by run), and    *)
(* the node's server, which calls the Discoverer methods (BackFill,        *)
(* Register*, RequestRemote, Close).  The address maps are guarded by      *)
(* d.lock, so a method body holding it is one step.  requestCh is an       *)
(* unbuffered channel: a sender blocks until run receives.  pool is a      *)
(* buffered channel of capacity PoolSize.  closeMtx is an RWMutex: a       *)
(* RequestRemote holds its read lock across the send; Close takes the      *)
(* write lock, and a waiting writer blocks new readers (sync.RWMutex).     *)
(***************************************************************************)
EXTENDS Integers, Sequences, FiniteSets, FiniteSetsExt, SequencesExt

CONSTANTS
  \* Peer addresses, e.g. {a1, a2}.
  Addrs,
  \* d.seeds, in slice order: a sequence of distinct addresses.
  SeedSeq,
  \* maxPoolSize, scaled down.
  PoolSize,
  \* connRetries, scaled down.
  ConnRetries,
  \* Counts a RequestRemote call of the server may ask for.
  RequestCounts,
  \* Bounds: dials modelled as goroutines; calls the server makes.
  MaxDials,
  MaxServerCalls

Seeds == Range(SeedSeq)

ASSUME
  /\ Seeds \subseteq Addrs
  /\ PoolSize \in Nat \ {0}
  /\ ConnRetries \in Nat \ {0}
  /\ RequestCounts \subseteq Nat \ {0}

\* Stages of a tryAddress goroutine that still concern its address: in
\* transport.Dial, about to delete d.attempted[addr] after a successful or
\* a failed dial, about to call RegisterBadAddr.
DialStages == {"dial", "unmarkOk", "unmarkFail", "bad"}

\* Who is blocked in d.requestCh <- n: the server, or a failed dial.
Srv == "srv"
Dial == "dial"

VARIABLES
  badAddrs,          \* d.badAddrs
  connectedAddrs,    \* d.connectedAddrs
  goodAddrs,         \* d.goodAddrs (capabilities abstracted away)
  unconnectedAddrs,  \* d.unconnectedAddrs; 0 is "no entry"
  attempted,         \* d.attempted
  pool,              \* d.pool, a buffered channel
  isDead,            \* d.isDead
  reqClosed,         \* close(d.requestCh) has been done
  readers,           \* goroutines holding closeMtx.RLock
  closeWriter,       \* closeMtx writer: "none" or "waiting"
  closePc,           \* where the server's Close call is
  rpc,               \* where run is
  requested,         \* run's local variables
  oldRequest,
  ok,
  cur,               \* the address run received from pool
  dials,             \* dials[a][stage]: tryAddress(a) goroutines at stage
  dialReq,           \* failed dials about to call RequestRemote(1)
  dialUnlock,        \* failed dials about to RUnlock closeMtx
  dialsStarted,      \* dials started so far, against MaxDials
  sendq,             \* senders blocked on requestCh, FIFO as in hchan
  srvPc,             \* where the server's RequestRemote call is
  srvN,              \* the count it sends
  serverCalls        \* calls the server has made

vars == <<badAddrs, connectedAddrs, goodAddrs, unconnectedAddrs, attempted,
          pool, isDead, reqClosed, readers, closeWriter, closePc, rpc,
          requested, oldRequest, ok, cur, dials, dialReq, dialUnlock,
          dialsStarted, sendq, srvPc, srvN, serverCalls>>

addrVars == <<badAddrs, connectedAddrs, goodAddrs, unconnectedAddrs,
              attempted, pool>>
runVars == <<rpc, requested, oldRequest, ok, cur>>
closeVars == <<isDead, reqClosed, readers, closeWriter, closePc>>
dialVars == <<dials, dialReq, dialUnlock, dialsStarted>>
srvVars == <<srvPc, srvN, serverCalls>>

-----------------------------------------------------------------------------
(* Helpers called with d.lock held. *)

\* pushToPoolOrDrop: queue addr unless the pool is full.
PushToPoolOrDrop(p, addr) == IF Len(p) < PoolSize THEN Append(p, addr) ELSE p

\* Mutant: the entry is decremented but never deleted.
RegisterBadAddrKeepsEntry(a) ==
  LET left == unconnectedAddrs[a] - 1 IN
  /\ unconnectedAddrs' = [unconnectedAddrs EXCEPT ![a] = left]
  /\ IF left > 0
       THEN pool' = PushToPoolOrDrop(pool, a) /\ UNCHANGED <<badAddrs, goodAddrs>>
       ELSE /\ badAddrs' = badAddrs \cup {a}
            /\ goodAddrs' = goodAddrs \ {a}
            /\ UNCHANGED pool

\* RegisterBadAddr: one retry less; queue again while retries remain,
\* otherwise mark bad and forget.
RegisterBadAddr(a) ==
  LET left == unconnectedAddrs[a] - 1 IN
  IF left > 0
    THEN /\ unconnectedAddrs' = [unconnectedAddrs EXCEPT ![a] = left]
         /\ pool' = PushToPoolOrDrop(pool, a)
         /\ UNCHANGED <<badAddrs, goodAddrs>>
    ELSE /\ badAddrs' = badAddrs \cup {a}
         /\ unconnectedAddrs' = [unconnectedAddrs EXCEPT ![a] = 0]
         /\ goodAddrs' = goodAddrs \ {a}
         /\ UNCHANGED pool

-----------------------------------------------------------------------------
(* RequestRemote: the requestCh side, shared by run and Close's drain.    *)

\* The count the first blocked sender sends.
HeadCount == IF Head(sendq) = Srv THEN srvN ELSE 1

\* A receive on requestCh takes the first blocked sender, whose send
\* completes; it goes on to closeMtx.RUnlock.
ReleaseHead ==
  /\ sendq' = Tail(sendq)
  /\ IF Head(sendq) = Srv
       THEN srvPc' = "unlock" /\ UNCHANGED dialUnlock
       ELSE dialUnlock' = dialUnlock + 1 /\ UNCHANGED srvPc

-----------------------------------------------------------------------------
(* The run goroutine. *)

\* Top of the outer loop: block on requestCh when nothing is requested.
RunTop ==
  /\ rpc = "top"
  /\ rpc' = "loop"
  /\ \/ /\ requested # 0
        /\ oldRequest' = requested
        /\ UNCHANGED <<requested, ok, sendq, srvPc, dialUnlock>>
     \/ /\ requested = 0
        /\ sendq # <<>>
        /\ requested' = HeadCount
        /\ oldRequest' = HeadCount
        /\ ok' = TRUE
        /\ ReleaseHead
     \/ /\ requested = 0
        /\ sendq = <<>> /\ reqClosed
        /\ oldRequest' = 0
        /\ ok' = FALSE
        /\ UNCHANGED <<requested, sendq, srvPc, dialUnlock>>
  /\ UNCHANGED <<addrVars, closeVars, cur, dials, dialReq, dialsStarted, srvN, serverCalls>>

\* The select of the inner loop, case r, ok = <-d.requestCh.
RunRecvRequest ==
  /\ rpc = "loop"
  /\ ok /\ requested > 0
  /\ \/ /\ sendq # <<>>
        /\ requested' = IF requested <= HeadCount THEN HeadCount ELSE requested
        /\ ReleaseHead
        /\ UNCHANGED ok
     \/ /\ sendq = <<>> /\ reqClosed
        /\ ok' = FALSE
        /\ UNCHANGED <<requested, sendq, srvPc, dialUnlock>>
  /\ UNCHANGED <<addrVars, closeVars, rpc, oldRequest, cur, dials, dialReq, dialsStarted,
                 srvN, serverCalls>>

\* The select of the inner loop, case addr := <-d.pool.
RunRecvPool ==
  /\ rpc = "loop"
  /\ ok /\ requested > 0
  /\ pool # <<>>
  /\ cur' = Head(pool)
  /\ pool' = Tail(pool)
  /\ rpc' = "gotAddr"
  /\ UNCHANGED <<badAddrs, connectedAddrs, goodAddrs, unconnectedAddrs,
                 attempted, closeVars, requested, oldRequest, ok, dialVars,
                 sendq, srvVars>>

\* Mutant: run's pool case without the d.attempted check.
RunDialAddrNoAttemptedCheck ==
  /\ rpc = "gotAddr"
  /\ rpc' = "loop"
  /\ IF cur \notin connectedAddrs
       THEN /\ requested' = requested - 1
            /\ IF dialsStarted < MaxDials
                 THEN /\ attempted' = attempted \cup {cur}
                      /\ dials' = [dials EXCEPT ![cur]["dial"] = @ + 1]
                      /\ dialsStarted' = dialsStarted + 1
                 ELSE UNCHANGED <<attempted, dials, dialsStarted>>
       ELSE UNCHANGED <<attempted, dials, dialsStarted, requested>>
  /\ UNCHANGED <<badAddrs, connectedAddrs, goodAddrs, unconnectedAddrs, pool,
                 closeVars, oldRequest, ok, cur, dialReq, dialUnlock, sendq,
                 srvVars>>

\* With d.lock held: dial the address unless connected or being dialled.
\* Past MaxDials the new goroutine is given one schedule the code allows:
\* its dial succeeds and it clears d.attempted before anything else runs.
RunDialAddr ==
  /\ rpc = "gotAddr"
  /\ rpc' = "loop"
  /\ IF cur \notin connectedAddrs /\ cur \notin attempted
       THEN /\ requested' = requested - 1
            /\ IF dialsStarted < MaxDials
                 THEN /\ attempted' = attempted \cup {cur}
                      /\ dials' = [dials EXCEPT ![cur]["dial"] = @ + 1]
                      /\ dialsStarted' = dialsStarted + 1
                 ELSE UNCHANGED <<attempted, dials, dialsStarted>>
       ELSE UNCHANGED <<attempted, dials, dialsStarted, requested>>
  /\ UNCHANGED <<badAddrs, connectedAddrs, goodAddrs, unconnectedAddrs, pool,
                 closeVars, oldRequest, ok, cur, dialReq, dialUnlock, sendq,
                 srvVars>>

\* The default case (nothing on either channel): with d.lock held, queue
\* every seed that is not connected; drop the request if there is none.
RunRefillSeeds ==
  LET toAdd == SelectSeq(SeedSeq, LAMBDA a : a \notin connectedAddrs)
      added == Range(toAdd)
  IN
  /\ rpc = "loop"
  /\ ok /\ requested > 0
  /\ sendq = <<>> /\ ~reqClosed /\ pool = <<>>
  /\ badAddrs' = badAddrs \ added
  /\ unconnectedAddrs' = [a \in Addrs |-> IF a \in added THEN ConnRetries
                                          ELSE unconnectedAddrs[a]]
  /\ pool' = FoldLeft(PushToPoolOrDrop, pool, toAdd)
  /\ requested' = IF toAdd = <<>> THEN 0 ELSE requested
  /\ UNCHANGED <<connectedAddrs, goodAddrs, attempted, closeVars, rpc,
                 oldRequest, ok, cur, dialVars, sendq, srvVars>>

\* Mutant: run gives up, instead of sleeping, when no peer is connected.
RunAfterLoopGivingUp ==
  /\ rpc = "loop"
  /\ ~(ok /\ requested > 0)
  /\ rpc' = IF ~ok \/ Cardinality(connectedAddrs) = 0 THEN "done" ELSE "top"
  /\ UNCHANGED <<addrVars, closeVars, requested, oldRequest, ok, cur,
                 dialVars, sendq, srvVars>>

\* Mutant: run never looks at ok and so never returns.
RunAfterLoopNeverReturns ==
  /\ rpc = "loop"
  /\ ~(ok /\ requested > 0)
  /\ rpc' = IF Cardinality(connectedAddrs) = 0 THEN "sleep" ELSE "top"
  /\ UNCHANGED <<addrVars, closeVars, requested, oldRequest, ok, cur,
                 dialVars, sendq, srvVars>>

\* After the inner loop: return if requestCh is closed; otherwise, with no
\* connected peer at all, sleep and retry the old request.
RunAfterLoop ==
  /\ rpc = "loop"
  /\ ~(ok /\ requested > 0)
  /\ rpc' = CASE ~ok                             -> "done"
              [] Cardinality(connectedAddrs) = 0 -> "sleep"
              [] OTHER                           -> "top"
  /\ UNCHANGED <<addrVars, closeVars, requested, oldRequest, ok, cur,
                 dialVars, sendq, srvVars>>

\* time.Sleep(d.dialTimeout), then requested = oldRequest.
RunWake ==
  /\ rpc = "sleep"
  /\ rpc' = "top"
  /\ requested' = oldRequest
  /\ UNCHANGED <<addrVars, closeVars, oldRequest, ok, cur, dialVars, sendq,
                 srvVars>>

-----------------------------------------------------------------------------
(* tryAddress goroutines. *)

\* transport.Dial(addr) returns, successfully or not.
DialDone(a) ==
  /\ dials[a]["dial"] > 0
  /\ \E st \in {"unmarkOk", "unmarkFail"} :
       dials' = [dials EXCEPT ![a]["dial"] = @ - 1, ![a][st] = @ + 1]
  /\ UNCHANGED <<addrVars, runVars, closeVars, dialReq, dialUnlock,
                 dialsStarted, sendq, srvVars>>

\* With d.lock held: delete(d.attempted, addr); a successful dial is done.
DialUnmark(a) ==
  /\ \E st \in {"unmarkOk", "unmarkFail"} :
       /\ dials[a][st] > 0
       /\ dials' = IF st = "unmarkOk"
                     THEN [dials EXCEPT ![a][st] = @ - 1]
                     ELSE [dials EXCEPT ![a][st] = @ - 1, ![a]["bad"] = @ + 1]
  /\ attempted' = attempted \ {a}
  /\ UNCHANGED <<badAddrs, connectedAddrs, goodAddrs, unconnectedAddrs, pool,
                 runVars, closeVars, dialReq, dialUnlock, dialsStarted,
                 sendq, srvVars>>

\* d.RegisterBadAddr(addr), then on to d.RequestRemote(1).
DialBad(a) ==
  /\ dials[a]["bad"] > 0
  /\ RegisterBadAddr(a)
  /\ dials' = [dials EXCEPT ![a]["bad"] = @ - 1]
  /\ dialReq' = dialReq + 1
  /\ UNCHANGED <<connectedAddrs, attempted, runVars, closeVars, dialUnlock,
                 dialsStarted, sendq, srvVars>>

\* RequestRemote(1): closeMtx.RLock, then the isDead check (isDead only
\* changes under the write lock, so both are one step), then the send.
DialReqLock ==
  /\ dialReq > 0
  /\ closeWriter = "none"
  /\ dialReq' = dialReq - 1
  /\ readers' = readers + 1
  /\ IF isDead
       THEN dialUnlock' = dialUnlock + 1 /\ UNCHANGED sendq
       ELSE sendq' = Append(sendq, Dial) /\ UNCHANGED dialUnlock
  /\ UNCHANGED <<addrVars, runVars, isDead, reqClosed, closeWriter, closePc,
                 dials, dialsStarted, srvVars>>

\* closeMtx.RUnlock; the goroutine ends.
DialReqUnlock ==
  /\ dialUnlock > 0
  /\ dialUnlock' = dialUnlock - 1
  /\ readers' = readers - 1
  /\ UNCHANGED <<addrVars, runVars, isDead, reqClosed, closeWriter, closePc,
                 dials, dialReq, dialsStarted, sendq, srvVars>>

-----------------------------------------------------------------------------
(* The server's calls into the Discoverer. *)

ServerCall == /\ serverCalls < MaxServerCalls
              /\ serverCalls' = serverCalls + 1

\* BackFill(addr): queue an address that is neither bad, connected nor
\* already known as unconnected.
BackFill(a) ==
  /\ ServerCall
  /\ IF a \in badAddrs \/ a \in connectedAddrs \/ unconnectedAddrs[a] > 0
       THEN UNCHANGED <<unconnectedAddrs, pool>>
       ELSE /\ unconnectedAddrs' = [unconnectedAddrs EXCEPT ![a] = ConnRetries]
            /\ pool' = PushToPoolOrDrop(pool, a)
  /\ UNCHANGED <<badAddrs, connectedAddrs, goodAddrs, attempted, runVars,
                 closeVars, dialVars, sendq, srvPc, srvN>>

\* The server reports a failed peer.
ServerRegisterBadAddr(a) ==
  /\ ServerCall
  /\ RegisterBadAddr(a)
  /\ UNCHANGED <<connectedAddrs, attempted, runVars, closeVars, dialVars,
                 sendq, srvPc, srvN>>

RegisterGoodAddr(a) ==
  /\ ServerCall
  /\ goodAddrs' = goodAddrs \cup {a}
  /\ badAddrs' = badAddrs \ {a}
  /\ UNCHANGED <<connectedAddrs, unconnectedAddrs, attempted, pool, runVars,
                 closeVars, dialVars, sendq, srvPc, srvN>>

RegisterConnectedAddr(a) ==
  /\ ServerCall
  /\ unconnectedAddrs' = [unconnectedAddrs EXCEPT ![a] = 0]
  /\ connectedAddrs' = connectedAddrs \cup {a}
  /\ UNCHANGED <<badAddrs, goodAddrs, attempted, pool, runVars, closeVars,
                 dialVars, sendq, srvPc, srvN>>

UnregisterConnectedAddr(a) ==
  /\ ServerCall
  /\ connectedAddrs' = connectedAddrs \ {a}
  /\ UNCHANGED <<badAddrs, goodAddrs, unconnectedAddrs, attempted, pool,
                 runVars, closeVars, dialVars, sendq, srvPc, srvN>>

\* The server calls RequestRemote(n).
ServerRequestRemote(n) ==
  /\ ServerCall
  /\ srvPc = "idle"
  /\ srvPc' = "req"
  /\ srvN' = n
  /\ UNCHANGED <<addrVars, runVars, closeVars, dialVars, sendq>>

\* closeMtx.RLock and the isDead check, then the send.
SrvReqLock ==
  /\ srvPc = "req"
  /\ closeWriter = "none"
  /\ readers' = readers + 1
  /\ IF isDead
       THEN srvPc' = "unlock" /\ UNCHANGED sendq
       ELSE srvPc' = "send" /\ sendq' = Append(sendq, Srv)
  /\ UNCHANGED <<addrVars, runVars, isDead, reqClosed, closeWriter, closePc,
                 dialVars, srvN, serverCalls>>

\* closeMtx.RUnlock; RequestRemote returns.
SrvReqUnlock ==
  /\ srvPc = "unlock"
  /\ srvPc' = "idle"
  /\ readers' = readers - 1
  /\ UNCHANGED <<addrVars, runVars, isDead, reqClosed, closeWriter, closePc,
                 dialVars, sendq, srvN, serverCalls>>

\* Close: ask for closeMtx's write lock; from now on RLock blocks.
CloseRequest ==
  /\ closePc = "open"
  /\ closeWriter' = "waiting"
  /\ closePc' = "locking"
  /\ UNCHANGED <<addrVars, runVars, isDead, reqClosed, readers, dialVars,
                 sendq, srvVars>>

\* Mutant: Close marks the discovery dead without waiting for the readers.
CloseMarkDeadIgnoringReaders ==
  /\ closePc = "locking"
  /\ isDead' = TRUE
  /\ closeWriter' = "none"
  /\ closePc' = "drain"
  /\ UNCHANGED <<addrVars, runVars, reqClosed, readers, dialVars, sendq,
                 srvVars>>

\* The write lock is granted once no reader holds it: isDead = true, Unlock.
CloseMarkDead ==
  /\ closePc = "locking"
  /\ readers = 0
  /\ isDead' = TRUE
  /\ closeWriter' = "none"
  /\ closePc' = "drain"
  /\ UNCHANGED <<addrVars, runVars, reqClosed, readers, dialVars, sendq,
                 srvVars>>

\* select { case <-d.requestCh: default: }
CloseDrain ==
  /\ closePc = "drain"
  /\ closePc' = "closing"
  /\ IF sendq # <<>> THEN ReleaseHead
                     ELSE UNCHANGED <<sendq, srvPc, dialUnlock>>
  /\ UNCHANGED <<addrVars, runVars, isDead, reqClosed, readers, closeWriter,
                 dials, dialReq, dialsStarted, srvN, serverCalls>>

\* close(d.requestCh).
CloseChannel ==
  /\ closePc = "closing"
  /\ reqClosed' = TRUE
  /\ closePc' = "closed"
  /\ UNCHANGED <<addrVars, runVars, isDead, readers, closeWriter, dialVars,
                 sendq, srvVars>>

-----------------------------------------------------------------------------

Init ==
  /\ badAddrs = {}
  /\ connectedAddrs = {}
  /\ goodAddrs = {}
  /\ unconnectedAddrs = [a \in Addrs |-> 0]
  /\ attempted = {}
  /\ pool = <<>>
  /\ isDead = FALSE
  /\ reqClosed = FALSE
  /\ readers = 0
  /\ closeWriter = "none"
  /\ closePc = "open"
  /\ rpc = "top"
  /\ requested = 0
  /\ oldRequest = 0
  /\ ok = FALSE
  /\ cur = CHOOSE a \in Addrs : TRUE
  /\ dials = [a \in Addrs |-> [st \in DialStages |-> 0]]
  /\ dialReq = 0
  /\ dialUnlock = 0
  /\ dialsStarted = 0
  /\ sendq = <<>>
  /\ srvPc = "idle"
  /\ srvN = CHOOSE n \in RequestCounts : TRUE
  /\ serverCalls = 0

RunStep == RunTop \/ RunRecvRequest \/ RunRecvPool \/ RunDialAddr
           \/ RunRefillSeeds \/ RunAfterLoop \/ RunWake

DialStep(a) == DialDone(a) \/ DialUnmark(a) \/ DialBad(a)

ServerStep ==
  \/ \E a \in Addrs :
       \/ BackFill(a) \/ ServerRegisterBadAddr(a) \/ RegisterGoodAddr(a)
       \/ RegisterConnectedAddr(a) \/ UnregisterConnectedAddr(a)
  \/ \E n \in RequestCounts : ServerRequestRemote(n)
  \/ SrvReqLock \/ SrvReqUnlock

CloseStep == CloseRequest \/ CloseMarkDead \/ CloseDrain \/ CloseChannel

Next ==
  \/ RunStep
  \/ \E a \in Addrs : DialStep(a)
  \/ DialReqLock \/ DialReqUnlock
  \/ ServerStep
  \/ CloseStep

\* The Go scheduler runs every runnable goroutine eventually: weak fairness
\* for run, the dials, the server's pending RequestRemote and Close once
\* called.  The server is not obliged to make new calls.
Fairness ==
  /\ WF_vars(RunStep)
  /\ \A a \in Addrs : WF_vars(DialStep(a))
  /\ WF_vars(DialReqLock) /\ WF_vars(DialReqUnlock)
  /\ WF_vars(SrvReqLock) /\ WF_vars(SrvReqUnlock)
  /\ WF_vars(CloseMarkDead \/ CloseDrain \/ CloseChannel)

Spec == Init /\ [][Next]_vars /\ Fairness

-----------------------------------------------------------------------------
(* Properties *)

TypeOK ==
  /\ badAddrs \subseteq Addrs /\ connectedAddrs \subseteq Addrs
  /\ goodAddrs \subseteq Addrs /\ attempted \subseteq Addrs
  /\ unconnectedAddrs \in [Addrs -> 0..ConnRetries]
  /\ pool \in Seq(Addrs) /\ Len(pool) <= PoolSize
  /\ isDead \in BOOLEAN /\ reqClosed \in BOOLEAN
  /\ readers \in Nat /\ closeWriter \in {"none", "waiting"}
  /\ closePc \in {"open", "locking", "drain", "closing", "closed"}
  /\ rpc \in {"top", "loop", "gotAddr", "sleep", "done"}
  /\ requested \in Nat /\ oldRequest \in Nat /\ ok \in BOOLEAN
  /\ cur \in Addrs
  /\ dials \in [Addrs -> [DialStages -> Nat]]
  /\ dialReq \in Nat /\ dialUnlock \in Nat
  /\ dialsStarted \in 0..MaxDials
  /\ sendq \in Seq({Srv, Dial})
  /\ srvPc \in {"idle", "req", "send", "unlock"}
  /\ srvN \in RequestCounts

\* No goroutine is ever blocked sending on, or about to send on, a closed
\* requestCh (a Go panic).  About RequestRemote holding closeMtx.RLock
\* across the isDead check and the send, against Close.
NoSendOnClosedChannel == reqClosed => sendq = <<>>

\* At most one tryAddress goroutine per address is between starting its
\* dial and clearing d.attempted.  About the d.attempted guard of run's pool
\* case, while the seed refill and RegisterBadAddr queue the address again.
NoConcurrentDial ==
  \A a \in Addrs :
    dials[a]["dial"] + dials[a]["unmarkOk"] + dials[a]["unmarkFail"] <= 1

\* The server's RequestRemote returns: once blocked on requestCh it is
\* received, by run or by Close's drain.
RequestRemoteReturns == (srvPc = "send") ~> (srvPc = "unlock")

\* Close finishes the discovery: once requestCh is closed, run returns and
\* every tryAddress goroutine ends.
NoDialAlive ==
  /\ \A a \in Addrs : \A st \in DialStages : dials[a][st] = 0
  /\ dialReq = 0 /\ dialUnlock = 0 /\ sendq = <<>>

ShutdownCompletes == reqClosed ~> (rpc = "done" /\ NoDialAlive)

=============================================================================
