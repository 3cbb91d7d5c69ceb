\* Safety and liveness of the discovery goroutines.  Two addresses, one a
\* seed; a pool of one slot so that pushToPoolOrDrop drops; two retries per
\* address; two dials modelled as goroutines and two server calls before
\* Close, which is enough for two dials of one address to race and for a
\* failed dial to block in RequestRemote behind the server's own request.
CONSTANTS
  a1 = a1
  a2 = a2
  Addrs <- MCAddrs
  SeedSeq <- MCSeedSeq
  RequestCounts <- MCRequestCounts
  PoolSize = 1
  ConnRetries = 2
  MaxDials = 2
  MaxServerCalls = 2

SPECIFICATION Spec

INVARIANTS
  TypeOK
  NoSendOnClosedChannel
  NoConcurrentDial

PROPERTIES
  RequestRemoteReturns
  ShutdownCompletes

\* run blocks on requestCh and the server may stop calling: the system
\* rests idle, which is not an error.
CHECK_DEADLOCK FALSE
