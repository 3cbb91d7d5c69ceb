\* RUNTIME=mainnet: NoHandlerPanic is checked against what the handler does.
CONSTANTS
  r1 = r1  r2 = r2  c1 = c1  c2 = c2  c3 = c3
  v300 = v300  v302 = v302  vBad = vBad  f1 = f1  f2 = f2
  Junk = Junk  NoNef = NoNef
  Requests <- MCRequests
  Contracts <- MCContracts
  Versions <- MCVersions
  Compilers <- MCCompilers
  FileNames <- MCFileNames
  Deployed <- MCDeployed
  Runtime = "mainnet"
  MaxTime = 1
SYMMETRY MCSymmetry
SPECIFICATION Spec
INVARIANT NoHandlerPanic
\* Every handler ends; the server then waits for the next request.
CHECK_DEADLOCK FALSE
