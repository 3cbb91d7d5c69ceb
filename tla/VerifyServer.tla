---------------------------- MODULE VerifyServer ----------------------------
(***************************************************************************)
(* The contract verification server (src/Web/main.go).  Every /upload      *)
(* request runs multipleFile in its own goroutine (net/http):              *)
(*   createDateDir  -- a folder named after the current second;            *)
(*   the parts      -- each file written into the folder, O_CREATE without *)
(*                     O_TRUNC;                                            *)
(*   execCommand    -- the chosen nccs compiles the folder and the handler *)
(*                     reads bin/sc/<Filename>.nef;                        *)
(*   getContractState -- the deployed NEF and compiler over JSON-RPC;      *)
(*   version[20:25] -- the compiler version cut from the compiler string;  *)
(*   FindOne, InsertOne, ReadDir -- the verification record and every file *)
(*                     of the folder as the contract's source, in MongoDB. *)
(*                                                                         *)
(* Data is abstracted to what tells uploads apart: a file's content is the *)
(* set of requests whose bytes it holds; a NEF script is the contract it   *)
(* was compiled from and the compiler version, or Junk.  All uploads name  *)
(* their project alike, so they share bin/sc/<Filename>.nef in a folder.   *)
(***************************************************************************)
EXTENDS Integers, FiniteSets

CONSTANTS
  \* Upload requests, e.g. {r1, r2}.
  Requests,
  \* Contract hashes a user may ask to verify.
  Contracts,
  \* Compiler versions a user may send; Compilers are those execCommand
  \* knows (3.0.0, 3.0.2, 3.0.3).
  Versions,
  Compilers,
  \* Names of uploaded source files.
  FileNames,
  \* The RUNTIME environment variable.
  Runtime,
  \* Deployed[net][c]: the compiler version in the deployed NEF's compiler
  \* string, "none" if c is not deployed on net, "short" if the string is
  \* shorter than 25 bytes.
  Deployed,
  \* Marker for a script that is no contract's source, and for no NEF file.
  Junk,
  NoNef,
  \* Bound: seconds of the clock.
  MaxTime

Nets == {"mainnet", "testnet"}
Times == 0..MaxTime

ASSUME
  /\ Compilers \subseteq Versions
  /\ Runtime \in Nets
  /\ Deployed \in [Nets -> [Contracts -> Compilers \cup {"none", "short"}]]

\* What a request uploads: the contract, the version, the files, and
\* whether the files are that contract's real source.
Uploads == [contract : Contracts, version : Versions,
            files : SUBSET FileNames \ {{}}, honest : BOOLEAN]

\* A compiled NEF script: the contract and compiler version it came from.
Nefs == (Contracts \X Compilers) \cup {Junk}

\* The response codes of jsonResult; Panicked for a request whose handler
\* panicked (net/http recovers and closes the connection).
Codes == 0..8
NoResponse == -1
Panicked == -2

VARIABLES
  upload,     \* upload[r]: what request r sent
  now,        \* the clock, in seconds
  folders,    \* folders[t][f]: requests whose bytes file f of folder t holds
  nefOut,     \* nefOut[t]: bin/sc/<Filename>.nef in folder t
  pc,         \* where each handler is
  folder,     \* pathFile of each handler
  toWrite,    \* file parts not yet written
  localNef,   \* chainNef in multipleFile: the NEF compiled from the folder
  queried,    \* the network each handler asked for the contract
  listing,    \* files of the ReadDir not yet stored
  resp,       \* the response code sent
  verified,   \* verified[net][c]: VerifyContract records for c
  sources     \* ContractSouceCode records

vars == <<upload, now, folders, nefOut, pc, folder, toWrite, localNef,
          queried, listing, resp, verified, sources>>

-----------------------------------------------------------------------------
(* Helpers *)

\* The switch on RUNTIME in getContractState: the RPC node of the network;
\* rt != "mainnet" || rt != "testnet" is reset to "mainnet".
SelectNet(rt) == IF rt # "mainnet" \/ rt # "testnet" THEN "mainnet" ELSE rt

\* The same switch in intializeMongoOnlineClient: the database server of the
\* network (both hold the "test" database the handler uses).
SelectDatabase(rt) == IF rt # "mainnet" \/ rt # "testnet" THEN "mainnet" ELSE rt

\* Requests whose bytes are in folder t.
Writers(t) == UNION {folders[t][f] : f \in FileNames}

\* The script nccs builds from folder t with version v: a contract's script
\* when every byte in the folder is that contract's real source.
CompiledNef(t, v) ==
  IF /\ Writers(t) # {}
     /\ \E c \in Contracts :
          \A w \in Writers(t) : upload[w].contract = c /\ upload[w].honest
  THEN <<upload[CHOOSE w \in Writers(t) : TRUE].contract, v>>
  ELSE Junk

\* The deployed script of c on net, compiled with its compiler version.
ChainNef(net, c) == <<c, Deployed[net][c]>>

\* getContractState's returns: "3" when the node cannot be reached, "4"
\* with the node's error (no such contract), else the deployed compiler
\* string (its nef is ChainNef).
GetContractStateResult(net, c) ==
  {"3"} \cup {IF Deployed[net][c] = "none" THEN "4" ELSE Deployed[net][c]}

\* The response and the end of the handler.
Respond(r, code) == /\ resp' = [resp EXCEPT ![r] = code]
                    /\ pc' = [pc EXCEPT ![r] = "done"]

-----------------------------------------------------------------------------
(* multipleFile, one action per step. *)

\* createDateDir("./"): the folder of the current second (made if absent).
CreateDateDir(r) ==
  /\ pc[r] = "start"
  /\ folder' = [folder EXCEPT ![r] = now]
  /\ toWrite' = [toWrite EXCEPT ![r] = upload[r].files]
  /\ pc' = [pc EXCEPT ![r] = "parts"]
  /\ UNCHANGED <<upload, now, folders, nefOut, localNef, queried, listing,
                 resp, verified, sources>>

\* A file part: os.OpenFile(O_WRONLY|O_CREATE) and io.Copy.  Without
\* O_TRUNC an existing longer file keeps its tail.
WritePart(r, f) ==
  LET t == folder[r] IN
  /\ pc[r] = "parts"
  /\ f \in toWrite[r]
  /\ \E keepTail \in IF folders[t][f] = {} THEN {FALSE} ELSE BOOLEAN :
       folders' = [folders EXCEPT ![t][f] =
                     IF keepTail THEN @ \cup {r} ELSE {r}]
  /\ toWrite' = [toWrite EXCEPT ![r] = @ \ {f}]
  /\ UNCHANGED <<upload, now, nefOut, pc, folder, localNef, queried, listing,
                 resp, verified, sources>>

\* execCommand: an unknown version is refused (0); cmd.Start may fail (1);
\* the compile writes a NEF unless it fails, and the handler then reads
\* whatever bin/sc/<Filename>.nef the folder holds (2 if there is none).
ExecCommand(r) ==
  LET t == folder[r]
      v == upload[r].version
  IN
  /\ pc[r] = "parts"
  /\ toWrite[r] = {}
  /\ \/ /\ v \notin Compilers
        /\ Respond(r, 0)
        /\ UNCHANGED <<nefOut, localNef>>
     \/ /\ v \in Compilers
        /\ Respond(r, 1)
        /\ UNCHANGED <<nefOut, localNef>>
     \/ /\ v \in Compilers
        /\ \E out \in IF CompiledNef(t, v) = Junk THEN {Junk, NoNef}
                                                  ELSE {CompiledNef(t, v)} :
             LET nef == IF out = NoNef THEN nefOut[t] ELSE out IN
             /\ nefOut' = [nefOut EXCEPT ![t] = nef]
             /\ IF nef = NoNef
                  THEN Respond(r, 2) /\ UNCHANGED localNef
                  ELSE /\ localNef' = [localNef EXCEPT ![r] = nef]
                       /\ pc' = [pc EXCEPT ![r] = "query"]
                       /\ UNCHANGED resp
  /\ UNCHANGED <<upload, now, folders, folder, toWrite, queried, listing,
                 verified, sources>>

\* Mutant: the compiler versions compared instead of the scripts.
GetContractStateComparingVersions(r) ==
  LET c == upload[r].contract
      net == SelectNet(Runtime)
      dep == Deployed[net][c]
  IN
  /\ pc[r] = "query"
  /\ queried' = [queried EXCEPT ![r] = net]
  /\ \/ /\ Respond(r, 3)
     \/ /\ dep = "none"
        /\ Respond(r, 4)
     \/ /\ dep = "short"
        /\ resp' = [resp EXCEPT ![r] = Panicked]
        /\ pc' = [pc EXCEPT ![r] = "done"]
     \/ /\ dep \in Compilers
        /\ IF dep = upload[r].version
             THEN pc' = [pc EXCEPT ![r] = "find"] /\ UNCHANGED resp
             ELSE Respond(r, 7)
  /\ UNCHANGED <<upload, now, folders, nefOut, folder, toWrite, localNef,
                 listing, verified, sources>>

\* getContractState, the version[20:25] slice and the comparison.
GetContractState(r) ==
  LET c == upload[r].contract
      net == SelectNet(Runtime)
  IN
  /\ pc[r] = "query"
  /\ queried' = [queried EXCEPT ![r] = net]
  /\ \E out \in GetContractStateResult(net, c) :
     \/ out = "3" /\ Respond(r, 3)
     \/ out = "4" /\ Respond(r, 4)
     \/ /\ out = "short"
        /\ resp' = [resp EXCEPT ![r] = Panicked]
        /\ pc' = [pc EXCEPT ![r] = "done"]
     \/ /\ out \in Compilers
        /\ IF localNef[r] = ChainNef(net, c)
             THEN pc' = [pc EXCEPT ![r] = "find"] /\ UNCHANGED resp
           ELSE IF out # upload[r].version
             THEN Respond(r, 7)
             ELSE Respond(r, 8)
  /\ UNCHANGED <<upload, now, folders, nefOut, folder, toWrite, localNef,
                 listing, verified, sources>>

\* FindOne({hash, updatecounter}) on VerifyContract of the selected database.
\* The handler inserts on any result.Err(): ErrNoDocuments, or a failed
\* query (the server unreachable, a timeout) with the record present.
FindOne(r) ==
  LET c == upload[r].contract
      db == SelectDatabase(Runtime)
  IN
  /\ pc[r] = "find"
  /\ \/ /\ verified[db][c] > 0
        /\ Respond(r, 6)
     \/ pc' = [pc EXCEPT ![r] = "insert"] /\ UNCHANGED resp
  /\ UNCHANGED <<upload, now, folders, nefOut, folder, toWrite, localNef,
                 queried, listing, verified, sources>>

\* InsertOne of the verification record.
InsertVerified(r) ==
  LET db == SelectDatabase(Runtime) IN
  /\ pc[r] = "insert"
  /\ verified' = [verified EXCEPT ![db][upload[r].contract] = @ + 1]
  /\ pc' = [pc EXCEPT ![r] = "readdir"]
  /\ UNCHANGED <<upload, now, folders, nefOut, folder, toWrite, localNef,
                 queried, listing, resp, sources>>

\* ioutil.ReadDir(pathFile): the files in the folder now.
ReadDir(r) ==
  /\ pc[r] = "readdir"
  /\ listing' = [listing EXCEPT ![r] =
                   {f \in FileNames : folders[folder[r]][f] # {}}]
  /\ pc' = [pc EXCEPT ![r] = "store"]
  /\ UNCHANGED <<upload, now, folders, nefOut, folder, toWrite, localNef,
                 queried, resp, verified, sources>>

\* One file of the listing read and inserted into ContractSouceCode.
StoreSource(r, f) ==
  /\ pc[r] = "store"
  /\ f \in listing[r]
  /\ sources' = sources \cup
       {[contract |-> upload[r].contract, file |-> f,
         content |-> folders[folder[r]][f]]}
  /\ listing' = [listing EXCEPT ![r] = @ \ {f}]
  /\ UNCHANGED <<upload, now, folders, nefOut, pc, folder, toWrite, localNef,
                 queried, resp, verified>>

StoreDone(r) ==
  /\ pc[r] = "store"
  /\ listing[r] = {}
  /\ Respond(r, 5)
  /\ UNCHANGED <<upload, now, folders, nefOut, folder, toWrite, localNef,
                 queried, listing, verified, sources>>

\* A second passes.
Tick ==
  /\ now < MaxTime
  /\ now' = now + 1
  /\ UNCHANGED <<upload, folders, nefOut, pc, folder, toWrite, localNef,
                 queried, listing, resp, verified, sources>>

-----------------------------------------------------------------------------

Init ==
  /\ upload \in [Requests -> Uploads]
  /\ now = 0
  /\ folders = [t \in Times |-> [f \in FileNames |-> {}]]
  /\ nefOut = [t \in Times |-> NoNef]
  /\ pc = [r \in Requests |-> "start"]
  /\ folder = [r \in Requests |-> 0]
  /\ toWrite = [r \in Requests |-> {}]
  /\ localNef = [r \in Requests |-> NoNef]
  /\ queried = [r \in Requests |-> "none"]
  /\ listing = [r \in Requests |-> {}]
  /\ resp = [r \in Requests |-> NoResponse]
  /\ verified = [n \in Nets |-> [c \in Contracts |-> 0]]
  /\ sources = {}

Handler(r) ==
  \/ CreateDateDir(r)
  \/ \E f \in FileNames : WritePart(r, f)
  \/ ExecCommand(r)
  \/ GetContractState(r)
  \/ FindOne(r)
  \/ InsertVerified(r)
  \/ ReadDir(r)
  \/ \E f \in FileNames : StoreSource(r, f)
  \/ StoreDone(r)

Next == Tick \/ \E r \in Requests : Handler(r)

\* net/http runs every handler goroutine to its end.
Spec == Init /\ [][Next]_vars /\ \A r \in Requests : WF_vars(Handler(r))

-----------------------------------------------------------------------------
(* Properties *)

\* A contract is recorded verified only if its real source was uploaded
\* (not necessarily by the request that recorded it: the folder of a second
\* is shared).  About the comparison of the compiled and the deployed
\* script, with a NEF left in the folder by another upload's compile.
VerifiedOnlyFromRealSource ==
  \A n \in Nets, c \in Contracts :
    verified[n][c] > 0 =>
      \E r \in Requests : upload[r].contract = c /\ upload[r].honest

NoHandlerPanic == \A r \in Requests : resp[r] # Panicked

\* At most one VerifyContract record per contract.  About FindOne followed
\* by InsertOne in two concurrent handlers.
OneRecordPerContract == \A n \in Nets, c \in Contracts : verified[n][c] <= 1

\* The source recorded for a contract is its real source.  About ReadDir
\* storing every file of a folder that uploads of the same second share.
SourcesAuthentic ==
  \A s \in sources :
    \A w \in s.content : upload[w].contract = s.contract /\ upload[w].honest

=============================================================================
