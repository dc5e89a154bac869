------------------------------ MODULE PnsReaders -------------------------------
(***************************************************************************)
(* Clients that read names through the node while blocks arrive.  A        *)
(* request asks the client for the best block, and then calls the runtime  *)
(* API at that block; in between the best block may have moved on.  The    *)
(* JSON-RPC server stamps what it found with the block it asked for, the   *)
(* HTTP server hands it on as it is.                                       *)
(*                                                                         *)
(* Calls are in the block that Tick ends; readers see finished blocks      *)
(* only.  A block's number stands for its hash: there are no forks.        *)
(***************************************************************************)
EXTENDS PnsViews, Sequences

CONSTANTS
  RpcReaders,   \* requests to the JSON-RPC server
  HttpReaders   \* requests to the HTTP server

ASSUME ReadersAssumption == RpcReaders \cap HttpReaders = {}

Readers == RpcReaders \cup HttpReaders

VARIABLES
  chain,   \* chain[b]: what the runtime API shows at block b
  request, \* request[r]: the name and the block of a request under way
  reply    \* reply[r]: what the last request was answered

readerVars == <<chain, request, reply>>

\* The views a block offers.
Views == [n \in Names |-> [info |-> GetInfo(n), listing |-> GetListing(n)]]

ReadersInit ==
  /\ Init
  /\ chain = <<Views>>
  /\ request = [r \in Readers |-> NULL]
  /\ reply = [r \in Readers |-> NULL]

\* A block is finished and imported.
SealBlock ==
  /\ Tick
  /\ chain' = Append(chain, Views)
  /\ UNCHANGED <<request, reply>>

\* client.info(), once per request for a record or a listing.
ReadBest(r, n, view) ==
  /\ request[r] = NULL
  /\ request' = [request EXCEPT
                   ![r] = [name |-> n, view |-> view, at |-> Len(chain)]]
  /\ UNCHANGED <<vars, chain, reply>>

\* The answer, with the block a server stamps on what it found.
Answered(r, stamp) ==
  LET q == request[r] IN
  /\ q # NULL
  /\ LET found == chain[q.at][q.name][q.view] IN
     reply' = [reply EXCEPT
                 ![r] = IF found = NULL THEN NULL
                        ELSE [name |-> q.name, view |-> q.view,
                              value |-> found, at |-> stamp]]
  /\ request' = [request EXCEPT ![r] = NULL]
  /\ UNCHANGED <<vars, chain>>

\* Mutant of RpcAnswer: the stamp is the best block when the answer is ready.
RpcAnswerLate(r) == Answered(r, Len(chain))

\* pns_getInfo, pns_resolveName and pns_getListing stamp with the block they
\* read at.
RpcAnswer(r) == request[r] # NULL /\ Answered(r, request[r].at)

\* /get_info and /info leave the zero the runtime API fills in.
HttpAnswer(r) == Answered(r, 0)

ReadersNext ==
  \/ SealBlock
  \/ /\ LeaseCall \/ MarketCall
     /\ UNCHANGED readerVars
  \/ \E r \in RpcReaders, n \in Names, view \in {"info", "listing"} :
        ReadBest(r, n, view)
  \/ \E r \in HttpReaders, n \in Names : ReadBest(r, n, "info")
  \/ \E r \in RpcReaders : RpcAnswer(r)
  \/ \E r \in HttpReaders : HttpAnswer(r)

ReadersSpec == ReadersInit /\ [][ReadersNext]_<<vars, readerVars>>

-----------------------------------------------------------------------------
(* What readers may rely on.                                               *)

\* The block stamped on a reply held what the reply says.
StampHolds(r) ==
  reply[r] # NULL =>
    /\ reply[r].at \in 1 .. Len(chain)
    /\ chain[reply[r].at][reply[r].name][reply[r].view] = reply[r].value

\* A record or listing from the JSON-RPC server is what the chain held at the
\* block stamped on it, however many blocks arrived while it was answered.
RpcStampsHold == \A r \in RpcReaders : StampHolds(r)

=============================================================================
