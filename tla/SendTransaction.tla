--------------------------- MODULE SendTransaction ---------------------------
(***************************************************************************)
(* send_transaction (src/serve.rs): a wallet's transaction goes to the     *)
(* node as one sendrawtransaction call of the server's JSON-RPC client,    *)
(* and what comes of that call (RpcClient::call, src/rpc.rs) becomes an    *)
(* error code.  The call is given up after 60 s, requests and replies get  *)
(* lost or damaged, the wallet retries under another call or goes away,    *)
(* and node and process come and go as in Process.                         *)
(***************************************************************************)
EXTENDS Process

CONSTANTS
  Calls,           (* each is made at most once                              *)
  Txs,             (* what wallets submit                                    *)
  Empty,           (* the transaction of no bytes                            *)
  Invalid          (* those the node's rules refuse                          *)

(* What may come of a call. *)
Outcomes == {"empty", "transport", "http", "decode", "rpc", "missing", "ok"}

ASSUME SendAssumption ==
  /\ Empty \in Txs /\ Invalid \subseteq Txs
  /\ None \notin Outcomes \cup Txs

VARIABLES
  call,            (* by call, [tx, auth, step, response, outcome], auth     *)
                   (* being the credentials its request carries              *)
  posted,          (* the calls whose request is on its way to the node      *)
  mempool,         (* the transactions the node has                          *)
  taken            (* history: the calls whose request the node took         *)

wireVars == <<posted, mempool, taken>>

sendVars == <<vars, call, wireVars>>

NoCall ==
  [tx |-> None, auth |-> None, step |-> "free", response |-> None, outcome |-> None]

(* An HTTP response, as far as RpcClient::call looks at it. *)
Response == [success : BOOLEAN, decodes : BOOLEAN, error : BOOLEAN, result : BOOLEAN]

Accepted == [success |-> TRUE, decodes |-> TRUE, error |-> FALSE, result |-> TRUE]

Erring == [Accepted EXCEPT !.error = TRUE, !.result = FALSE]

Unauthorized == [success |-> FALSE, decodes |-> FALSE, error |-> FALSE, result |-> FALSE]

SendInit ==
  /\ Init
  /\ call = [c \in Calls |-> NoCall]
  /\ posted = {} /\ mempool = {} /\ taken = {}
-----------------------------------------------------------------------------
(* Mutant of Outcome: a missing result is a result by default. *)
OutcomeByDefault(r) ==
  CASE ~r.success -> "http"
    [] r.success /\ ~r.decodes -> "decode"
    [] r.success /\ r.decodes /\ r.error -> "rpc"
    [] OTHER -> "ok"

(* RpcClient::call on a response: the status, the body, the error object   *)
(* before the result, and a result that must be there.                     *)
Outcome(r) ==
  CASE ~r.success -> "http"
    [] r.success /\ ~r.decodes -> "decode"
    [] r.success /\ r.decodes /\ r.error -> "rpc"
    [] r.success /\ r.decodes /\ ~r.error /\ ~r.result -> "missing"
    [] OTHER -> "ok"

Answer(c, outcome) ==
  call' = [call EXCEPT ![c].step = "answered", ![c].outcome = outcome,
                       ![c].response = None]

(* The error_code of the SendResponse. *)
ErrorCode(outcome) == IF outcome = "ok" THEN 0 ELSE -1

(* The request goes out, if there is a port to connect to. *)
Post(c, tx) ==
  /\ call' = [call EXCEPT ![c] = [NoCall EXCEPT !.tx = tx, !.auth = auth["serve"],
                                               !.step = "waiting"]]
  /\ posted' = IF node.state = "up" THEN posted \cup {c} ELSE posted

(* Mutant of Submit: the transaction is not looked at. *)
SubmitUnchecked(c, tx) ==
  /\ pc = "up"
  /\ call[c].step = "free"
  /\ Post(c, tx)
  /\ UNCHANGED <<vars, mempool, taken>>

Submit(c, tx) ==
  /\ pc = "up"
  /\ call[c].step = "free"
  /\ IF tx = Empty
     THEN Answer(c, "empty") /\ UNCHANGED posted
     ELSE Post(c, tx)
  /\ UNCHANGED <<vars, mempool, taken>>

Receive(c) ==
  /\ call[c].step = "waiting"
  /\ call[c].response # None
  /\ Answer(c, Outcome(call[c].response))
  /\ UNCHANGED <<vars, wireVars>>

(* Mutant of TransportFails: a call that is given up reads as refused. *)
TransportRefuses(c) ==
  /\ call[c].step = "waiting"
  /\ call[c].response = None
  /\ Answer(c, "http")
  /\ UNCHANGED <<vars, wireVars>>

(* Mutant of TransportFails: only a broken connection ends the wait. *)
TransportBreaks(c) ==
  /\ call[c].step = "waiting"
  /\ call[c].response = None
  /\ node.state = "down"
  /\ Answer(c, "transport")
  /\ UNCHANGED <<vars, wireVars>>

(* The connection fails or the 60 s are over.  The request may still be on *)
(* its way.                                                                *)
TransportFails(c) ==
  /\ call[c].step = "waiting"
  /\ call[c].response = None
  /\ Answer(c, "transport")
  /\ UNCHANGED <<vars, wireVars>>

(* The wallet goes away; the handler is dropped, the request is not. *)
Cancel(c) ==
  /\ call[c].step = "waiting"
  /\ call' = [call EXCEPT ![c].step = "gone", ![c].response = None]
  /\ UNCHANGED <<vars, wireVars>>
-----------------------------------------------------------------------------
(* The node and the way to it: external. *)

Reply(c, r) ==
  /\ posted' = posted \ {c}
  /\ call' = IF call[c].step = "waiting" THEN [call EXCEPT ![c].response = r] ELSE call

(* A transaction the node has already is refused like an invalid one. *)
NodeHandles(c) ==
  /\ c \in posted
  /\ LET tx == call[c].tx
     IN  IF ~Accepts(node.run, call[c].auth)
         THEN Reply(c, Unauthorized) /\ UNCHANGED <<mempool, taken>>
         ELSE IF tx \in Invalid \cup mempool
              THEN Reply(c, Erring) /\ UNCHANGED <<mempool, taken>>
              ELSE /\ Reply(c, Accepted)
                   /\ mempool' = mempool \cup {tx}
                   /\ taken' = taken \cup {c}
  /\ UNCHANGED vars

(* A reply arrives as something else, or a request or a reply not at all. *)
ReplyDamaged(c) ==
  /\ call[c].response # None /\ call[c].response.success
  /\ \E r \in {[Accepted EXCEPT !.decodes = FALSE], [Accepted EXCEPT !.result = FALSE]} :
       call' = [call EXCEPT ![c].response = r]
  /\ UNCHANGED <<vars, wireVars>>

Lost(c) ==
  /\ \/ c \in posted /\ UNCHANGED call
     \/ call[c].response # None /\ call' = [call EXCEPT ![c].response = None]
  /\ posted' = posted \ {c}
  /\ UNCHANGED <<vars, mempool, taken>>

(* Process and node go on; handlers die with the one, the mempool and the  *)
(* requests on their way with the other.                                   *)
ProcessMeanwhile ==
  /\ Next
  /\ call' = IF pc' = "off"
             THEN [c \in Calls |-> IF call[c].step = "waiting"
                                   THEN [call[c] EXCEPT !.step = "gone", !.response = None]
                                   ELSE call[c]]
             ELSE call
  /\ IF node'.state = "down"
     THEN posted' = {} /\ mempool' = {}
     ELSE UNCHANGED <<posted, mempool>>
  /\ UNCHANGED taken

SendNext ==
  \/ ProcessMeanwhile
  \/ \E c \in Calls :
       \/ \E tx \in Txs : Submit(c, tx)
       \/ Receive(c) \/ TransportFails(c) \/ Cancel(c)
       \/ NodeHandles(c) \/ ReplyDamaged(c) \/ Lost(c)

(* The HTTP client's timeout ends every wait. *)
SendSpec ==
  /\ SendInit /\ [][SendNext]_sendVars
  /\ \A c \in Calls : WF_sendVars(Receive(c) \/ TransportFails(c))
-----------------------------------------------------------------------------
(* Properties. *)

SendTypeOK ==
  /\ \A c \in Calls :
       /\ call[c].tx \in Txs \cup {None}
       /\ call[c].auth \in Credentials \cup {None}
       /\ call[c].step \in {"free", "waiting", "answered", "gone"}
       /\ call[c].response \in Response \cup {None}
       /\ call[c].outcome \in Outcomes \cup {None}
  /\ posted \subseteq {c \in Calls : call[c].tx \notin {None, Empty}}
  /\ mempool \subseteq Txs \ Invalid
  /\ taken \subseteq Calls

(* A wallet is told error_code 0 only if the node took the transaction on  *)
(* this very request, whatever became of earlier tries of it, of the reply *)
(* and of the node since.                                                  *)
OkMeansTaken ==
  \A c \in Calls :
    call[c].step = "answered" /\ ErrorCode(call[c].outcome) = 0 => c \in taken

(* An error that names a refusal, Zeaking's of an empty transaction, an    *)
(* HTTP status or an error object of the node, is true and stays true:     *)
(* that request was not taken and never will be.  Every other error leaves *)
(* open whether it was, or will be: the reply was lost, damaged or late.   *)
RefusalIsFinal ==
  \A c \in Calls :
    call[c].outcome \in {"empty", "http", "rpc"} => c \notin taken \cup posted

(* A wallet that waits gets an answer, also from a node that never does.   *)
EveryCallAnswered ==
  \A c \in Calls : call[c].step = "waiting" ~> call[c].step # "waiting"
=============================================================================
