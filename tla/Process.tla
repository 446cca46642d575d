------------------------------- MODULE Process -------------------------------
(***************************************************************************)
(* The process around the tasks: what src/main.rs starts in which order,   *)
(* how each of its four JSON-RPC clients comes by its credentials          *)
(* (src/rpc.rs), and the probe that fills in NodeInfo, at bootstrap and    *)
(* every 15 s after it.  The node beside it writes a new cookie each time  *)
(* it starts, and may come back as a node of another kind, which keeps its *)
(* cookie in another file, or as one that takes the credentials the one    *)
(* before took, or any.                                                    *)
(*                                                                         *)
(* Bootstrap's comparison of networks, and the tasks' own work, are in     *)
(* Ingest, RangeStream and Serve.                                          *)
(***************************************************************************)
EXTENDS Integers, Sequences, SequencesExt

CONSTANTS
  None, Blank,     (* an absent value, an empty or all-blank one             *)
  NoColon,         (* a cookie that is not of the form user:password         *)
  Configs,         (* records [indexer_rpc_url, rpc_url, poll_ms]            *)
  NodeUrl,         (* where the node listens                                 *)
  UserPass,        (* <<ZEBRA_RPC_USER and _PASS, ZAKURA_RPC_USER and _PASS>> *)
  Inline,          (* <<ZEBRA_RPC_COOKIE, ZAKURA_RPC_COOKIE>>                *)
  Explicit,        (* <<ZEBRA_RPC_COOKIE_PATH, ZAKURA_RPC_COOKIE_PATH>>      *)
  Cache,           (* the zebra and zakura cookie files under HOME and       *)
                   (* USERPROFILE, those of zebra first                      *)
  RunKind,         (* the kind of each run of the node, in order             *)
  Open,            (* the runs without authentication                        *)
  Fixed,           (* by run, the pairs it takes besides its cookie          *)
  CookiePath       (* by kind, the file in which the node puts its cookie    *)

Runs == DOMAIN RunKind

Kinds == {"zebra", "zakura", "other"}

Clients == {"boot", "serve", "ingest", "meta"}

(* The cookie of a run of the node; no two runs have the same. *)
Cookie(run) == [user |-> "__cookie__", pass |-> run]

(* The cookie files in the order they are tried; a path that is not set,   *)
(* or blank, is passed over.                                               *)
Paths == Explicit \o Cache

Files == Range(Paths) \ {None, Blank}

(* What the environment says: the pairs, then the cookies. *)
FromEnv == UserPass \o Inline

IsSequence(s) == s \in Seq(Range(s))

ASSUME ProcessAssumption ==
  /\ RunKind \in Seq(Kinds)
  /\ \A k \in Kinds : CookiePath[k] \in Files
  /\ IsSequence(UserPass) /\ IsSequence(Inline)
  /\ IsSequence(Explicit) /\ IsSequence(Cache)

(* A pair that is fixed in a node's configuration is not a cookie. *)
ASSUME NodeAssumption ==
  /\ Open \subseteq Runs
  /\ \A r \in Runs : Fixed[r] \cap ({None} \cup {Cookie(s) : s \in Runs}) = {}

(* An absent value is none that is there, and a cookie is not blank. *)
ASSUME AbsenceAssumption ==
  /\ None # Blank /\ None \notin Runs /\ None \notin Kinds
  /\ \A r \in Runs : Cookie(r) \notin {None, NoColon}
  /\ Blank \notin Runs /\ Blank # "__cookie__"

VARIABLES
  pc,              (* what main does next; "up": the server listens          *)
  url,             (* the URL every client of this process calls             *)
  auth,            (* the credentials each client was made with              *)
  probe,           (* local of probe_node: the run of the node that has      *)
                   (* answered getblockchaininfo                             *)
  info,            (* NodeInfo: the runs that answered its two calls         *)
  label,           (* node_kind of the server                                *)
  node,            (* [run, state] of the node                               *)
  files,           (* what is in each cookie file                            *)
  bootRun,         (* history: the run that answered bootstrap               *)
  fresh            (* history: the clients made since the node is up         *)

vars == <<pc, url, auth, probe, info, label, node, files, bootRun, fresh>>

nodeVars == <<node, files>>

NoInfo == [chain |-> None, subversion |-> None]

NoClients == [c \in Clients |-> None]

Init ==
  /\ pc = "off" /\ url = None /\ auth = NoClients /\ probe = None
  /\ info = NoInfo /\ label = None /\ bootRun = None /\ fresh = {}
  /\ node = [run |-> 0, state |-> "down"]
  /\ files = [p \in Files |-> None]
-----------------------------------------------------------------------------
(* Configuration and credentials. *)

EffectiveUrl(cfg) ==
  IF cfg.indexer_rpc_url \notin {None, Blank} THEN cfg.indexer_rpc_url ELSE cfg.rpc_url

Valid(cfg) == EffectiveUrl(cfg) # Blank /\ cfg.poll_ms > 0

(* Mutant of Usable: a cookie is taken as it comes. *)
UsableIfThere(text) == text # None

(* Both halves of a pair are there. *)
Usable(text) ==
  text \notin {None, NoColon} /\ text.user # Blank /\ text.pass # Blank

(* Every place credentials may come from, in the order they are tried. *)
Texts ==
  FromEnv \o
    [i \in DOMAIN Paths |-> IF Paths[i] \in Files THEN files[Paths[i]] ELSE None]

(* Mutant of ResolveRpcAuth: the first source that is there decides. *)
ResolveFirstPresent ==
  LET first == SelectInSeq(Texts, LAMBDA text : text # None)
  IN  IF first # 0 /\ Usable(Texts[first]) THEN Texts[first] ELSE None

(* The first usable pair; without one the client sends no credentials. *)
ResolveRpcAuth ==
  LET first == SelectInSeq(Texts, Usable)
  IN  IF first = 0 THEN None ELSE Texts[first]

NewClient(c) ==
  /\ auth' = [auth EXCEPT ![c] = ResolveRpcAuth]
  /\ fresh' = IF node.state = "up" THEN fresh \cup {c} ELSE fresh

(* Whether a run of the node takes what a request carries, None being no   *)
(* Authorization header.                                                   *)
Accepts(run, text) == run \in Open \/ text = Cookie(run) \/ text \in Fixed[run]

(* A call of client c gets through to the node and is not refused. *)
Answers(c) == node.state = "up" /\ url = NodeUrl /\ Accepts(node.run, auth[c])
-----------------------------------------------------------------------------
(* main, from the command line to the listener. *)

Launch ==
  /\ pc = "off"
  /\ \E cfg \in Configs : Valid(cfg) /\ url' = EffectiveUrl(cfg)
  /\ pc' = "boot"
  /\ UNCHANGED <<auth, probe, info, label, nodeVars, bootRun, fresh>>

MakeClient(c, then) ==
  /\ pc = c
  /\ NewClient(c)
  /\ pc' = then
  /\ UNCHANGED <<url, probe, info, label, nodeVars, bootRun>>

OpenStore ==
  /\ pc = "store"
  /\ pc' = "probe"
  /\ UNCHANGED <<url, auth, probe, info, label, nodeVars, bootRun, fresh>>

Subversion(run) == IF run = None THEN None ELSE RunKind[run]

DetectNodeKind(subversion) ==
  CASE subversion = "zakura" -> "Zakura"
    [] subversion = "zebra"  -> "Zebrad"
    [] OTHER                 -> "Zebra-family"

(* Mutant of ProbeChain: what the node says to a call it refuses counts. *)
ProbeChainAnyway(c) ==
  /\ probe = None
  /\ node.state = "up" /\ url = NodeUrl
  /\ probe' = node.run
  /\ UNCHANGED <<pc, url, auth, info, label, nodeVars, bootRun, fresh>>

(* probe_node, its first call. *)
ProbeChain(c) ==
  /\ probe = None
  /\ Answers(c)
  /\ probe' = node.run
  /\ UNCHANGED <<pc, url, auth, info, label, nodeVars, bootRun, fresh>>

(* Mutant of ProbeNet: without a second answer the old one stays. *)
ProbeNetOrKeep(run) ==
  /\ probe # None
  /\ info' = [chain |-> probe, subversion |-> IF run = None THEN info.subversion ELSE run]
  /\ probe' = None

(* probe_node, its second call; run: who answered it, if anyone did. *)
ProbeNet(run) ==
  /\ probe # None
  /\ info' = [chain |-> probe, subversion |-> run]
  /\ probe' = None

BootProbed(run) ==
  /\ pc = "probe"
  /\ ProbeNet(run)
  /\ label' = DetectNodeKind(Subversion(run))
  /\ bootRun' = probe
  /\ pc' = "serve"
  /\ UNCHANGED <<url, auth, nodeVars, fresh>>

Bind ==
  /\ pc = "bind"
  /\ pc' = "up"
  /\ UNCHANGED <<url, auth, probe, info, label, nodeVars, bootRun, fresh>>

(* The process ends: the store cannot be opened, bootstrap fails, the      *)
(* address is taken, or it is stopped.                                     *)
Exit ==
  /\ pc # "off"
  /\ pc' = "off" /\ url' = None /\ auth' = NoClients /\ probe' = None
  /\ info' = NoInfo /\ label' = None /\ bootRun' = None /\ fresh' = {}
  /\ UNCHANGED nodeVars

(* Mutant of Refreshing: the probe is repeated until the node has named    *)
(* itself.                                                                 *)
RefreshingUntilNamed == pc \in {"bind", "up"} /\ info.subversion = None

(* The refresh task is spawned before the server listens.  A first call    *)
(* that fails leaves everything as it is.                                  *)
Refreshing == pc \in {"bind", "up"}

Refreshed(run) ==
  /\ Refreshing
  /\ ProbeNet(run)
  /\ UNCHANGED <<pc, url, auth, label, nodeVars, bootRun, fresh>>

Startup ==
  \/ MakeClient("boot", "store") \/ OpenStore
  \/ pc = "probe" /\ ProbeChain("boot")
  \/ Answers("boot") /\ BootProbed(node.run)
  \/ MakeClient("serve", "ingest") \/ MakeClient("ingest", "meta")
  \/ MakeClient("meta", "bind") \/ Bind

Refresh ==
  \/ Refreshing /\ ProbeChain("meta")
  \/ Answers("meta") /\ Refreshed(node.run)

(* getnetworkinfo fails, whatever the reason; its answer is optional. *)
NoNetworkInfo == BootProbed(None) \/ Refreshed(None)
-----------------------------------------------------------------------------
(* The node: external. *)

(* A node without authentication has no cookie. *)
CookieFile(run, text) ==
  IF run \in Open
  THEN UNCHANGED files
  ELSE files' = [files EXCEPT ![CookiePath[RunKind[run]]] = text]

NodeStarts ==
  /\ node.state = "down"
  /\ node.run + 1 \in Runs
  /\ node' = [run |-> node.run + 1, state |-> "starting"]
  /\ CookieFile(node.run + 1, NoColon)
  /\ fresh' = {}
  /\ UNCHANGED <<pc, url, auth, probe, info, label, bootRun>>

(* The cookie is written before the port is open. *)
NodeListens ==
  /\ node.state = "starting"
  /\ node' = [node EXCEPT !.state = "up"]
  /\ CookieFile(node.run, Cookie(node.run))
  /\ UNCHANGED <<pc, url, auth, probe, info, label, bootRun, fresh>>

(* A node that is shut down removes its cookie, one that is killed leaves  *)
(* it behind.                                                              *)
NodeStops ==
  /\ node.state # "down"
  /\ node' = [node EXCEPT !.state = "down"]
  /\ CookieFile(node.run, None) \/ UNCHANGED files
  /\ UNCHANGED <<pc, url, auth, probe, info, label, bootRun, fresh>>

Next ==
  \/ Launch \/ Startup \/ Exit \/ Refresh \/ NoNetworkInfo
  \/ NodeStarts \/ NodeListens \/ NodeStops

(* tokio runs the refresh task, and a call that gets through is answered.  *)
Spec == Init /\ [][Next]_vars /\ WF_vars(Refresh)
-----------------------------------------------------------------------------
(* Properties. *)

(* Pairs with both halves, of the node and of the environment. *)
Credentials ==
  {Cookie(r) : r \in Runs} \cup
    {text \in Range(FromEnv) \ {None, NoColon} :
       Blank \notin {text.user, text.pass}}

ProcessTypeOK ==
  /\ pc \in Clients \cup {"off", "store", "probe", "bind", "up"}
  /\ auth \in [Clients -> Credentials \cup {None}]
  /\ probe \in Runs \cup {None}
  /\ info \in [chain : Runs \cup {None}, subversion : Runs \cup {None}]
  /\ label \in {"Zakura", "Zebrad", "Zebra-family", None}
  /\ node \in [run : Runs \cup {0}, state : {"down", "starting", "up"}]
  /\ files \in [Files -> Credentials \cup {None, NoColon}]

(* The clients this process has made. *)
Made ==
  {c \in Clients :
     \/ pc \in {"bind", "up"}
     \/ c = "boot" /\ pc \notin {"off", "boot"}
     \/ c = "serve" /\ pc \in {"ingest", "meta"}
     \/ c = "ingest" /\ pc = "meta"}

(* A process that got past bootstrap is accepted by the node with every    *)
(* client it makes, for as long as the node that answered bootstrap runs,  *)
(* although each client reads its credentials at a moment of its own and   *)
(* cookies of other nodes lie about.  (Once the node has restarted, the    *)
(* clients made before are refused until Zeaking is restarted too, unless  *)
(* the new node takes what they carry.)                                    *)
AcceptedWhileNodeRuns ==
  node.state = "up" /\ bootRun = node.run =>
    \A c \in Made : Accepts(node.run, auth[c])

(* A client made while a node with a cookie is up carries that cookie,     *)
(* unless a usable pair comes earlier in the order: a half-written cookie, *)
(* a malformed variable or a file that is not there never hides it.        *)
CookieFound ==
  node.state = "up" /\ node.run \notin Open =>
    \A c \in fresh :
      \/ auth[c] = Cookie(node.run)
      \/ \E i \in DOMAIN Texts :
           /\ Texts[i] = auth[c] /\ Usable(Texts[i])
           /\ \A j \in DOMAIN Texts : Texts[j] = Cookie(node.run) => i < j

(* The two calls of a probe may be answered by two runs of the node, and   *)
(* get_lightd_info then describes two nodes at once; but only if both runs *)
(* accept what one client of this process carries, which for a cookie they *)
(* do not, and then the chain is the earlier run's, since NodeInfo is      *)
(* replaced as a whole.  Where it is of the one run that answered          *)
(* bootstrap, the kind named before the subversion is that run's, unless   *)
(* the run did not say.                                                    *)
InfoOfTwoNodes ==
  /\ info.subversion \notin {None, info.chain} =>
       /\ info.chain < info.subversion
       /\ \E c \in Made :
            Accepts(info.chain, auth[c]) /\ Accepts(info.subversion, auth[c])
  /\ bootRun # None /\ info = [chain |-> bootRun, subversion |-> bootRun] =>
       label \in {DetectNodeKind(Subversion(bootRun)), "Zebra-family"}

(* Once the server is up, the node stays up and accepts the refresh task,  *)
(* and getnetworkinfo stops failing, NodeInfo ends up and stays that of    *)
(* the node.                                                               *)
InfoRefreshes ==
  <>[](pc = "up" /\ Answers("meta")) /\ <>[][~NoNetworkInfo]_vars =>
    <>[](info.chain = node.run /\ info.subversion = node.run)
=============================================================================
