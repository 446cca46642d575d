---------------------------- MODULE ProcessProofs ----------------------------
(***************************************************************************)
(* Proofs about Process, for every environment, every list of cookie       *)
(* files, every sequence of nodes and every order in which process, node   *)
(* and probe go on; and about SendTransaction, which extends it, for every *)
(* set of calls and transactions and every course of the network.          *)
(***************************************************************************)
EXTENDS SendTransaction, SequenceFacts, TLAPS

(* The credentials found where the cookie files hold what f says. *)
TextsWith(f) ==
  FromEnv \o [i \in DOMAIN Paths |-> IF Paths[i] \in Files THEN f[Paths[i]] ELSE None]

FirstUsable(texts) ==
  LET first == SelectInSeq(texts, Usable)
  IN  IF first = 0 THEN None ELSE texts[first]

(* The environment itself has credentials, and the files do not matter. *)
EnvUsable == \E i \in DOMAIN FromEnv : Usable(FromEnv[i])

(* The runs of the node that have begun to listen by now. *)
Begun ==
  {r \in Runs : r < node.run \/ (r = node.run /\ node.state # "starting")}

(* Those of them that have put their cookie into a file. *)
Written == Begun \ Open

Cookies(runs) == {Cookie(r) : r \in runs}

FilesOK == files \in [Files -> {None, NoColon} \cup Cookies(Written)]

NodeOK ==
  /\ node \in [run : Runs \cup {0}, state : {"down", "starting", "up"}]
  /\ node.state # "down" => node.run \in Runs
  /\ node.state = "up" /\ node.run \notin Open =>
       files[CookiePath[RunKind[node.run]]] = Cookie(node.run)
  /\ node.state = "starting" => fresh = {}

PcOK == pc \in Clients \cup {"off", "store", "probe", "bind", "up"}

(* A client has what the environment says, or the cookie of a run that had *)
(* written it.                                                             *)
AuthOK ==
  /\ auth \in [Clients -> Credentials \cup {None}]
  /\ \A c \in Clients :
       IF EnvUsable
       THEN auth[c] \in {None, ResolveRpcAuth}
       ELSE auth[c] \in {None} \cup Cookies(Written)

(* Where the first client found the cookie of the run that is up, the      *)
(* next one will find it as well.                                          *)
BootStillFinds ==
  node.state = "up" /\ auth["boot"] = Cookie(node.run) =>
    ResolveRpcAuth = Cookie(node.run)

(* A probe under way, or one that was answered at bootstrap, was answered  *)
(* by a run that accepts what the client carries.                          *)
ProbeOK ==
  /\ probe # None =>
       /\ probe \in Begun
       /\ pc \in {"probe", "bind", "up"}
       /\ pc = "probe" => Accepts(probe, auth["boot"])
       /\ pc \in {"bind", "up"} => Accepts(probe, auth["meta"])
  /\ bootRun # None =>
       /\ bootRun \in Begun
       /\ pc \in {"serve", "ingest", "meta", "bind", "up"}
       /\ Accepts(bootRun, auth["boot"])
  /\ bootRun = None =>
       /\ pc \notin {"serve", "ingest", "meta", "bind", "up"}
       /\ info = NoInfo /\ label = None

(* The kind is that of a run that was not before the one that answered     *)
(* bootstrap, and is not after the one that has answered since.            *)
LabelOK ==
  bootRun # None =>
    \E r \in Begun \cup {None} :
      /\ label = DetectNodeKind(Subversion(r))
      /\ r # None => /\ bootRun <= r
                     /\ probe # None => r <= probe
                     /\ \/ info = [chain |-> bootRun, subversion |-> r]
                        \/ info.chain \in Runs /\ r <= info.chain

(* The clients there are to probe with. *)
Probing == IF pc \in {"bind", "up"} THEN {"boot", "meta"} ELSE {"boot"}

InfoOK ==
  /\ info \in [chain : Begun \cup {None}, subversion : Begun \cup {None}]
  /\ info.chain = None => info.subversion = None
  /\ info.subversion \notin {None, info.chain} =>
       /\ info.chain < info.subversion
       /\ \E c \in Probing :
            Accepts(info.chain, auth[c]) /\ Accepts(info.subversion, auth[c])

FreshOK == fresh \subseteq Clients

PInv ==
  /\ PcOK /\ FilesOK /\ NodeOK /\ AuthOK /\ BootStillFinds /\ ProbeOK /\ LabelOK
  /\ InfoOK /\ FreshOK /\ AcceptedWhileNodeRuns /\ CookieFound
-----------------------------------------------------------------------------
(* Where credentials come from. *)

LEMMA TextsFacts ==
  ASSUME NEW f
  PROVE  LET texts == TextsWith(f)
         IN  /\ Len(texts) \in Nat
             /\ DOMAIN texts = 1 .. Len(texts)
             /\ DOMAIN FromEnv \subseteq DOMAIN texts
             /\ \A i \in DOMAIN FromEnv : texts[i] = FromEnv[i]
             /\ \A i \in DOMAIN texts \ DOMAIN FromEnv :
                  /\ texts[i] \in {None} \cup {f[p] : p \in Files}
                  /\ \A j \in DOMAIN FromEnv : j < i
             /\ \A p \in Files : \E i \in DOMAIN texts : texts[i] = f[p]
<1> DEFINE Entry(i) == IF Paths[i] \in Files THEN f[Paths[i]] ELSE None
           read == [i \in DOMAIN Paths |-> Entry(i)]
           texts == TextsWith(f)
           m == Len(FromEnv)
           n == Len(Paths)
<1>1. m \in Nat /\ DOMAIN FromEnv = 1 .. m
      /\ \E S : FromEnv \in Seq(S)
  <2> DEFINE S == Range(UserPass) \cup Range(Inline)
  <2>1. UserPass \in Seq(S) /\ Inline \in Seq(S)
    BY ProcessAssumption, SeqMonotonic DEF IsSequence
  <2>2. FromEnv \in Seq(S)
    BY <2>1, ConcatProperties DEF FromEnv
  <2> HIDE DEF S
  <2> QED
    BY <2>2, LenProperties
<1>2. n \in Nat /\ DOMAIN Paths = 1 .. n
  <2> DEFINE S == Range(Explicit) \cup Range(Cache)
  <2>1. Explicit \in Seq(S) /\ Cache \in Seq(S)
    BY ProcessAssumption, SeqMonotonic DEF IsSequence
  <2>2. Paths \in Seq(S)
    BY <2>1, ConcatProperties DEF Paths
  <2> HIDE DEF S
  <2> QED
    BY <2>2, LenProperties
<1>3. PICK S : FromEnv \in Seq(S)
  BY <1>1
<1> DEFINE T == S \cup {Entry(i) : i \in 1 .. n}
<1>4. FromEnv \in Seq(T)
  BY <1>3, SeqMonotonic
<1>5. read \in Seq(T) /\ Len(read) = n /\ \A i \in 1 .. n : read[i] = Entry(i)
  <2>1. read = [i \in 1 .. n |-> Entry(i)]
    BY <1>2
  <2>2. read \in [1 .. n -> T]
    BY <2>1
  <2> HIDE DEF n
  <2> QED
    BY <1>2, <2>1, <2>2
<1>6. texts = FromEnv \o read
  BY DEF TextsWith
<1> HIDE DEF T, read, texts
<1>7. /\ texts \in Seq(T) /\ Len(texts) = m + n
      /\ \A i \in 1 .. m + n : texts[i] = IF i <= m THEN FromEnv[i] ELSE read[i - m]
  <2>1. /\ texts \in Seq(T) /\ Len(texts) = m + Len(read)
        /\ \A i \in 1 .. m + Len(read) :
             texts[i] = IF i <= m THEN FromEnv[i] ELSE read[i - m]
    BY <1>4, <1>5, <1>6, ConcatProperties
  <2> HIDE DEF m, n
  <2> QED
    BY <1>5, <2>1
<1>8. DOMAIN texts = 1 .. m + n
  BY <1>7, LenProperties
<1>9. ASSUME NEW i \in DOMAIN FromEnv PROVE texts[i] = FromEnv[i]
  <2> HIDE DEF m, n
  <2> QED
    BY <1>1, <1>2, <1>7
<1>10. ASSUME NEW i \in DOMAIN texts \ DOMAIN FromEnv
       PROVE  /\ texts[i] \in {None} \cup {f[p] : p \in Files}
              /\ \A j \in DOMAIN FromEnv : j < i
  <2> HIDE DEF m, n, Entry
  <2>1. i \in 1 .. m + n /\ i > m /\ i - m \in 1 .. n
    BY <1>1, <1>2, <1>8
  <2>2. texts[i] = read[i - m]
    BY <1>1, <1>2, <1>7, <2>1
  <2>3. texts[i] = Entry(i - m)
    BY <1>5, <2>1, <2>2
  <2> QED
    BY <1>1, <2>1, <2>3 DEF Entry
<1>11. ASSUME NEW p \in Files PROVE \E i \in DOMAIN texts : texts[i] = f[p]
  <2>1. PICK k \in 1 .. n : Paths[k] = p
    BY <1>2 DEF Files, Range
  <2>2. Entry(k) = f[p]
    BY <2>1
  <2> HIDE DEF m, n, Entry
  <2>3. m + k \in 1 .. m + n /\ ~(m + k <= m) /\ (m + k) - m = k
    BY <1>1, <1>2
  <2>4. texts[m + k] = read[k]
    BY <1>7, <2>3
  <2>5. texts[m + k] = f[p]
    BY <1>5, <2>2, <2>4
  <2> QED
    BY <1>8, <2>3, <2>5
<1>12. Len(texts) \in Nat /\ DOMAIN texts = 1 .. Len(texts)
  BY <1>7, LenProperties
<1>13. DOMAIN FromEnv \subseteq DOMAIN texts
  <2> HIDE DEF m, n
  <2> QED
    BY <1>1, <1>2, <1>8
<1> QED
  BY <1>9, <1>10, <1>11, <1>12, <1>13 DEF texts

LEMMA FirstUsableFacts ==
  ASSUME NEW texts, Len(texts) \in Nat, DOMAIN texts = 1 .. Len(texts)
  PROVE  \/ /\ FirstUsable(texts) = None
            /\ \A i \in DOMAIN texts : ~Usable(texts[i])
         \/ \E i \in DOMAIN texts :
              /\ Usable(texts[i])
              /\ FirstUsable(texts) = texts[i]
              /\ \A j \in DOMAIN texts : Usable(texts[j]) => i <= j
<1> DEFINE I == {i \in 1 .. Len(texts) : Usable(texts[i])}
<1>1. FirstUsable(texts) = LET first == IF I # {} THEN Min(I) ELSE 0
                           IN  IF first = 0 THEN None ELSE texts[first]
  BY DEF FirstUsable, SelectInSeq
<1>2. CASE I = {}
  BY <1>1, <1>2
<1>3. CASE I # {}
  <2>1. I \in SUBSET Nat /\ \A i \in I : i # 0
    OBVIOUS
  <2>2. Min(I) \in I /\ \A j \in I : Min(I) <= j
    BY <1>3, <2>1, LeastNumber
  <2>3. FirstUsable(texts) = texts[Min(I)]
    BY <1>1, <1>3, <2>1, <2>2
  <2> HIDE DEF I
  <2>4. PICK i \in I : FirstUsable(texts) = texts[i] /\ \A j \in I : i <= j
    BY <2>2, <2>3
  <2> QED
    BY <2>4 DEF I
<1> QED
  BY <1>2, <1>3

LEMMA ResolveIs ==
  /\ Texts = TextsWith(files) /\ Texts' = TextsWith(files')
  /\ ResolveRpcAuth = FirstUsable(TextsWith(files))
  /\ ResolveRpcAuth' = FirstUsable(TextsWith(files'))
  BY DEF Texts, TextsWith, ResolveRpcAuth, FirstUsable

(* Credentials in the environment hide the files, whatever is in them. *)
LEMMA EnvDecides ==
  ASSUME EnvUsable, NEW f, NEW g
  PROVE  FirstUsable(TextsWith(f)) = FirstUsable(TextsWith(g))
<1>1. PICK e \in DOMAIN FromEnv : Usable(FromEnv[e])
  BY DEF EnvUsable
<1>2. ASSUME NEW h
      PROVE  \E i \in DOMAIN FromEnv :
               /\ Usable(FromEnv[i])
               /\ FirstUsable(TextsWith(h)) = FromEnv[i]
               /\ \A j \in DOMAIN FromEnv : Usable(FromEnv[j]) => i <= j
  <2> DEFINE texts == TextsWith(h)
  <2>1. /\ Len(texts) \in Nat /\ DOMAIN texts = 1 .. Len(texts)
        /\ DOMAIN FromEnv \subseteq DOMAIN texts
        /\ \A i \in DOMAIN FromEnv : texts[i] = FromEnv[i]
        /\ \A i \in DOMAIN texts \ DOMAIN FromEnv : \A j \in DOMAIN FromEnv : j < i
    BY TextsFacts
  <2> HIDE DEF texts
  <2>2. PICK i \in DOMAIN texts : /\ Usable(texts[i])
                                 /\ FirstUsable(texts) = texts[i]
                                 /\ \A j \in DOMAIN texts : Usable(texts[j]) => i <= j
    BY <1>1, <2>1, FirstUsableFacts
  <2>3. i \in DOMAIN FromEnv
    <3>1. i <= e
      BY <1>1, <2>1, <2>2
    <3>2. i \in Nat /\ e \in Nat /\ ~(e < i)
      BY <2>1, <3>1
    <3> QED
      BY <2>1, <3>2
  <2> QED
    BY <2>1, <2>2, <2>3 DEF texts
<1>3. PICK i \in DOMAIN FromEnv :
        /\ Usable(FromEnv[i])
        /\ FirstUsable(TextsWith(f)) = FromEnv[i]
        /\ \A j \in DOMAIN FromEnv : Usable(FromEnv[j]) => i <= j
  BY <1>2
<1>4. PICK k \in DOMAIN FromEnv :
        /\ Usable(FromEnv[k])
        /\ FirstUsable(TextsWith(g)) = FromEnv[k]
        /\ \A j \in DOMAIN FromEnv : Usable(FromEnv[j]) => k <= j
  BY <1>2
<1>5. i <= k /\ k <= i
  BY <1>3, <1>4
<1>6. i \in Nat /\ k \in Nat
  BY TextsFacts
<1> QED
  BY <1>3, <1>4, <1>5, <1>6

(* Without them, credentials are the cookie in some file. *)
LEMMA FilesDecide ==
  ASSUME ~EnvUsable, NEW f, FirstUsable(TextsWith(f)) # None
  PROVE  \E p \in Files : FirstUsable(TextsWith(f)) = f[p] /\ Usable(f[p])
<1> DEFINE texts == TextsWith(f)
<1>1. /\ Len(texts) \in Nat /\ DOMAIN texts = 1 .. Len(texts)
      /\ \A i \in DOMAIN FromEnv : texts[i] = FromEnv[i]
      /\ \A i \in DOMAIN texts \ DOMAIN FromEnv :
           texts[i] \in {None} \cup {f[p] : p \in Files}
  BY TextsFacts
<1> HIDE DEF texts
<1>2. PICK i \in DOMAIN texts : Usable(texts[i]) /\ FirstUsable(texts) = texts[i]
  BY <1>1, FirstUsableFacts DEF texts
<1>3. i \notin DOMAIN FromEnv
  BY <1>1, <1>2 DEF EnvUsable
<1>4. texts[i] \in {f[p] : p \in Files}
  BY <1>1, <1>2, <1>3 DEF Usable
<1> QED
  BY <1>2, <1>4 DEF texts

(* The cookie of a run is a usable pair, and its own. *)
LEMMA CookieFacts ==
  /\ \A r \in Runs : Usable(Cookie(r)) /\ Cookie(r) \in Credentials
  /\ \A r, s \in Runs : Cookie(r) = Cookie(s) => r = s
  /\ Runs \subseteq Nat /\ None \notin Runs
<1>1. \A r \in Runs : Usable(Cookie(r)) /\ Cookie(r) \in Credentials
  BY AbsenceAssumption DEF Usable, Cookie, Credentials
<1>2. ASSUME NEW r \in Runs, NEW s \in Runs, Cookie(r) = Cookie(s) PROVE r = s
  <2>1. Cookie(r).pass = Cookie(s).pass
    BY <1>2
  <2> QED
    BY <2>1 DEF Cookie
<1>3. Runs \subseteq Nat /\ None \notin Runs
  BY ProcessAssumption, AbsenceAssumption, LenProperties DEF Runs
<1> QED
  BY <1>1, <1>2, <1>3

(* What a new client is given: a pair of the environment, or the cookie of *)
(* a run that has written it, or nothing.                                  *)
LEMMA ResolveFacts ==
  ASSUME FilesOK
  PROVE  /\ ResolveRpcAuth \in Credentials \cup {None}
         /\ ~EnvUsable => ResolveRpcAuth \in {None} \cup Cookies(Written)
<1> DEFINE texts == TextsWith(files)
<1>1. ResolveRpcAuth = FirstUsable(texts)
  BY ResolveIs
<1>2. CASE FirstUsable(texts) = None
  BY <1>1, <1>2
<1>3. CASE ~EnvUsable /\ FirstUsable(texts) # None
  <2>1. PICK p \in Files : FirstUsable(texts) = files[p] /\ Usable(files[p])
    BY <1>3, FilesDecide
  <2>2. files[p] \in Cookies(Written)
    BY <2>1 DEF FilesOK, Usable
  <2>3. Cookies(Written) \subseteq Credentials
    BY CookieFacts DEF Cookies, Written, Begun
  <2> QED
    BY <1>1, <2>1, <2>2, <2>3
<1>4. CASE EnvUsable
  <2>1. PICK e \in DOMAIN FromEnv : Usable(FromEnv[e])
    BY <1>4 DEF EnvUsable
  <2>2. /\ Len(texts) \in Nat /\ DOMAIN texts = 1 .. Len(texts)
        /\ DOMAIN FromEnv \subseteq DOMAIN texts
        /\ \A i \in DOMAIN FromEnv : texts[i] = FromEnv[i]
        /\ \A i \in DOMAIN texts \ DOMAIN FromEnv : \A j \in DOMAIN FromEnv : j < i
    BY TextsFacts
  <2> HIDE DEF texts
  <2>3. PICK i \in DOMAIN texts : /\ Usable(texts[i])
                                 /\ FirstUsable(texts) = texts[i]
                                 /\ \A j \in DOMAIN texts : Usable(texts[j]) => i <= j
    BY <2>1, <2>2, FirstUsableFacts
  <2>4. i <= e /\ i \in Nat /\ e \in Nat
    BY <2>1, <2>2, <2>3
  <2>5. i \in DOMAIN FromEnv
    BY <2>2, <2>4
  <2>6. texts[i] \in Range(FromEnv)
    BY <2>2, <2>5 DEF Range
  <2> QED
    BY <1>1, <1>4, <2>3, <2>6 DEF Usable, Credentials
<1> QED
  BY <1>2, <1>3, <1>4

(* While the node is up its cookie is among the texts, so that what is     *)
(* used instead of it comes before it.                                     *)
LEMMA NodeIsFound ==
  ASSUME NodeOK, node.state = "up", node.run \notin Open, FilesOK
  PROVE  \/ ResolveRpcAuth = Cookie(node.run)
         \/ \E i \in DOMAIN Texts :
              /\ Texts[i] = ResolveRpcAuth /\ Usable(Texts[i])
              /\ \A j \in DOMAIN Texts : Texts[j] = Cookie(node.run) => i < j
<1> DEFINE texts == TextsWith(files)
           cookie == Cookie(node.run)
<1>1. node.run \in Runs
  BY DEF NodeOK
<1>2. PICK p \in Files : files[p] = cookie
  BY <1>1, ProcessAssumption, ElementOfSeq, LenProperties DEF NodeOK, Runs
<1>3. /\ Len(texts) \in Nat /\ DOMAIN texts = 1 .. Len(texts)
      /\ \E i \in DOMAIN texts : texts[i] = cookie
  BY <1>2, TextsFacts
<1>4. Usable(cookie)
  BY <1>1, CookieFacts
<1>5. Texts = texts /\ ResolveRpcAuth = FirstUsable(texts)
  BY ResolveIs
<1> HIDE DEF texts, cookie
<1>6. PICK k \in DOMAIN texts : texts[k] = cookie
  BY <1>3
<1>7. PICK i \in DOMAIN texts : /\ Usable(texts[i])
                               /\ FirstUsable(texts) = texts[i]
                               /\ \A j \in DOMAIN texts : Usable(texts[j]) => i <= j
  BY <1>3, <1>4, <1>6, FirstUsableFacts
<1>8. CASE texts[i] = cookie
  BY <1>5, <1>7, <1>8 DEF cookie
<1>9. CASE texts[i] # cookie
  <2>1. ASSUME NEW j \in DOMAIN texts, texts[j] = cookie PROVE i < j
    <3>1. i <= j /\ i # j /\ i \in Nat /\ j \in Nat
      BY <1>3, <1>4, <1>7, <1>9, <2>1
    <3> QED
      BY <3>1
  <2> QED
    BY <1>5, <1>7, <2>1 DEF cookie
<1> QED
  BY <1>8, <1>9
(* A node that accepts the first client accepts one made now. *)
LEMMA AcceptedAgain ==
  ASSUME AuthOK, BootStillFinds, NodeOK, node.state = "up",
         Accepts(node.run, auth["boot"])
  PROVE  Accepts(node.run, ResolveRpcAuth)
<1>1. node.run \in Runs /\ Written \subseteq Runs
  BY DEF NodeOK, Written, Begun
<1>2. CASE auth["boot"] = Cookie(node.run)
  BY <1>2 DEF BootStillFinds, Accepts
<1>3. CASE auth["boot"] \in Fixed[node.run]
  <2>1. auth["boot"] \notin {None} \cup Cookies(Written)
    BY <1>1, <1>3, NodeAssumption DEF Cookies
  <2>2. auth["boot"] = ResolveRpcAuth
    BY <2>1 DEF AuthOK, Clients
  <2> QED
    BY <1>3, <2>2 DEF Accepts
<1> QED
  BY <1>2, <1>3 DEF Accepts
-----------------------------------------------------------------------------
(* The initial state and the steps. *)

LEMMA InitPInv == Init => PInv
<1> SUFFICES ASSUME Init PROVE PInv
  OBVIOUS
<1> USE CookieFacts, AbsenceAssumption DEF Init
<1>1. PcOK /\ FilesOK /\ NodeOK /\ AuthOK
  BY DEF PcOK, FilesOK, NodeOK, AuthOK, NoClients
<1>2. BootStillFinds /\ ProbeOK /\ LabelOK /\ InfoOK /\ FreshOK
  BY DEF BootStillFinds, ProbeOK, LabelOK, InfoOK, FreshOK, NoInfo, Clients
<1>3. AcceptedWhileNodeRuns /\ CookieFound
  BY DEF AcceptedWhileNodeRuns, CookieFound
<1> QED
  BY <1>1, <1>2, <1>3 DEF PInv

(* A step of the process changes nothing of the node. *)
LEMMA NodeKept ==
  ASSUME PInv, UNCHANGED nodeVars
  PROVE  /\ Written' = Written /\ Texts' = Texts /\ ResolveRpcAuth' = ResolveRpcAuth
         /\ Begun' = Begun /\ FilesOK' /\ (fresh' \subseteq fresh \/ fresh' \subseteq Clients => FreshOK')
<1>1. node' = node /\ files' = files
  BY DEF nodeVars
<1>2. Written' = Written /\ Begun' = Begun /\ Texts' = Texts
  BY <1>1 DEF Begun, Written, Texts
<1>3. ResolveRpcAuth' = ResolveRpcAuth
  BY <1>1, ResolveIs
<1>4. FilesOK'
  BY <1>1, <1>2 DEF PInv, FilesOK
<1> QED
  BY <1>2, <1>3, <1>4 DEF PInv, FreshOK

(* Steps of main that neither make a client nor ask the node. *)
LEMMA QuietStep ==
  ASSUME PInv, Launch \/ OpenStore \/ Bind
  PROVE  PInv'
<1>1. UNCHANGED <<auth, probe, info, label, nodeVars, bootRun, fresh>>
  BY DEF Launch, OpenStore, Bind
<1>2. /\ Written' = Written /\ Begun' = Begun /\ Texts' = Texts
      /\ ResolveRpcAuth' = ResolveRpcAuth /\ FilesOK'
  BY <1>1, NodeKept
<1>3. \/ pc = "off" /\ pc' = "boot"
      \/ pc = "store" /\ pc' = "probe"
      \/ pc = "bind" /\ pc' = "up"
  BY DEF Launch, OpenStore, Bind
<1> USE <1>1, <1>2, <1>3 DEF PInv, nodeVars
<1>4. PcOK' /\ NodeOK' /\ BootStillFinds'
  BY DEF PcOK, NodeOK, BootStillFinds, Clients
<1>8. AuthOK'
  BY DEF AuthOK
<1>5. ProbeOK' /\ LabelOK' /\ FreshOK'
  BY DEF ProbeOK, LabelOK, FreshOK
<1>9. InfoOK'
  BY DEF InfoOK, Probing
<1>6. AcceptedWhileNodeRuns'
  <2>1. bootRun # None => Made' = Made
    BY DEF ProbeOK, Made
  <2>2. bootRun = node.run /\ node.state = "up" => bootRun # None
    BY CookieFacts DEF NodeOK
  <2> QED
    BY <2>1, <2>2 DEF AcceptedWhileNodeRuns
<1>7. CookieFound'
  BY DEF CookieFound
<1> QED
  BY <1>4, <1>5, <1>6, <1>7, <1>8, <1>9

(* A client is made of what there is to find, and what there is does not   *)
(* change while the node that answered bootstrap is up.                    *)
LEMMA MakeClientStep ==
  ASSUME PInv, NEW c \in Clients, NEW then, MakeClient(c, then),
         <<c, then>> \in {<<"boot", "store">>, <<"serve", "ingest">>,
                          <<"ingest", "meta">>, <<"meta", "bind">>}
  PROVE  PInv'
<1>1. /\ pc = c /\ pc' = then
      /\ UNCHANGED <<probe, info, label, nodeVars, bootRun>>
      /\ auth' = [auth EXCEPT ![c] = ResolveRpcAuth]
      /\ fresh' = IF node.state = "up" THEN fresh \cup {c} ELSE fresh
  BY DEF MakeClient, NewClient
<1>2. /\ Written' = Written /\ Begun' = Begun /\ Texts' = Texts
      /\ ResolveRpcAuth' = ResolveRpcAuth /\ FilesOK'
  BY <1>1, NodeKept
<1>3. /\ auth \in [Clients -> Credentials \cup {None}]
      /\ ResolveRpcAuth \in Credentials \cup {None}
      /\ ~EnvUsable => ResolveRpcAuth \in {None} \cup Cookies(Written)
  BY ResolveFacts DEF PInv, AuthOK
<1>4. auth'[c] = ResolveRpcAuth /\ \A d \in Clients \ {c} : auth'[d] = auth[d]
  BY <1>1, <1>3
<1>5. /\ probe = None
      /\ c = "boot" => bootRun = None
      /\ c # "boot" => bootRun # None /\ Accepts(bootRun, auth["boot"])
  BY <1>1 DEF PInv, ProbeOK
<1>6. node.state = "up" => node.run \in Runs
  BY DEF PInv, NodeOK
<1>7. PcOK' /\ NodeOK' /\ LabelOK'
  BY <1>1, <1>2 DEF PInv, PcOK, NodeOK, LabelOK, nodeVars, Clients
<1>14. InfoOK'
  <2>1. CASE c = "boot"
    <3>1. info = NoInfo
      BY <1>5, <2>1 DEF PInv, ProbeOK
    <3> QED
      BY <1>1, <1>2, <3>1 DEF PInv, InfoOK, NoInfo
  <2>2. CASE c # "boot"
    <3>1. Probing = {"boot"} /\ Probing \subseteq Probing' /\ auth'["boot"] = auth["boot"]
      BY <1>1, <1>4, <2>2 DEF Probing, Clients
    <3> QED
      BY <1>1, <1>2, <3>1 DEF PInv, InfoOK, Accepts
  <2> QED
    BY <2>1, <2>2
<1>8. AuthOK'
  <2>1. auth' \in [Clients -> Credentials \cup {None}]
    BY <1>1, <1>3
  <2> QED
    BY <1>2, <1>3, <1>4, <2>1 DEF PInv, AuthOK
<1>9. BootStillFinds'
  BY <1>1, <1>2, <1>4 DEF PInv, BootStillFinds, nodeVars, Clients
<1>10. ProbeOK'
  BY <1>1, <1>2, <1>4, <1>5 DEF PInv, ProbeOK, Clients, Accepts
<1>11. FreshOK'
  BY <1>1 DEF PInv, FreshOK
<1>12. AcceptedWhileNodeRuns'
  <2> SUFFICES ASSUME node.state = "up", bootRun = node.run, NEW d \in Made'
               PROVE  Accepts(node.run, auth'[d])
    BY <1>1 DEF AcceptedWhileNodeRuns, nodeVars, Accepts
  <2>1. bootRun # None /\ c # "boot" /\ Accepts(node.run, auth["boot"])
    BY <1>5, <1>6, CookieFacts
  <2>2. Accepts(node.run, ResolveRpcAuth)
    BY <2>1, AcceptedAgain DEF PInv
  <2>3. d \in Made \cup {c}
    BY <1>1, <2>1 DEF Made, Clients
  <2>4. d \in Clients
    BY DEF Made
  <2> QED
    BY <1>4, <2>2, <2>3, <2>4 DEF PInv, AcceptedWhileNodeRuns
<1>13. CookieFound'
  <2> SUFFICES ASSUME node.state = "up", node.run \notin Open, NEW d \in fresh'
               PROVE  \/ auth'[d] = Cookie(node.run)
                      \/ \E i \in DOMAIN Texts :
                           /\ Texts[i] = auth'[d] /\ Usable(Texts[i])
                           /\ \A j \in DOMAIN Texts : Texts[j] = Cookie(node.run) => i < j
    BY <1>1, <1>2 DEF CookieFound, nodeVars
  <2>1. CASE d = c
    BY <1>4, <2>1, NodeIsFound DEF PInv
  <2>2. CASE d # c
    <3>1. d \in fresh /\ d \in Clients
      BY <1>1, <2>2 DEF PInv, FreshOK
    <3>2. auth'[d] = auth[d]
      BY <1>4, <2>2, <3>1
    <3> QED
      BY <3>1, <3>2 DEF PInv, CookieFound
  <2> QED
    BY <2>1, <2>2
<1> QED
  BY <1>2, <1>7, <1>8, <1>9, <1>10, <1>11, <1>12, <1>13, <1>14 DEF PInv

(* The run that is up is the last there has been. *)
LEMMA LaterRun ==
  ASSUME NodeOK, node.state = "up", NEW r \in Begun
  PROVE  node.run \in Begun /\ r <= node.run /\ (r # node.run => r < node.run)
<1> DEFINE n == node.run
<1>1. /\ n \in Runs /\ n \in Nat /\ r \in Nat
      /\ r < n \/ r = n
      /\ n \in Begun
  BY CookieFacts DEF NodeOK, Begun
<1> HIDE DEF n
<1>2. r <= n /\ (r # n => r < n)
  BY <1>1
<1> QED
  BY <1>1, <1>2 DEF n

(* The first call of a probe: the run that answers accepts the client. *)
LEMMA ProbeChainStep ==
  ASSUME PInv, \/ pc = "probe" /\ ProbeChain("boot")
               \/ Refreshing /\ ProbeChain("meta")
  PROVE  PInv'
<1>1. /\ probe = None /\ probe' = node.run /\ node.state = "up"
      /\ UNCHANGED <<pc, auth, info, label, nodeVars, bootRun, fresh>>
      /\ \/ pc = "probe" /\ Accepts(node.run, auth["boot"])
         \/ pc \in {"bind", "up"} /\ Accepts(node.run, auth["meta"])
  BY DEF ProbeChain, Answers, Refreshing
<1>2. /\ Written' = Written /\ Begun' = Begun /\ Texts' = Texts
      /\ ResolveRpcAuth' = ResolveRpcAuth /\ FilesOK'
  BY <1>1, NodeKept
<1>3. node.run \in Begun /\ \A r \in Begun : r <= node.run
  BY <1>1, CookieFacts DEF PInv, NodeOK, Begun
<1> USE <1>1, <1>2, <1>3 DEF PInv, nodeVars
<1>4. PcOK' /\ NodeOK' /\ BootStillFinds'
  BY DEF PcOK, NodeOK, BootStillFinds
<1>5. AuthOK'
  BY DEF AuthOK
<1>6. ProbeOK'
  BY DEF ProbeOK, Accepts
<1>7. FreshOK' /\ AcceptedWhileNodeRuns' /\ CookieFound'
  BY DEF FreshOK, AcceptedWhileNodeRuns, Made, CookieFound, Accepts
<1>8. InfoOK'
  BY DEF InfoOK, Probing, Accepts
<1>9. LabelOK'
  BY DEF LabelOK
<1> QED
  BY <1>4, <1>5, <1>6, <1>7, <1>8, <1>9

(* The second call: nobody answers, or a run that accepts the client, too. *)
LEMMA BootProbedStep ==
  ASSUME PInv, NEW run, BootProbed(run),
         run = None \/ (Answers("boot") /\ run = node.run)
  PROVE  PInv'
<1>1. /\ pc = "probe" /\ pc' = "serve" /\ probe # None /\ probe' = None
      /\ info' = [chain |-> probe, subversion |-> run]
      /\ label' = DetectNodeKind(Subversion(run)) /\ bootRun' = probe
      /\ UNCHANGED <<auth, nodeVars, fresh>>
  BY DEF BootProbed, ProbeNet
<1>2. /\ Written' = Written /\ Begun' = Begun /\ Texts' = Texts
      /\ ResolveRpcAuth' = ResolveRpcAuth /\ FilesOK'
  BY <1>1, NodeKept
<1>3. probe \in Begun /\ Accepts(probe, auth["boot"])
  BY <1>1 DEF PInv, ProbeOK
<1>4. run # None =>
        /\ run \in Begun /\ Accepts(run, auth["boot"])
        /\ probe <= run /\ (probe # run => probe < run)
  BY <1>3, LaterRun DEF Answers, PInv
<1> USE <1>1, <1>2, <1>3, <1>4 DEF PInv, nodeVars
<1>5. PcOK' /\ NodeOK' /\ BootStillFinds'
  BY DEF PcOK, NodeOK, BootStillFinds, Clients
<1>6. AuthOK'
  BY DEF AuthOK
<1>7. ProbeOK'
  <2>1. bootRun' # None
    BY CookieFacts DEF Begun
  <2> QED
    BY <2>1 DEF ProbeOK, Accepts
<1>8. InfoOK'
  <2>1. /\ info'.chain = probe /\ info'.subversion = run /\ probe # None
        /\ "boot" \in Probing' /\ auth' = auth
    BY DEF Probing
  <2>2. info' \in [chain : Begun \cup {None}, subversion : Begun \cup {None}]
    OBVIOUS
  <2> QED
    BY <2>1, <2>2 DEF InfoOK, Accepts
<1>9. LabelOK'
  <2>1. /\ run \in Begun \cup {None} /\ label' = DetectNodeKind(Subversion(run))
        /\ run # None => bootRun' <= run /\ probe' = None
                         /\ info' = [chain |-> bootRun', subversion |-> run]
    OBVIOUS
  <2> QED
    BY <2>1 DEF LabelOK, Subversion, DetectNodeKind
<1>10. FreshOK' /\ CookieFound'
  BY DEF FreshOK, CookieFound
<1>11. AcceptedWhileNodeRuns'
  BY DEF AcceptedWhileNodeRuns, Made, Accepts
<1> QED
  BY <1>5, <1>6, <1>7, <1>8, <1>9, <1>10, <1>11

LEMMA RefreshedStep ==
  ASSUME PInv, NEW run, Refreshed(run),
         run = None \/ (Answers("meta") /\ run = node.run)
  PROVE  PInv'
<1>1. /\ pc \in {"bind", "up"} /\ probe # None /\ probe' = None
      /\ info' = [chain |-> probe, subversion |-> run]
      /\ UNCHANGED <<pc, auth, label, nodeVars, bootRun, fresh>>
  BY DEF Refreshed, Refreshing, ProbeNet
<1>2. /\ Written' = Written /\ Begun' = Begun /\ Texts' = Texts
      /\ ResolveRpcAuth' = ResolveRpcAuth /\ FilesOK'
  BY <1>1, NodeKept
<1>3. probe \in Begun /\ probe \in Runs /\ Accepts(probe, auth["meta"])
  BY <1>1 DEF PInv, ProbeOK, Begun
<1>4. run # None =>
        /\ run \in Begun /\ Accepts(run, auth["meta"])
        /\ probe <= run /\ (probe # run => probe < run)
  BY <1>3, LaterRun DEF Answers, PInv
<1> USE <1>1, <1>2, <1>3, <1>4 DEF PInv, nodeVars
<1>5. PcOK' /\ NodeOK' /\ BootStillFinds'
  BY DEF PcOK, NodeOK, BootStillFinds
<1>6. AuthOK'
  BY DEF AuthOK
<1>7. ProbeOK'
  BY DEF ProbeOK, Accepts
<1>8. InfoOK'
  <2>1. /\ info'.chain = probe /\ info'.subversion = run /\ probe # None
        /\ "meta" \in Probing' /\ auth' = auth
    BY DEF Probing
  <2>2. info' \in [chain : Begun \cup {None}, subversion : Begun \cup {None}]
    OBVIOUS
  <2> QED
    BY <2>1, <2>2 DEF InfoOK, Accepts
<1>9. LabelOK'
  BY DEF LabelOK
<1>10. FreshOK' /\ CookieFound'
  BY DEF FreshOK, CookieFound
<1>11. AcceptedWhileNodeRuns'
  BY DEF AcceptedWhileNodeRuns, Made, Accepts
<1> QED
  BY <1>5, <1>6, <1>7, <1>8, <1>9, <1>10, <1>11

LEMMA ExitStep ==
  ASSUME PInv, Exit
  PROVE  PInv'
<1>1. /\ pc' = "off" /\ auth' = NoClients /\ probe' = None /\ info' = NoInfo
      /\ label' = None /\ bootRun' = None /\ fresh' = {} /\ UNCHANGED nodeVars
  BY DEF Exit
<1>2. Written' = Written /\ Begun' = Begun /\ ResolveRpcAuth' = ResolveRpcAuth /\ FilesOK'
  BY <1>1, NodeKept
<1>3. PcOK' /\ NodeOK' /\ InfoOK' /\ FreshOK' /\ ProbeOK' /\ LabelOK'
  BY <1>1 DEF PInv, PcOK, NodeOK, InfoOK, NoInfo, FreshOK, ProbeOK, LabelOK, nodeVars
<1>4. AuthOK' /\ BootStillFinds'
  <2>1. node.state = "up" => Cookie(node.run) # None
    BY AbsenceAssumption DEF PInv, NodeOK
  <2> QED
    BY <1>1, <2>1 DEF AuthOK, BootStillFinds, NoClients, nodeVars, Clients
<1>5. AcceptedWhileNodeRuns' /\ CookieFound'
  BY <1>1, CookieFacts DEF AcceptedWhileNodeRuns, CookieFound, PInv, NodeOK, nodeVars
<1> QED
  BY <1>2, <1>3, <1>4, <1>5 DEF PInv

(* A node that starts has not written its cookie yet: no client has it. *)
LEMMA NodeStartsStep ==
  ASSUME PInv, NodeStarts
  PROVE  PInv'
<1> DEFINE next == node.run + 1
           p == CookiePath[RunKind[next]]
<1>1. /\ node.state = "down" /\ next \in Runs
      /\ node' = [run |-> next, state |-> "starting"]
      /\ files' \in {files, [files EXCEPT ![p] = NoColon]} /\ fresh' = {}
      /\ UNCHANGED <<pc, auth, probe, info, label, bootRun>>
  BY DEF NodeStarts, CookieFile
<1>2. Written' = Written /\ Begun \subseteq Begun'
  <2> HIDE DEF p
  <2>1. node.run \in Runs \cup {0}
    BY DEF PInv, NodeOK
  <2>2. node.run \in Nat /\ \A r \in Runs : r \in Nat
    <3> DEFINE n == node.run
    <3>1. Runs \subseteq Nat /\ n \in Runs \cup {0}
      BY <2>1, CookieFacts
    <3> HIDE DEF n
    <3>2. n \in Nat
      BY <3>1
    <3> QED
      BY <3>1, <3>2 DEF n
  <2>3. \A r \in Runs : r < next <=> r < node.run \/ r = node.run
    BY <2>2
  <2> HIDE DEF next
  <2>4. Begun' = Begun
    BY <1>1, <2>3 DEF Begun
  <2> QED
    BY <2>4 DEF Written
<1> HIDE DEF next, p
<1> USE <1>1, <1>2 DEF PInv
<1>3. PcOK' /\ NodeOK' /\ FreshOK'
  BY DEF PcOK, NodeOK, FreshOK
<1>4. FilesOK'
  BY DEF FilesOK
<1>5. AuthOK'
  BY ResolveIs, EnvDecides DEF AuthOK
<1>6. ProbeOK' /\ LabelOK'
  BY DEF ProbeOK, LabelOK, Accepts
<1>7. InfoOK'
  BY DEF InfoOK, Probing, Accepts
<1>8. BootStillFinds' /\ AcceptedWhileNodeRuns' /\ CookieFound'
  BY DEF BootStillFinds, AcceptedWhileNodeRuns, CookieFound
<1> QED
  BY <1>3, <1>4, <1>5, <1>6, <1>7, <1>8

LEMMA NodeListensStep ==
  ASSUME PInv, NodeListens
  PROVE  PInv'
<1> DEFINE p == CookiePath[RunKind[node.run]]
<1>1. /\ node.state = "starting" /\ node.run \in Runs /\ fresh = {}
      /\ node' = [node EXCEPT !.state = "up"]
      /\ files' = IF node.run \in Open THEN files
                  ELSE [files EXCEPT ![p] = Cookie(node.run)]
      /\ UNCHANGED <<pc, auth, probe, info, label, bootRun, fresh>>
  BY DEF NodeListens, CookieFile, PInv, NodeOK
<1>2. node' = [run |-> node.run, state |-> "up"]
  BY <1>1 DEF PInv, NodeOK
<1>3. /\ node.run \notin Begun /\ Begun' = Begun \cup {node.run}
      /\ node.run \notin Written /\ Written' = Written \cup ({node.run} \ Open)
  <2>1. node.run \in Nat
    BY <1>1, CookieFacts
  <2> QED
    BY <1>1, <1>2, <2>1 DEF Begun, Written
<1>4. p \in Files
  BY <1>1, ProcessAssumption, ElementOfSeq, LenProperties DEF Runs
<1>5. Cookie(node.run) \notin Cookies(Written)
  BY <1>1, <1>3, CookieFacts DEF Cookies, Written, Begun
<1>6. /\ Cookies(Written) \subseteq Cookies(Written')
      /\ node.run \notin Open => Cookie(node.run) \in Cookies(Written')
  BY <1>3 DEF Cookies
<1>7. EnvUsable => ResolveRpcAuth' = ResolveRpcAuth
  BY ResolveIs, EnvDecides
<1> HIDE DEF p
<1> USE <1>1, <1>2, <1>3 DEF PInv
<1>8. FilesOK'
  <2>1. files' \in [Files -> {None, NoColon} \cup Cookies(Written')]
    BY <1>6 DEF FilesOK
  <2> QED
    BY <2>1 DEF FilesOK, Cookies
<1>9. NodeOK'
  <2>1. node.run \notin Open => files'[p] = Cookie(node.run)
    BY <1>4 DEF FilesOK
  <2> QED
    BY <2>1 DEF NodeOK, p
<1>10. AuthOK'
  <2>1. \A c \in Clients : ~EnvUsable => auth[c] \in {None} \cup Cookies(Written')
    BY <1>6 DEF AuthOK
  <2> QED
    BY <1>7, <2>1 DEF AuthOK, Cookies
<1>11. BootStillFinds'
  <2> SUFFICES ASSUME auth["boot"] = Cookie(node.run)
               PROVE  ResolveRpcAuth' = Cookie(node.run)
    BY DEF BootStillFinds
  <2>1. Cookie(node.run) # None
    BY AbsenceAssumption
  <2>2. EnvUsable /\ auth["boot"] = ResolveRpcAuth
    BY <1>5, <2>1 DEF AuthOK, Clients
  <2> QED
    BY <1>7, <2>2
<1>12. PcOK' /\ FreshOK' /\ ProbeOK' /\ LabelOK'
  BY DEF PcOK, FreshOK, ProbeOK, LabelOK, Accepts
<1>13. InfoOK'
  BY DEF InfoOK, Probing, Accepts
<1>14. CookieFound'
  BY DEF CookieFound
<1>15. AcceptedWhileNodeRuns'
  BY CookieFacts DEF AcceptedWhileNodeRuns, ProbeOK
<1> QED
  BY <1>8, <1>9, <1>10, <1>11, <1>12, <1>13, <1>14, <1>15

LEMMA NodeStopsStep ==
  ASSUME PInv, NodeStops
  PROVE  PInv'
<1>1. /\ node.state # "down" /\ node.run \in Runs
      /\ node' = [node EXCEPT !.state = "down"]
      /\ \/ files' = files
         \/ files' = [files EXCEPT ![CookiePath[RunKind[node.run]]] = None]
      /\ UNCHANGED <<pc, auth, probe, info, label, bootRun, fresh>>
  BY DEF NodeStops, CookieFile, PInv, NodeOK
<1>2. node' = [run |-> node.run, state |-> "down"]
  BY <1>1 DEF PInv, NodeOK
<1>3. Begun \subseteq Begun' /\ Written \subseteq Written'
  BY <1>1, <1>2 DEF Begun, Written
<1>4. Cookies(Written) \subseteq Cookies(Written')
  BY <1>3 DEF Cookies
<1> USE <1>1, <1>2, <1>3 DEF PInv
<1>5. FilesOK'
  <2>1. /\ files \in [Files -> {None, NoColon} \cup Cookies(Written')]
        /\ files' \in [Files -> {None, NoColon} \cup Cookies(Written')]
    BY <1>4 DEF FilesOK
  <2> QED
    BY <2>1 DEF FilesOK, Cookies
<1>6. AuthOK'
  BY <1>4, ResolveIs, EnvDecides DEF AuthOK, Cookies
<1>7. NodeOK' /\ PcOK' /\ FreshOK' /\ ProbeOK' /\ LabelOK'
  BY DEF NodeOK, PcOK, FreshOK, ProbeOK, LabelOK, Accepts
<1>8. InfoOK'
  BY DEF InfoOK, Probing, Accepts
<1>9. BootStillFinds' /\ AcceptedWhileNodeRuns' /\ CookieFound'
  BY DEF BootStillFinds, AcceptedWhileNodeRuns, CookieFound
<1> QED
  BY <1>5, <1>6, <1>7, <1>8, <1>9

LEMMA StutterKeeps ==
  ASSUME PInv, UNCHANGED vars
  PROVE  PInv'
<1>1. /\ Written' = Written /\ Begun' = Begun /\ Texts' = Texts
      /\ ResolveRpcAuth' = ResolveRpcAuth /\ FilesOK'
  BY NodeKept DEF vars, nodeVars
<1> USE <1>1 DEF PInv, vars
<1>2. PcOK' /\ NodeOK' /\ BootStillFinds' /\ FreshOK'
  BY DEF PcOK, NodeOK, BootStillFinds, FreshOK
<1>5. ProbeOK' /\ LabelOK' /\ InfoOK'
  BY DEF ProbeOK, LabelOK, InfoOK, Probing, Accepts
<1>3. AuthOK'
  BY DEF AuthOK
<1>4. AcceptedWhileNodeRuns' /\ CookieFound'
  BY DEF AcceptedWhileNodeRuns, Made, CookieFound, Accepts
<1> QED
  BY <1>1, <1>2, <1>3, <1>4, <1>5

LEMMA StepPInv == PInv /\ [Next]_vars => PInv'
<1> SUFFICES ASSUME PInv, [Next]_vars PROVE PInv'
  OBVIOUS
<1>1. CASE UNCHANGED vars
  BY <1>1, StutterKeeps
<1>2. CASE Launch \/ OpenStore \/ Bind
  BY <1>2, QuietStep
<1>3. CASE \/ MakeClient("boot", "store") \/ MakeClient("serve", "ingest")
           \/ MakeClient("ingest", "meta") \/ MakeClient("meta", "bind")
  <2>1. {"boot", "serve", "ingest", "meta"} = Clients
    BY DEF Clients
  <2> QED
    BY <1>3, <2>1, MakeClientStep
<1>4. CASE \/ pc = "probe" /\ ProbeChain("boot")
           \/ Refreshing /\ ProbeChain("meta")
  BY <1>4, ProbeChainStep
<1>5. CASE BootProbed(None) \/ (Answers("boot") /\ BootProbed(node.run))
  BY <1>5, BootProbedStep
<1>6. CASE Refreshed(None) \/ (Answers("meta") /\ Refreshed(node.run))
  BY <1>6, RefreshedStep
<1>7. CASE Exit
  BY <1>7, ExitStep
<1>8. CASE NodeStarts
  BY <1>8, NodeStartsStep
<1>9. CASE NodeListens
  BY <1>9, NodeListensStep
<1>10. CASE NodeStops
  BY <1>10, NodeStopsStep
<1>11. CASE Startup
  BY <1>2, <1>3, <1>4, <1>5, <1>11 DEF Startup
<1>12. CASE Refresh
  BY <1>4, <1>6, <1>12 DEF Refresh
<1>13. CASE NoNetworkInfo
  BY <1>5, <1>6, <1>13 DEF NoNetworkInfo
<1> QED
  BY <1>1, <1>2, <1>7, <1>8, <1>9, <1>10, <1>11, <1>12, <1>13 DEF Next

(* What the invariant says of the values of the variables, and of NodeInfo. *)
LEMMA PInvImplies == PInv => ProcessTypeOK /\ InfoOfTwoNodes
<1> SUFFICES ASSUME PInv PROVE ProcessTypeOK /\ InfoOfTwoNodes
  OBVIOUS
<1>1. Cookies(Written) \subseteq Credentials /\ Begun \subseteq Runs
  BY CookieFacts DEF Cookies, Written, Begun
<1>2. label \in {"Zakura", "Zebrad", "Zebra-family", None}
  BY DEF PInv, ProbeOK, LabelOK, DetectNodeKind
<1>3. ASSUME info.subversion \notin {None, info.chain}
      PROVE  /\ info.chain < info.subversion
             /\ \E c \in Made :
                  Accepts(info.chain, auth[c]) /\ Accepts(info.subversion, auth[c])
  <2>1. bootRun # None
    BY <1>3 DEF PInv, ProbeOK, NoInfo
  <2>2. Probing \subseteq Made
    BY <2>1 DEF PInv, ProbeOK, Probing, Made, Clients
  <2> QED
    BY <1>3, <2>2 DEF PInv, InfoOK
<1>4. ASSUME bootRun # None, info = [chain |-> bootRun, subversion |-> bootRun]
      PROVE  label \in {DetectNodeKind(Subversion(bootRun)), "Zebra-family"}
  <2>1. PICK r \in Begun \cup {None} :
          /\ label = DetectNodeKind(Subversion(r))
          /\ r # None => bootRun <= r /\ (info.subversion = r \/ r <= bootRun)
    BY <1>4 DEF PInv, LabelOK
  <2>2. CASE r = None
    BY <2>1, <2>2, AbsenceAssumption DEF DetectNodeKind, Subversion, Kinds
  <2>3. CASE r # None
    <3>1. r \in Nat /\ bootRun \in Nat
      BY <1>4, <2>3, CookieFacts DEF PInv, ProbeOK, Begun
    <3>2. r = bootRun
      BY <1>4, <2>1, <2>3, <3>1
    <3> QED
      BY <2>1, <3>2
  <2> QED
    BY <2>2, <2>3
<1>5. InfoOfTwoNodes
  BY <1>3, <1>4 DEF InfoOfTwoNodes
<1>6. files \in [Files -> Credentials \cup {None, NoColon}]
  BY <1>1 DEF PInv, FilesOK
<1>7. /\ probe \in Runs \cup {None}
      /\ info \in [chain : Runs \cup {None}, subversion : Runs \cup {None}]
  BY <1>1 DEF PInv, ProbeOK, InfoOK
<1> QED
  BY <1>2, <1>5, <1>6, <1>7 DEF PInv, PcOK, AuthOK, NodeOK, ProcessTypeOK
-----------------------------------------------------------------------------
(* The theorems. *)

(* The invariant holds in every state of every run of the process and the  *)
(* nodes beside it.                                                        *)
THEOREM ProcessAlways == Spec => []PInv
  BY InitPInv, StepPInv, PTL DEF Spec

(* main.rs and rpc.rs keep to the types: a client has a whole pair that    *)
(* some node or the environment gave, or none.                             *)
THEOREM ProcessTypeCorrect == Spec => []ProcessTypeOK
  BY ProcessAlways, PInvImplies, PTL

(* As long as the node that answered bootstrap runs, it accepts every      *)
(* client main makes, whatever cookies other nodes left behind and         *)
(* whichever environment variables are set.                                *)
THEOREM ClientsAreAccepted == Spec => []AcceptedWhileNodeRuns
<1>1. PInv => AcceptedWhileNodeRuns
  BY DEF PInv
<1> QED
  BY <1>1, ProcessAlways, PTL

(* resolve_rpc_auth finds the cookie of a node that is up unless a usable  *)
(* pair comes before it.                                                   *)
THEOREM CookieIsFound == Spec => []CookieFound
<1>1. PInv => CookieFound
  BY DEF PInv
<1> QED
  BY <1>1, ProcessAlways, PTL

(* NodeInfo is put together from two runs of the node only if both accept  *)
(* one client, and then from an earlier and a later one.                   *)
THEOREM InfoOfTwoNodesOnlyIfAccepted == Spec => []InfoOfTwoNodes
  BY ProcessAlways, PInvImplies, PTL
-----------------------------------------------------------------------------
(* From here on, the calls of SendTransaction.  Its steps are steps of     *)
(* Process, or none, as far as process and node go.                        *)

CallFields == {"tx", "auth", "step", "response", "outcome"}

CallOK ==
  /\ DOMAIN call = Calls
  /\ \A c \in Calls : DOMAIN call[c] = CallFields

(* A request is posted once, and while it is on its way the node has       *)
(* neither taken nor answered it.                                          *)
OnceOnly ==
  \A c \in Calls :
    /\ call[c].step = "free" => c \notin posted \cup taken
    /\ c \in posted => c \notin taken /\ call[c].response = None

(* What a response that waits to be read will be told as is true. *)
ResponseTrue ==
  \A c \in Calls :
    call[c].response # None =>
      /\ Outcome(call[c].response) = "ok" => c \in taken
      /\ Outcome(call[c].response) \in {"http", "rpc"} => c \notin taken \cup posted

(* What was told is true; an outcome is there once a call is answered. *)
OutcomeTrue ==
  \A c \in Calls :
    /\ call[c].outcome = "ok" => c \in taken
    /\ call[c].outcome \in {"empty", "http", "rpc"} =>
         c \notin taken \cup posted /\ call[c].step # "free"

SInv == CallOK /\ OnceOnly /\ ResponseTrue /\ OutcomeTrue

LEMMA NoneIsNoOutcome == None \notin {"empty", "http", "rpc", "ok"}
  BY SendAssumption DEF Outcomes

LEMMA OutcomeOfReplies ==
  /\ Outcome(Accepted) = "ok"
  /\ Outcome(Erring) = "rpc"
  /\ Outcome(Unauthorized) = "http"
  /\ Outcome([Accepted EXCEPT !.decodes = FALSE]) = "decode"
  /\ Outcome([Accepted EXCEPT !.result = FALSE]) = "missing"
  BY DEF Outcome, Accepted, Erring, Unauthorized

LEMMA SendInitInv == SendInit => SInv
  BY NoneIsNoOutcome
  DEF SendInit, SInv, CallOK, CallFields, OnceOnly, ResponseTrue, OutcomeTrue, NoCall

(* A step of one call leaves the others alone. *)
LEMMA AnswerEffect ==
  ASSUME CallOK, NEW c \in Calls, NEW outcome, Answer(c, outcome)
  PROVE  /\ CallOK'
         /\ call'[c].step = "answered"
         /\ call'[c].outcome = outcome
         /\ call'[c].response = None
         /\ \A d \in Calls \ {c} : call'[d] = call[d]
  BY DEF Answer, CallOK, CallFields

LEMMA SubmitStep ==
  ASSUME SInv, NEW c \in Calls, NEW tx \in Txs, Submit(c, tx)
  PROVE  SInv'
<1>1. call[c].step = "free" /\ c \notin posted \cup taken
  BY DEF Submit, SInv, OnceOnly
<1>2. CASE tx = Empty
  <2>1. Answer(c, "empty") /\ UNCHANGED <<posted, taken>>
    BY <1>2 DEF Submit
  <2> QED
    BY <1>1, <2>1, AnswerEffect
    DEF SInv, OnceOnly, ResponseTrue, OutcomeTrue
<1>3. CASE tx # Empty
  <2>1. Post(c, tx) /\ UNCHANGED taken
    BY <1>3 DEF Submit
  <2>2. /\ CallOK'
        /\ call'[c].step = "waiting"
        /\ call'[c].outcome = None
        /\ call'[c].response = None
        /\ \A d \in Calls \ {c} : call'[d] = call[d]
    BY <2>1 DEF Post, SInv, CallOK, CallFields, NoCall
  <2>3. posted' \subseteq posted \cup {c}
    BY <2>1 DEF Post
  <2> QED
    BY <1>1, <2>1, <2>2, <2>3, NoneIsNoOutcome
    DEF SInv, OnceOnly, ResponseTrue, OutcomeTrue
<1> QED
  BY <1>2, <1>3

LEMMA AnswerStep ==
  ASSUME SInv, NEW c \in Calls, Receive(c) \/ TransportFails(c)
  PROVE  SInv'
<1>1. UNCHANGED <<posted, taken>> /\ call[c].step = "waiting"
  BY DEF Receive, TransportFails, wireVars
<1>2. CASE Receive(c)
  <2>1. Answer(c, Outcome(call[c].response)) /\ call[c].response # None
    BY <1>2 DEF Receive
  <2>2. Outcome(call[c].response) # "empty"
    BY DEF Outcome
  <2> QED
    BY <1>1, <2>1, <2>2, AnswerEffect DEF SInv, OnceOnly, ResponseTrue, OutcomeTrue
<1>3. CASE TransportFails(c)
  <2>1. Answer(c, "transport")
    BY <1>3 DEF TransportFails
  <2> QED
    BY <1>1, <2>1, AnswerEffect DEF SInv, OnceOnly, ResponseTrue, OutcomeTrue
<1> QED
  BY <1>2, <1>3

LEMMA NodeHandlesStep ==
  ASSUME SInv, NEW c \in Calls, NodeHandles(c)
  PROVE  SInv'
<1>1. c \in posted /\ c \notin taken /\ call[c].step # "free"
  BY DEF NodeHandles, SInv, OnceOnly
<1>2. PICK r \in {Unauthorized, Erring, Accepted} :
        Reply(c, r) /\ taken' = IF r = Accepted THEN taken \cup {c} ELSE taken
  <2>1. Accepted # Erring /\ Accepted # Unauthorized
    BY DEF Accepted, Erring, Unauthorized
  <2> QED
    BY <2>1 DEF NodeHandles
<1>3. posted' = posted \ {c}
  BY <1>2 DEF Reply
<1>4. /\ CallOK'
      /\ call'[c].step = call[c].step /\ call'[c].outcome = call[c].outcome
      /\ call'[c].response \in {r, call[c].response}
      /\ \A d \in Calls \ {c} : call'[d] = call[d]
  BY <1>2 DEF Reply, SInv, CallOK, CallFields
<1>5. call[c].response = None
  BY <1>1 DEF SInv, OnceOnly
<1> QED
  BY <1>1, <1>2, <1>3, <1>4, <1>5, OutcomeOfReplies
  DEF SInv, OnceOnly, ResponseTrue, OutcomeTrue

LEMMA NetworkStep ==
  ASSUME SInv, NEW c \in Calls, ReplyDamaged(c) \/ Lost(c) \/ Cancel(c)
  PROVE  SInv'
<1>1. UNCHANGED taken /\ posted' \subseteq posted
  BY DEF ReplyDamaged, Lost, Cancel, wireVars
<1>2. /\ CallOK'
      /\ call[c].step = "free" => call'[c].step = "free"
      /\ call'[c].step = "free" => call[c].step = "free"
      /\ call'[c].outcome = call[c].outcome
      /\ \A d \in Calls \ {c} : call'[d] = call[d]
  BY DEF ReplyDamaged, Lost, Cancel, SInv, CallOK, CallFields
<1>3. \/ call'[c].response \in {None, call[c].response}
      \/ /\ call[c].response # None
         /\ Outcome(call'[c].response) \in {"decode", "missing"}
  BY OutcomeOfReplies DEF ReplyDamaged, Lost, Cancel, SInv, CallOK, CallFields
<1> QED
  BY <1>1, <1>2, <1>3 DEF SInv, OnceOnly, ResponseTrue, OutcomeTrue

LEMMA ProcessStep ==
  ASSUME SInv, ProcessMeanwhile
  PROVE  SInv'
<1>1. UNCHANGED taken /\ posted' \subseteq posted
  BY DEF ProcessMeanwhile
<1>2. /\ CallOK'
      /\ \A c \in Calls : /\ call'[c].step = "free" <=> call[c].step = "free"
                          /\ call'[c].outcome = call[c].outcome
                          /\ call'[c].response \in {None, call[c].response}
  BY DEF ProcessMeanwhile, SInv, CallOK, CallFields
<1> QED
  BY <1>1, <1>2 DEF SInv, OnceOnly, ResponseTrue, OutcomeTrue

LEMMA SendStepInv == SInv /\ [SendNext]_sendVars => SInv'
<1> SUFFICES ASSUME SInv, [SendNext]_sendVars PROVE SInv'
  OBVIOUS
<1>1. CASE UNCHANGED sendVars
  BY <1>1 DEF sendVars, wireVars, SInv, CallOK, OnceOnly, ResponseTrue, OutcomeTrue
<1>2. CASE ProcessMeanwhile
  BY <1>2, ProcessStep
<1>3. ASSUME NEW c \in Calls, NEW tx \in Txs, Submit(c, tx) PROVE SInv'
  BY <1>3, SubmitStep
<1>4. ASSUME NEW c \in Calls, Receive(c) \/ TransportFails(c) PROVE SInv'
  BY <1>4, AnswerStep
<1>5. ASSUME NEW c \in Calls, NodeHandles(c) PROVE SInv'
  BY <1>5, NodeHandlesStep
<1>6. ASSUME NEW c \in Calls, ReplyDamaged(c) \/ Lost(c) \/ Cancel(c) PROVE SInv'
  BY <1>6, NetworkStep
<1> QED
  BY <1>1, <1>2, <1>3, <1>4, <1>5, <1>6 DEF SendNext

(* What is on its way, what waits to be read and what was told fit         *)
(* together, call by call.                                                 *)
THEOREM AlwaysSInv == SendSpec => []SInv
  BY SendInitInv, SendStepInv, PTL DEF SendSpec

(* A wallet is told that its transaction was sent only if the node took it *)
(* on that request.                                                        *)
THEOREM SuccessIsTaken == SendSpec => []OkMeansTaken
<1>1. SInv => OkMeansTaken
  BY DEF SInv, OutcomeTrue, OkMeansTaken, ErrorCode
<1> QED
  BY <1>1, AlwaysSInv, PTL

(* A refusal that a wallet is told of is true and stays true. *)
THEOREM RefusalStands == SendSpec => []RefusalIsFinal
<1>1. SInv => RefusalIsFinal
  BY DEF SInv, OutcomeTrue, RefusalIsFinal
<1> QED
  BY <1>1, AlwaysSInv, PTL
-----------------------------------------------------------------------------
(* Types, which rest on those of the process: a request carries what the   *)
(* client of the server was made with.                                     *)

CallType == [tx : Txs \cup {None}, auth : Credentials \cup {None},
         step : {"free", "waiting", "answered", "gone"},
         response : Response \cup {None}, outcome : Outcomes \cup {None}]

TInv ==
  /\ call \in [Calls -> CallType]
  /\ posted \subseteq {c \in Calls : call[c].tx \notin {None, Empty}}
  /\ mempool \subseteq Txs \ Invalid
  /\ taken \subseteq Calls

LEMMA Replies ==
  /\ Accepted \in Response /\ Erring \in Response /\ Unauthorized \in Response
  /\ [Accepted EXCEPT !.decodes = FALSE] \in Response
  /\ [Accepted EXCEPT !.result = FALSE] \in Response
  /\ \A r \in Response : Outcome(r) \in Outcomes
<1>1. Accepted \in Response /\ Erring \in Response /\ Unauthorized \in Response
  BY DEF Accepted, Erring, Unauthorized, Response
<1>2. /\ [Accepted EXCEPT !.decodes = FALSE] \in Response
      /\ [Accepted EXCEPT !.result = FALSE] \in Response
  BY DEF Accepted, Response
<1>3. \A r \in Response : Outcome(r) \in Outcomes
  BY DEF Outcome, Outcomes
<1> QED
  BY <1>1, <1>2, <1>3

LEMMA SendInitTInv == SendInit => PInv /\ TInv
  BY InitPInv DEF SendInit, TInv, CallType, NoCall

(* The process takes part in a step of the whole, or none. *)
LEMMA ProcessSteps == [SendNext]_sendVars => [Next]_vars
  BY DEF SendNext, sendVars, ProcessMeanwhile, Submit, Receive, TransportFails, Cancel,
         NodeHandles, ReplyDamaged, Lost

LEMMA SendStepTInv == PInv /\ SInv /\ TInv /\ [SendNext]_sendVars => TInv'
<1> SUFFICES ASSUME PInv, SInv, TInv, [SendNext]_sendVars PROVE TInv'
  OBVIOUS
<1>1. CASE UNCHANGED sendVars
  BY <1>1 DEF sendVars, wireVars, TInv
<1>2. CASE ProcessMeanwhile
  <2>1. taken' = taken /\ posted' \subseteq posted /\ mempool' \subseteq mempool
    BY <1>2 DEF ProcessMeanwhile
  <2>2. call' \in [Calls -> CallType] /\ \A c \in Calls : call'[c].tx = call[c].tx
    BY <1>2 DEF ProcessMeanwhile, TInv, CallType
  <2> QED
    BY <2>1, <2>2 DEF TInv
<1>3. ASSUME NEW c \in Calls, NEW tx \in Txs, Submit(c, tx) PROVE TInv'
  <2>1. c \notin posted /\ UNCHANGED <<mempool, taken>>
    BY <1>3 DEF Submit, SInv, OnceOnly
  <2>2. auth["serve"] \in Credentials \cup {None}
    BY DEF PInv, AuthOK, Clients
  <2>3. CASE tx = Empty
    BY <1>3, <2>1, <2>3 DEF Submit, Answer, TInv, CallType, Outcomes
  <2>4. CASE tx # Empty
    <3>1. Post(c, tx)
      BY <1>3, <2>4 DEF Submit
    <3>2. call' \in [Calls -> CallType] /\ call'[c].tx = tx
          /\ \A d \in Calls \ {c} : call'[d] = call[d]
      BY <2>2, <3>1 DEF Post, NoCall, TInv, CallType
    <3>3. posted' \subseteq posted \cup {c} /\ tx # None
      BY <3>1, SendAssumption DEF Post
    <3> QED
      BY <2>1, <2>4, <3>2, <3>3 DEF TInv
  <2> QED
    BY <2>3, <2>4
<1>4. ASSUME NEW c \in Calls, Receive(c) \/ TransportFails(c) \/ Cancel(c) PROVE TInv'
  <2>1. UNCHANGED <<posted, mempool, taken>>
    BY <1>4 DEF Receive, TransportFails, Cancel, wireVars
  <2>2. call[c].response # None => Outcome(call[c].response) \in Outcomes
    BY Replies DEF TInv, CallType
  <2>3. call' \in [Calls -> CallType] /\ \A d \in Calls : call'[d].tx = call[d].tx
    BY <1>4, <2>2 DEF Receive, TransportFails, Cancel, Answer, TInv, CallType, Outcomes
  <2> QED
    BY <2>1, <2>3 DEF TInv
<1>5. ASSUME NEW c \in Calls, NodeHandles(c) PROVE TInv'
  <2>1. c \in posted /\ call[c].tx \in Txs
    BY <1>5 DEF NodeHandles, TInv, CallType
  <2>2. PICK r \in {Accepted, Erring, Unauthorized} : Reply(c, r)
    BY <1>5 DEF NodeHandles
  <2>3. /\ call' \in [Calls -> CallType] /\ \A d \in Calls : call'[d].tx = call[d].tx
        /\ posted' \subseteq posted
    BY <2>2, Replies DEF Reply, TInv, CallType
  <2>4. mempool' \subseteq Txs \ Invalid /\ taken' \subseteq Calls
    BY <1>5, <2>1 DEF NodeHandles, TInv
  <2> QED
    BY <2>3, <2>4 DEF TInv
<1>6. ASSUME NEW c \in Calls, ReplyDamaged(c) \/ Lost(c) PROVE TInv'
  <2>1. posted' \subseteq posted /\ UNCHANGED <<mempool, taken>>
    BY <1>6 DEF ReplyDamaged, Lost, wireVars
  <2>2. call' \in [Calls -> CallType] /\ \A d \in Calls : call'[d].tx = call[d].tx
    <3>1. CASE Lost(c)
      BY <3>1 DEF Lost, TInv, CallType
    <3>2. CASE ReplyDamaged(c)
      <4>1. PICK r \in Response : call' = [call EXCEPT ![c].response = r]
        BY <3>2, Replies DEF ReplyDamaged
      <4> QED
        BY <4>1 DEF TInv, CallType
    <3> QED
      BY <1>6, <3>1, <3>2
  <2> QED
    BY <2>1, <2>2 DEF TInv
<1> QED
  BY <1>1, <1>2, <1>3, <1>4, <1>5, <1>6 DEF SendNext

(* What a call is, what the node may hold, and what a request may carry:   *)
(* a whole pair or none, and never the empty transaction.                  *)
THEOREM SendTypeCorrect == SendSpec => []SendTypeOK
<1>1. SendInit => PInv /\ SInv /\ TInv
  BY SendInitTInv, SendInitInv
<1>2. PInv /\ SInv /\ TInv /\ [SendNext]_sendVars => (PInv /\ SInv /\ TInv)'
  BY ProcessSteps, StepPInv, SendStepInv, SendStepTInv
<1>3. TInv => SendTypeOK
  BY DEF TInv, CallType, SendTypeOK
<1> QED
  BY <1>1, <1>2, <1>3, PTL DEF SendSpec
=============================================================================
