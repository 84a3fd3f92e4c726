-------------------------- MODULE HostServiceProofs --------------------------
(***************************************************************************)
(* Proofs about the host service, for any number of clients, renderers,    *)
(* interfaces and files.                                                   *)
(***************************************************************************)
EXTENDS HostService, TLAPS

\* Only a running server has files.
FilesOnServers == \A e \in entries : e[1] \in servers

\* Until a file is freed while it is being sent, no response has lost its file,
\* and each mapping has a reference for each of its responses.
Referenced ==
    ~severed => \A e \in Entries : mapped[e] >= downloads[e] /\ orphans[e] = 0

\* A server's counter is beyond the number of each file it hosts, and no two
\* of them have the same number.
Numbered ==
    /\ \A e \in entries : id[e] < counter[e[1]]
    /\ \A e1, e2 \in entries :
           e1[1] = e2[1] /\ id[e1] = id[e2] => e1[2] = e2[2]

\* Every URL is of a server started so far, and a URL of the server that the
\* interface has now has a number below its counter.
GivenBefore ==
    /\ \A i \in Interfaces : started[i] <= starts
    /\ \A u \in given :
           /\ u.start <= starts
           /\ u.ip \in servers /\ u.start = started[u.ip] => u.id < counter[u.ip]

\* The inductive invariant.
IndInv ==
    /\ TypeOK
    /\ FilesHaveOwners
    /\ FilesOnServers
    /\ Referenced
    /\ Numbered
    /\ GivenBefore
    /\ UrlNamesFile

LEMMA InitIndInv == Init => IndInv
<1> SUFFICES ASSUME Init PROVE IndInv OBVIOUS
<1>1. TypeOK BY DEF Init, TypeOK
<1>2. FilesHaveOwners /\ FilesOnServers /\ Referenced
  BY DEF Init, FilesHaveOwners, FilesOnServers, Referenced
<1>3. Numbered /\ GivenBefore /\ UrlNamesFile
  BY DEF Init, Numbered, GivenBefore, UrlNamesFile
<1> QED BY <1>1, <1>2, <1>3 DEF IndInv

------------------------------------------------------------------------------
(***************************************************************************)
(* HostFile: the facts about ServerFor that both branches need.            *)
(***************************************************************************)
LEMMA ServerForFacts ==
    ASSUME IndInv, NEW i \in Interfaces, ServerFor(i)
    PROVE  /\ servers' = servers \cup {i}
           /\ servers' \subseteq Interfaces
           /\ port' \in [Interfaces -> Nat]
           /\ starts' \in Nat /\ started' \in [Interfaces -> Nat]
           /\ starts <= starts' /\ started'[i] <= starts'
           /\ NextId(i) \in Nat
           /\ \A j \in Interfaces :
                 j # i => port'[j] = port[j] /\ started'[j] = started[j]
           /\ i \in servers => /\ port'[i] = port[i] /\ started'[i] = started[i]
                               /\ starts' = starts
           /\ i \notin servers => started'[i] = starts + 1 /\ starts' = starts + 1
  BY HostAssumption DEF ServerFor, IndInv, TypeOK, NextId, GivenBefore

\* A URL given out earlier by the server that its interface has after the step
\* was given out by the one that it had before, below its next number.
LEMMA EarlierUrl ==
    ASSUME IndInv, NEW i \in Interfaces, ServerFor(i),
           NEW u \in given, u.ip \in servers', u.start = started'[u.ip]
    PROVE  /\ u.ip \in servers /\ u.start = started[u.ip]
           /\ u.id \in Nat /\ u.id < counter[u.ip]
           /\ port'[u.ip] = port[u.ip]
           /\ u.ip = i => i \in servers /\ NextId(i) = counter[i]
<1>1. /\ u.ip \in Interfaces /\ u.id \in Nat
      /\ u.start \in Nat /\ u.start <= starts
  BY DEF IndInv, TypeOK, GivenBefore
<1>2. u.ip \in servers /\ u.start = started[u.ip] /\ port'[u.ip] = port[u.ip]
  BY <1>1, ServerForFacts DEF IndInv, TypeOK
<1> QED BY <1>1, <1>2 DEF IndInv, GivenBefore, NextId

LEMMA HostFilePreserves ==
    ASSUME IndInv, NEW c \in Clients, NEW d \in Renderers, NEW f \in Files,
           HostFile(c, d, f)
    PROVE  IndInv'
<1> DEFINE i == context[d]
           e == <<i, f>>
           g == [ip |-> i, port |-> port'[i], id |-> id'[e],
                 start |-> started'[i], file |-> f]
<1>1. i \in Interfaces /\ e \in Entries /\ e[1] = i /\ e[2] = f
  BY DEF IndInv, TypeOK, Entries
<1>2. ServerFor(i) BY DEF HostFile
<1>3. /\ UNCHANGED <<phase, context, watched, mapped, downloads, orphans, severed>>
      /\ ShareFile(c, i, f) \/ NewFile(c, i, f)
      /\ given' = given \cup {g}
  BY DEF HostFile, ShareFile, NewFile, Give
<1>4. g.ip = i /\ g.id = id'[e] /\ g.start = started'[i] /\ g.file = f
  OBVIOUS
<1>5. i \in servers' /\ servers \subseteq servers'
  BY <1>1, <1>2, ServerForFacts
<1>6. ASSUME id' \in [Entries -> Nat]
      PROVE  given' \subseteq [ip : Interfaces, port : Nat, id : Nat,
                               start : Nat, file : Files]
  BY <1>1, <1>2, <1>3, <1>6, ServerForFacts DEF IndInv, TypeOK
<1> HIDE DEF i, e, g
<1>7. \A j \in Interfaces : started'[j] <= starts'
  BY <1>1, <1>2, ServerForFacts DEF IndInv, TypeOK, GivenBefore
<1>8. \A u \in given' : u.start <= starts'
  <2> SUFFICES ASSUME NEW u \in given' PROVE u.start <= starts' OBVIOUS
  <2>1. CASE u \in given
    <3>1. u.start \in Nat /\ u.start <= starts
      BY <2>1 DEF IndInv, TypeOK, GivenBefore
    <3> QED BY <1>1, <1>2, <3>1, ServerForFacts DEF IndInv, TypeOK
  <2>2. CASE u = g BY <1>1, <1>4, <1>7, <2>2
  <2> QED BY <1>3, <2>1, <2>2
<1>9. CASE ShareFile(c, i, f)
  <2>1. /\ e \in entries /\ i \in servers
        /\ owners' = [owners EXCEPT ![e] = @ \cup {c}]
        /\ UNCHANGED <<counter, entries, id>>
    BY <1>1, <1>9 DEF ShareFile, IndInv, FilesOnServers, e
  <2>2. TypeOK'
    BY <1>1, <1>2, <1>3, <1>6, <2>1, ServerForFacts DEF IndInv, TypeOK
  <2>3. FilesHaveOwners' /\ FilesOnServers' /\ Referenced'
    BY <1>1, <1>3, <1>5, <2>1
    DEF IndInv, TypeOK, FilesHaveOwners, FilesOnServers, Referenced
  <2>4. Numbered'
    BY <1>1, <1>2, <2>1, ServerForFacts DEF IndInv, TypeOK, Numbered
  <2>5. GivenBefore'
    <3> SUFFICES ASSUME NEW u \in given', u.ip \in servers',
                        u.start = started'[u.ip]
                 PROVE  u.id < counter'[u.ip]
      BY <1>7, <1>8 DEF GivenBefore
    <3>1. CASE u \in given
      BY <1>1, <1>2, <2>1, <3>1, EarlierUrl
    <3>2. CASE u = g
      BY <1>1, <1>4, <2>1, <3>2 DEF IndInv, Numbered
    <3> QED BY <1>3, <3>1, <3>2
  <2>6. UrlNamesFile'
    <3> SUFFICES ASSUME NEW u \in given', NEW e1 \in Entries, Found(u, e1)',
                        u.start = started'[u.ip]
                 PROVE  e1[2] = u.file
      BY DEF UrlNamesFile
    <3>1. CASE u \in given
      BY <1>1, <1>2, <2>1, <3>1, EarlierUrl DEF IndInv, UrlNamesFile, Found
    <3>2. CASE u = g
      BY <1>1, <1>4, <2>1, <3>2 DEF IndInv, Numbered, Found
    <3> QED BY <1>3, <3>1, <3>2
  <2> QED BY <2>2, <2>3, <2>4, <2>5, <2>6 DEF IndInv
<1>10. CASE NewFile(c, i, f)
  <2> DEFINE n == NextId(i)
  <2>1. /\ e \notin entries /\ n \in Nat
        /\ counter' = [counter EXCEPT ![i] = n + 1]
        /\ entries' = entries \cup {e}
        /\ owners' = [owners EXCEPT ![e] = {c}]
        /\ id' = [id EXCEPT ![e] = n]
    BY <1>1, <1>2, <1>10, ServerForFacts DEF NewFile, e
  <2>2. \A e1 \in entries : e1[1] = i => i \in servers /\ n = counter[i]
    BY DEF IndInv, FilesOnServers, NextId
  <2>3. \A u \in given : u.ip \in servers' /\ u.start = started'[u.ip] =>
            /\ u.ip \in servers /\ u.start = started[u.ip]
            /\ port'[u.ip] = port[u.ip]
            /\ u.id \in Nat /\ u.id < counter[u.ip]
            /\ u.ip = i => n = counter[i]
    BY <1>1, <1>2, EarlierUrl
  <2> HIDE DEF n
  <2>4. TypeOK'
    <3>1. counter' \in [Interfaces -> Nat] /\ id' \in [Entries -> Nat]
      BY <1>1, <2>1 DEF IndInv, TypeOK
    <3> QED BY <1>1, <1>2, <1>3, <1>6, <2>1, <3>1, ServerForFacts
            DEF IndInv, TypeOK
  <2>5. FilesHaveOwners' /\ FilesOnServers' /\ Referenced'
    BY <1>1, <1>3, <1>5, <2>1
    DEF IndInv, TypeOK, FilesHaveOwners, FilesOnServers, Referenced
  <2>6. id'[e] = n /\ counter'[i] = n + 1
    BY <1>1, <2>1 DEF IndInv, TypeOK
  <2>7. Numbered'
    <3>1. \A e1 \in entries : /\ e1 \in Entries /\ e1[1] \in Interfaces
                             /\ e1 # e /\ id'[e1] = id[e1] /\ id[e1] \in Nat
                             /\ counter[e1[1]] \in Nat
      BY <1>1, <2>1 DEF IndInv, TypeOK, Entries
    <3>2. \A e1 \in entries : id'[e1] < counter'[e1[1]]
      BY <1>1, <2>1, <2>2, <2>6, <3>1 DEF IndInv, TypeOK, Numbered
    <3>3. \A e1 \in entries : e1[1] = i => id'[e1] < n
      BY <2>2, <3>1 DEF IndInv, Numbered
    <3> QED BY <1>1, <2>1, <2>6, <3>1, <3>2, <3>3 DEF IndInv, Numbered
  <2>8. GivenBefore'
    <3> SUFFICES ASSUME NEW u \in given', u.ip \in servers',
                        u.start = started'[u.ip]
                 PROVE  u.id < counter'[u.ip]
      BY <1>7, <1>8 DEF GivenBefore
    <3>1. CASE u \in given
      BY <1>1, <2>1, <2>3, <3>1 DEF IndInv, TypeOK
    <3>2. CASE u = g
      BY <1>4, <2>1, <2>6, <3>2
    <3> QED BY <1>3, <3>1, <3>2
  <2>9. UrlNamesFile'
    <3> SUFFICES ASSUME NEW u \in given', NEW e1 \in Entries, Found(u, e1)',
                        u.start = started'[u.ip]
                 PROVE  e1[2] = u.file
      BY DEF UrlNamesFile
    <3>1. CASE u \in given
      <4>1. e1 # e
        BY <1>1, <2>1, <2>3, <2>6, <3>1 DEF Found, IndInv, TypeOK
      <4> QED BY <2>1, <2>3, <3>1, <4>1
              DEF IndInv, TypeOK, UrlNamesFile, Found
    <3>2. CASE u = g
      BY <1>1, <1>4, <2>1, <2>7, <3>2 DEF Numbered, Found
    <3> QED BY <1>3, <3>1, <3>2
  <2> QED BY <2>4, <2>5, <2>7, <2>8, <2>9 DEF IndInv
<1> QED BY <1>3, <1>9, <1>10

LEMMA HostFileFailsPreserves ==
    ASSUME IndInv, NEW c \in Clients, NEW d \in Renderers, NEW f \in Files,
           HostFileFails(c, d, f)
    PROVE  IndInv'
<1> DEFINE i == context[d]
<1>1. i \in Interfaces BY DEF IndInv, TypeOK
<1>2. /\ ServerFor(i)
      /\ counter' = [counter EXCEPT ![i] = NextId(i) + 1]
      /\ UNCHANGED <<phase, context, watched, given, entries, owners,
                     id, mapped, downloads, orphans, severed>>
  BY DEF HostFileFails, fileVars, clientVars
<1> HIDE DEF i
<1>3. TypeOK'
  BY <1>1, <1>2, ServerForFacts DEF IndInv, TypeOK
<1>4. FilesHaveOwners' /\ FilesOnServers' /\ Referenced'
  BY <1>1, <1>2, ServerForFacts
  DEF IndInv, TypeOK, FilesHaveOwners, FilesOnServers, Referenced
<1>5. Numbered'
  <2>1. \A e1 \in entries : e1[1] = i => NextId(i) = counter[i]
    BY DEF IndInv, FilesOnServers, NextId
  <2>2. \A e1 \in entries : e1[1] \in Interfaces /\ id[e1] \in Nat
    BY DEF IndInv, TypeOK, Entries
  <2> QED BY <1>1, <1>2, <2>1, <2>2 DEF IndInv, TypeOK, Numbered
<1>6. GivenBefore'
  <2>1. \A j \in Interfaces : started'[j] <= starts'
    BY <1>1, <1>2, ServerForFacts DEF IndInv, TypeOK, GivenBefore
  <2> SUFFICES ASSUME NEW u \in given
               PROVE  /\ u.start <= starts'
                      /\ u.ip \in servers' /\ u.start = started'[u.ip]
                           => u.id < counter'[u.ip]
    BY <1>2, <2>1 DEF GivenBefore
  <2>2. u.start \in Nat /\ u.start <= starts
    BY DEF IndInv, GivenBefore, TypeOK
  <2>3. u.start <= starts'
    BY <1>1, <1>2, <2>2, ServerForFacts DEF IndInv, TypeOK
  <2>4. ASSUME u.ip \in servers', u.start = started'[u.ip]
        PROVE  u.id < counter'[u.ip]
    BY <1>1, <1>2, <2>4, EarlierUrl DEF IndInv, TypeOK
  <2> QED BY <2>3, <2>4
<1>7. UrlNamesFile'
  BY <1>1, <1>2, EarlierUrl DEF IndInv, UrlNamesFile, Found
<1> QED BY <1>3, <1>4, <1>5, <1>6, <1>7 DEF IndInv

------------------------------------------------------------------------------
(***************************************************************************)
(* RemoveFile and LostClient: a client's files are taken from E, and the   *)
(* servers of S that are left without files are closed.                    *)
(***************************************************************************)
LEMMA StopHostingPreserves ==
    ASSUME IndInv, NEW c \in Clients, NEW E \in SUBSET entries,
           NEW S \in SUBSET Interfaces,
           StopHosting(c, E), CloseIdle(S),
           phase' = phase, context' = context, given' = given,
           watched' \subseteq watched
    PROVE  IndInv'
<1>1. /\ entries' = entries \ Orphaned(c, E)
      /\ servers' \subseteq servers
      /\ UNCHANGED <<port, counter, id, starts, started>>
      /\ mapped' = [e \in Entries |-> IF e \in Orphaned(c, E) THEN 0 ELSE mapped[e]]
      /\ downloads' = [e \in Entries |->
                          IF e \in Orphaned(c, E) THEN 0 ELSE downloads[e]]
      /\ orphans' = [e \in Entries |->
                        orphans[e] + IF e \in Orphaned(c, E) THEN downloads[e] ELSE 0]
      /\ severed' = (severed \/ \E e \in Orphaned(c, E) : downloads[e] > 0)
      /\ owners' = [e \in Entries |->
                      CASE e \in Orphaned(c, E) -> {}
                        [] e \in E -> owners[e] \ {c}
                        [] OTHER -> owners[e]]
  BY DEF StopHosting, DropFiles, CloseIdle, IndInv, TypeOK
<1>2. FilesOnServers'
  <2> SUFFICES ASSUME NEW e \in entries' PROVE e[1] \in servers'
    BY DEF FilesOnServers
  <2>1. e \in entries /\ e[1] \in servers /\ e[2] \in Files /\ e = <<e[1], e[2]>>
    BY <1>1 DEF IndInv, TypeOK, FilesOnServers, Entries
  <2> QED BY <2>1 DEF CloseIdle
<1>3. TypeOK'
  BY <1>1 DEF IndInv, TypeOK, Orphaned
<1>4. FilesHaveOwners'
  BY <1>1 DEF IndInv, TypeOK, FilesHaveOwners, Orphaned
<1>5. Referenced'
  <2> SUFFICES ASSUME ~severed', NEW e \in Entries
               PROVE  mapped'[e] >= downloads'[e] /\ orphans'[e] = 0
    BY DEF Referenced
  <2>1. /\ mapped[e] >= downloads[e] /\ orphans[e] = 0
        /\ downloads[e] \in Nat
        /\ e \in Orphaned(c, E) => ~(downloads[e] > 0)
    BY <1>1 DEF IndInv, TypeOK, Referenced
  <2> QED BY <1>1, <2>1
<1>6. Numbered' /\ GivenBefore' /\ UrlNamesFile'
  BY <1>1 DEF IndInv, TypeOK, Numbered, GivenBefore, UrlNamesFile, Found
<1> QED BY <1>2, <1>3, <1>4, <1>5, <1>6 DEF IndInv

LEMMA RemoveFilePreserves ==
    ASSUME IndInv, NEW c \in Clients, NEW d \in Renderers, NEW f \in Files,
           RemoveFile(c, d, f)
    PROVE  IndInv'
<1> DEFINE i == context[d]
           e == <<i, f>>
<1>1. UNCHANGED <<phase, context, watched, given>>
  BY DEF RemoveFile, clientVars
<1>2. CASE /\ e \in entries /\ StopHosting(c, {e}) /\ CloseIdle({i})
  <2>1. i \in Interfaces BY DEF IndInv, TypeOK
  <2> QED BY <1>1, <1>2, <2>1, StopHostingPreserves
<1>3. CASE UNCHANGED <<serverVars, fileVars>>
  BY <1>1, <1>3
  DEF IndInv, TypeOK, FilesHaveOwners, FilesOnServers, Referenced, Numbered,
      GivenBefore, UrlNamesFile, Found, serverVars, fileVars
<1> QED BY <1>2, <1>3 DEF RemoveFile

LEMMA LostClientPreserves ==
    ASSUME IndInv, NEW c \in Clients, LostClient(c)
    PROVE  IndInv'
<1>1. HostedBy(c) \in SUBSET entries /\ servers \in SUBSET Interfaces
  BY DEF HostedBy, IndInv, TypeOK
<1> QED BY <1>1, StopHostingPreserves DEF LostClient

------------------------------------------------------------------------------
LEMMA HttpPreserves ==
    ASSUME IndInv, HttpStep
    PROVE  IndInv'
<1> DEFINE Harmless ==
             /\ UNCHANGED <<context, serverVars, clientVars, entries, owners, id>>
             /\ phase' \in {"running", "crashed"}
             /\ UNCHANGED severed /\ orphans' \in [Entries -> Nat]
             /\ mapped' \in [Entries -> Nat] /\ downloads' \in [Entries -> Nat]
             /\ Referenced'
<1>1. Harmless
  <2>1. ASSUME NEW u \in given, NEW e \in Entries,
               Get(u, e) \/ HeadRequest(u, e)
        PROVE  Harmless
    BY <2>1 DEF Get, HeadRequest, Map, IndInv, TypeOK, Referenced
  <2>2. ASSUME NEW e \in Entries, Finished(e)
        PROVE  Harmless
    BY <2>2 DEF Finished, IndInv, TypeOK, Referenced
  <2>3. ASSUME NEW e \in Entries, FinishedOrphan(e)
        PROVE  Harmless
    BY <2>3 DEF FinishedOrphan, IndInv, TypeOK, Referenced
  <2> HIDE DEF Harmless
  <2> QED BY <2>1, <2>2, <2>3 DEF HttpStep
<1> QED
  BY <1>1
  DEF IndInv, TypeOK, FilesHaveOwners, FilesOnServers, Numbered,
      GivenBefore, UrlNamesFile, Found, serverVars, clientVars

\* The steps that leave files and servers alone, or take them all away.
LEMMA OtherStepPreserves ==
    ASSUME IndInv,
           \/ \E c \in Clients : Watch(c)
           \/ \E d \in Renderers : MoveContext(d)
           \/ Delete
           \/ UNCHANGED vars
    PROVE  IndInv'
<1>1. ASSUME NEW c \in Clients, Watch(c) PROVE IndInv'
  BY <1>1
  DEF Watch, IndInv, TypeOK, FilesHaveOwners, FilesOnServers, Referenced,
      Numbered, GivenBefore, UrlNamesFile, Found, serverVars, fileVars
<1>2. ASSUME NEW d \in Renderers, MoveContext(d) PROVE IndInv'
  BY <1>2
  DEF MoveContext, IndInv, TypeOK, FilesHaveOwners, FilesOnServers, Referenced,
      Numbered, GivenBefore, UrlNamesFile, Found, serverVars,
      fileVars, clientVars
<1>3. ASSUME Delete PROVE IndInv'
  <2>1. TypeOK' BY <1>3 DEF Delete, IndInv, TypeOK, clientVars
  <2>2. /\ entries' = {} /\ servers' = {} /\ UNCHANGED <<given, starts, started, severed>>
        /\ \A e \in Entries : owners'[e] = {} /\ mapped'[e] = 0
                          /\ downloads'[e] = 0 /\ orphans'[e] = 0
    BY <1>3 DEF Delete, clientVars
  <2>3. FilesHaveOwners' /\ FilesOnServers' /\ Referenced'
    BY <2>2 DEF FilesHaveOwners, FilesOnServers, Referenced
  <2>4. Numbered' /\ GivenBefore' /\ UrlNamesFile'
    BY <2>2 DEF IndInv, Numbered, GivenBefore, UrlNamesFile, Found
  <2> QED BY <2>1, <2>3, <2>4 DEF IndInv
<1>4. ASSUME UNCHANGED vars PROVE IndInv'
  BY <1>4
  DEF vars, IndInv, TypeOK, FilesHaveOwners, FilesOnServers, Referenced,
      Numbered, GivenBefore, UrlNamesFile, Found, serverVars,
      fileVars, clientVars
<1> QED BY <1>1, <1>2, <1>3, <1>4

LEMMA NextIndInv == IndInv /\ [Next]_vars => IndInv'
<1> SUFFICES ASSUME IndInv, [Next]_vars PROVE IndInv' OBVIOUS
<1>1. CASE RequestStep
  BY <1>1, HostFilePreserves, HostFileFailsPreserves, RemoveFilePreserves
  DEF RequestStep
<1>2. CASE \E c \in Clients : LostClient(c)
  BY <1>2, LostClientPreserves
<1>3. CASE HttpStep BY <1>3, HttpPreserves
<1>4. CASE \/ \E c \in Clients : Watch(c)
           \/ \E d \in Renderers : MoveContext(d)
           \/ Delete
           \/ UNCHANGED vars
  BY <1>4, OtherStepPreserves
<1> QED BY <1>1, <1>2, <1>3, <1>4 DEF Next, ClientStep, Stopped

------------------------------------------------------------------------------
\* The invariant holds in every reachable state.
THEOREM SpecIndInv == Spec => []IndInv
BY InitIndInv, NextIndInv, PTL DEF Spec

\* Every variable keeps its type: no reference to a mapping and no response is
\* taken away that is not there.
THEOREM SpecTypeOK == Spec => []TypeOK
<1>1. IndInv => TypeOK BY DEF IndInv
<1> QED BY <1>1, SpecIndInv, PTL

\* A URL returned by HostFile is resolved to no other file as long as the server
\* runs that it was returned for.
THEOREM SpecUrlNamesFile == Spec => []UrlNamesFile
<1>1. IndInv => UrlNamesFile BY DEF IndInv
<1> QED BY <1>1, SpecIndInv, PTL

\* Until a file is freed while it is being sent, what is being sent is mapped.
THEOREM SpecMappedUntilSevered == Spec => []MappedUntilSevered
<1>1. IndInv => MappedUntilSevered
  BY DEF IndInv, Referenced, MappedUntilSevered
<1> QED BY <1>1, SpecIndInv, PTL

\* A file is in the table exactly as long as some client hosts it.
THEOREM SpecFilesHaveOwners == Spec => []FilesHaveOwners
<1>1. IndInv => FilesHaveOwners BY DEF IndInv
<1> QED BY <1>1, SpecIndInv, PTL

------------------------------------------------------------------------------
(***************************************************************************)
(* A step takes files from one client only, and leaves what the others     *)
(* host where it is.                                                       *)
(***************************************************************************)
\* The owners that the step takes away are at most client c, and a file that
\* keeps an owner keeps its number, its server and its port.
TakesOnly(c) ==
    \A e \in Entries :
        /\ owners[e] \ owners'[e] \subseteq {c}
        /\ owners[e] \cap owners'[e] # {} =>
               /\ e \in entries' /\ id'[e] = id[e]
               /\ e[1] \in servers' /\ port'[e[1]] = port[e[1]]

LEMMA StopHostingTakesOnly ==
    ASSUME IndInv, IndInv', NEW c \in Clients, NEW E \in SUBSET entries,
           NEW S \in SUBSET Interfaces, StopHosting(c, E), CloseIdle(S)
    PROVE  TakesOnly(c)
<1> SUFFICES ASSUME NEW e \in Entries
             PROVE  /\ owners[e] \ owners'[e] \subseteq {c}
                    /\ owners[e] \cap owners'[e] # {} =>
                           /\ e \in entries' /\ id'[e] = id[e]
                           /\ e[1] \in servers' /\ port'[e[1]] = port[e[1]]
  BY DEF TakesOnly
<1>1. owners[e] \ owners'[e] \subseteq {c}
  BY DEF StopHosting, Orphaned
<1>2. owners'[e] # {} => e \in entries' /\ e[1] \in servers'
  BY DEF IndInv, FilesHaveOwners, FilesOnServers
<1> QED BY <1>1, <1>2 DEF StopHosting, DropFiles, CloseIdle

\* The steps that do not touch the owners.
LEMMA QuietTakesOnly ==
    ASSUME IndInv, NEW c \in Clients, owners' = owners, entries' = entries,
           id' = id, servers \subseteq servers',
           \A i \in servers : port'[i] = port[i]
    PROVE  TakesOnly(c)
BY DEF TakesOnly, IndInv, FilesHaveOwners, FilesOnServers

LEMMA HostFileTakesOnly ==
    ASSUME IndInv, NEW c \in Clients, NEW d \in Renderers, NEW f \in Files,
           HostFile(c, d, f)
    PROVE  TakesOnly(c)
<1> DEFINE i == context[d]
           e == <<i, f>>
<1>1. i \in Interfaces /\ e \in Entries
  BY DEF IndInv, TypeOK, Entries
<1>2. ServerFor(i) BY DEF HostFile
<1>3. \A j \in servers : j \in servers' /\ port'[j] = port[j]
  BY <1>1, <1>2, ServerForFacts DEF IndInv, TypeOK
<1>4. \/ /\ owners' = [owners EXCEPT ![e] = @ \cup {c}]
         /\ entries' = entries /\ id' = id
      \/ /\ e \notin entries
         /\ owners' = [owners EXCEPT ![e] = {c}]
         /\ entries' = entries \cup {e}
         /\ \A e1 \in Entries : e1 # e => id'[e1] = id[e1]
  BY <1>1 DEF HostFile, ShareFile, NewFile, IndInv, TypeOK
<1> HIDE DEF e
<1> QED BY <1>1, <1>3, <1>4
        DEF TakesOnly, IndInv, TypeOK, FilesHaveOwners, FilesOnServers

LEMMA StepTakesOnly ==
    ASSUME IndInv, IndInv', phase' = "running", [Next]_vars, Clients # {}
    PROVE  \E c \in Clients : TakesOnly(c)
<1>1. ASSUME NEW c \in Clients, NEW d \in Renderers, NEW f \in Files,
             HostFile(c, d, f) \/ HostFileFails(c, d, f) \/ RemoveFile(c, d, f)
      PROVE  TakesOnly(c)
  <2> DEFINE i == context[d]
  <2>1. i \in Interfaces BY DEF IndInv, TypeOK
  <2>2. CASE HostFile(c, d, f) BY <2>2, HostFileTakesOnly
  <2>3. CASE HostFileFails(c, d, f)
    <3>1. ServerFor(i) /\ UNCHANGED fileVars BY <2>3 DEF HostFileFails
    <3>2. \A j \in servers : j \in servers' /\ port'[j] = port[j]
      BY <2>1, <3>1, ServerForFacts DEF IndInv, TypeOK
    <3> QED BY <3>1, <3>2, QuietTakesOnly DEF fileVars
  <2>4. CASE RemoveFile(c, d, f)
    <3>1. CASE /\ <<i, f>> \in entries
               /\ StopHosting(c, {<<i, f>>}) /\ CloseIdle({i})
      BY <2>1, <3>1, StopHostingTakesOnly
    <3>2. CASE UNCHANGED <<serverVars, fileVars>>
      BY <3>2, QuietTakesOnly DEF serverVars, fileVars
    <3> QED BY <2>4, <3>1, <3>2 DEF RemoveFile
  <2> QED BY <1>1, <2>2, <2>3, <2>4
<1>2. ASSUME NEW c \in Clients, LostClient(c) PROVE TakesOnly(c)
  <2>1. HostedBy(c) \in SUBSET entries /\ servers \in SUBSET Interfaces
    BY DEF HostedBy, IndInv, TypeOK
  <2> QED BY <1>2, <2>1, StopHostingTakesOnly DEF LostClient
<1>3. ASSUME UNCHANGED <<serverVars, entries, owners, id>>, NEW c \in Clients
      PROVE  TakesOnly(c)
  BY <1>3, QuietTakesOnly DEF serverVars
<1>4. CASE HttpStep
  <2>1. UNCHANGED <<serverVars, entries, owners, id>>
    BY <1>4 DEF HttpStep, Get, HeadRequest, Finished, FinishedOrphan
  <2> QED BY <1>3, <2>1
<1>5. CASE \/ \E c \in Clients : Watch(c)
           \/ \E d \in Renderers : MoveContext(d)
           \/ UNCHANGED vars
  <2>1. UNCHANGED <<serverVars, entries, owners, id>>
    BY <1>5 DEF Watch, MoveContext, vars, fileVars
  <2> QED BY <1>3, <2>1
<1>6. ~Delete BY DEF Delete
<1> QED BY <1>1, <1>2, <1>4, <1>5, <1>6
        DEF Next, RequestStep, ClientStep, Stopped

\* One client's step never ends another's hosting.
THEOREM SpecOthersUndisturbed == Spec => OthersUndisturbed
<1> DEFINE Undisturbed ==
        phase' = "running" =>
        /\ \A e \in Entries : owners[e] \cap owners'[e] # {} =>
               /\ e \in entries' /\ id'[e] = id[e]
               /\ e[1] \in servers' /\ port'[e[1]] = port[e[1]]
        /\ \A e1, e2 \in Entries :
               \A c1 \in owners[e1] \ owners'[e1], c2 \in owners[e2] \ owners'[e2] :
                   c1 = c2
<1>1. IndInv /\ IndInv' /\ [Next]_vars => [Undisturbed]_vars
  <2> SUFFICES ASSUME IndInv, IndInv', [Next]_vars, phase' = "running"
               PROVE  Undisturbed
    OBVIOUS
  <2>1. CASE Clients = {}
    BY <2>1 DEF IndInv, TypeOK
  <2>2. CASE Clients # {}
    BY <2>2, StepTakesOnly DEF TakesOnly
  <2> QED BY <2>1, <2>2
<1> QED BY <1>1, SpecIndInv, PTL DEF Spec, OthersUndisturbed

------------------------------------------------------------------------------
(***************************************************************************)
(* Nothing outlives the clients: a file is hosted for watched clients, and *)
(* a server runs only while there is one.                                  *)
(***************************************************************************)
LEMMA NextNothingOutlives ==
    ASSUME IndInv, NothingOutlivesClients, [Next]_vars
    PROVE  NothingOutlivesClients'
<1>1. ASSUME NEW c \in Clients, NEW d \in Renderers, NEW f \in Files,
             HostFile(c, d, f) \/ HostFileFails(c, d, f) \/ RemoveFile(c, d, f)
      PROVE  NothingOutlivesClients'
  <2>1. c \in watched /\ watched' = watched
    BY <1>1 DEF HostFile, HostFileFails, RemoveFile, clientVars
  <2>2. \A e \in Entries : owners'[e] \subseteq owners[e] \cup {c}
    BY <1>1
    DEF HostFile, ShareFile, NewFile, HostFileFails, RemoveFile, StopHosting,
        IndInv, TypeOK, fileVars
  <2> QED BY <2>1, <2>2 DEF NothingOutlivesClients
<1>2. ASSUME NEW c \in Clients, LostClient(c)
      PROVE  NothingOutlivesClients'
  <2>1. /\ watched' = watched \ {c}
        /\ \A e \in Entries : owners'[e] \subseteq owners[e] \ {c}
    BY <1>2
    DEF LostClient, StopHosting, HostedBy, Orphaned, IndInv, TypeOK,
        FilesHaveOwners
  <2>2. \A e \in Entries : owners'[e] \subseteq watched'
    BY <2>1 DEF NothingOutlivesClients
  <2>3. ASSUME watched' = {} PROVE servers' = {}
    <3>1. FilesHaveOwners' /\ TypeOK'
      BY <1>2, LostClientPreserves DEF IndInv
    <3>2. entries' = {}
      BY <2>2, <2>3, <3>1 DEF FilesHaveOwners, TypeOK
    <3> QED BY <1>2, <3>2 DEF LostClient, CloseIdle
  <2> QED BY <2>2, <2>3 DEF NothingOutlivesClients
<1>3. ASSUME servers' \subseteq servers, watched \subseteq watched',
             \A e \in Entries : owners'[e] \subseteq owners[e]
      PROVE  NothingOutlivesClients'
  BY <1>3 DEF NothingOutlivesClients
<1>4. CASE HttpStep
  <2>1. UNCHANGED <<servers, watched, owners>>
    BY <1>4 DEF HttpStep, Get, HeadRequest, Finished, FinishedOrphan,
                serverVars, clientVars
  <2> QED BY <1>3, <2>1
<1>5. CASE \/ \E c \in Clients : Watch(c)
           \/ \E d \in Renderers : MoveContext(d)
           \/ UNCHANGED vars
  <2>1. UNCHANGED <<servers, owners>> /\ watched \subseteq watched'
    BY <1>5 DEF Watch, MoveContext, vars, serverVars, fileVars, clientVars
  <2> QED BY <1>3, <2>1
<1>6. CASE Delete
  BY <1>6 DEF Delete, NothingOutlivesClients
<1> QED BY <1>1, <1>2, <1>4, <1>5, <1>6
        DEF Next, RequestStep, ClientStep, Stopped

\* When the last client has gone no web server is left, whatever could not be
\* hosted and wherever RemoveFile looked for what was.
THEOREM SpecNothingOutlivesClients == Spec => []NothingOutlivesClients
<1>1. Init => NothingOutlivesClients BY DEF Init, NothingOutlivesClients
<1>2. IndInv /\ NothingOutlivesClients /\ [Next]_vars => NothingOutlivesClients'
  BY NextNothingOutlives
<1> QED BY <1>1, <1>2, SpecIndInv, PTL DEF Spec

------------------------------------------------------------------------------
(***************************************************************************)
(* A server whose last file goes is closed by the step that takes it.      *)
(***************************************************************************)
KeepsHosting(i) == FilesOf(i) # {} => FilesOf(i)' # {}

\* RemoveFile looks at the server it took the file from, LostClient at all.
LEMMA RemovalShutsDown ==
    ASSUME NEW c \in Clients, NEW E \in SUBSET entries,
           NEW S \in SUBSET Interfaces, \A e \in E : e[1] \in S,
           StopHosting(c, E), CloseIdle(S), NEW i \in servers'
    PROVE  KeepsHosting(i)
<1>1. /\ entries' = entries \ Orphaned(c, E)
      /\ servers' = servers
             \ {j \in S : \A f \in Files : <<j, f>> \notin entries'}
  BY DEF StopHosting, DropFiles, CloseIdle
<1> SUFFICES ASSUME NEW f \in Files, <<i, f>> \in entries
             PROVE  \E f1 \in Files : <<i, f1>> \in entries'
  BY DEF KeepsHosting, FilesOf
<1>2. CASE i \in S BY <1>1, <1>2
<1>3. CASE i \notin S
  <2>1. <<i, f>> \notin E BY <1>3
  <2> QED BY <1>1, <2>1 DEF Orphaned
<1> QED BY <1>2, <1>3

LEMMA StepShutsDown ==
    ASSUME IndInv, [Next]_vars, NEW i \in servers'
    PROVE  KeepsHosting(i)
<1>1. ASSUME entries \subseteq entries' PROVE KeepsHosting(i)
  BY <1>1 DEF KeepsHosting, FilesOf
<1>2. ASSUME NEW c \in Clients, NEW d \in Renderers, NEW f \in Files,
             HostFile(c, d, f) \/ HostFileFails(c, d, f) \/ RemoveFile(c, d, f)
      PROVE  KeepsHosting(i)
  <2>1. CASE HostFile(c, d, f) \/ HostFileFails(c, d, f)
    BY <1>1, <2>1 DEF HostFile, ShareFile, NewFile, HostFileFails, fileVars
  <2>2. CASE RemoveFile(c, d, f)
    <3> DEFINE j == context[d]
    <3>1. j \in Interfaces BY DEF IndInv, TypeOK
    <3>2. CASE /\ <<j, f>> \in entries
               /\ StopHosting(c, {<<j, f>>}) /\ CloseIdle({j})
      BY <3>1, <3>2, RemovalShutsDown
    <3>3. CASE UNCHANGED fileVars
      BY <1>1, <3>3 DEF fileVars
    <3> QED BY <2>2, <3>2, <3>3 DEF RemoveFile
  <2> QED BY <1>2, <2>1, <2>2
<1>3. ASSUME NEW c \in Clients, LostClient(c) PROVE KeepsHosting(i)
  <2>1. /\ HostedBy(c) \in SUBSET entries /\ servers \in SUBSET Interfaces
        /\ \A e \in HostedBy(c) : e[1] \in servers
    BY DEF HostedBy, IndInv, TypeOK, FilesOnServers
  <2> QED BY <1>3, <2>1, RemovalShutsDown DEF LostClient
<1>4. CASE HttpStep
  BY <1>1, <1>4 DEF HttpStep, Get, HeadRequest, Finished, FinishedOrphan
<1>5. CASE \/ \E c \in Clients : Watch(c)
           \/ \E d \in Renderers : MoveContext(d)
           \/ UNCHANGED vars
  BY <1>1, <1>5 DEF Watch, MoveContext, vars, fileVars
<1>6. ~Delete BY DEF Delete
<1> QED BY <1>2, <1>3, <1>4, <1>5, <1>6
        DEF Next, RequestStep, ClientStep, Stopped

\* "The server will be shutdown as soon as it no longer has any files to host"
\* (API.txt): the step that takes its last file closes it.
THEOREM SpecShutWhenDone == Spec => ShutWhenDone
<1> DEFINE Shuts ==
        \A i \in servers \cap servers' : FilesOf(i) # {} => (FilesOf(i) # {})'
<1>1. IndInv /\ [Next]_vars => [Shuts]_vars
  BY StepShutsDown DEF KeepsHosting
<1> QED BY <1>1, SpecIndInv, PTL DEF Spec, ShutWhenDone

==============================================================================
