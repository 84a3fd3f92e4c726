---------------------------- MODULE HostService ----------------------------
(***************************************************************************)
(* The host service of renderer-service-upnp (host-service.c): the web     *)
(* servers, one per network interface, through which clients publish local *)
(* files to renderers with the PushHost methods HostFile and RemoveFile    *)
(* (rsu_device_host_uri and rsu_device_remove_uri of device.c).            *)
(*                                                                         *)
(* Each action is one dispatch of the main loop: a request that runs, an   *)
(* HTTP request, the end of an HTTP transfer, the loss of a client.  A     *)
(* request is addressed to a renderer and works on the interface of the    *)
(* renderer's preferred context at the time it runs.                       *)
(***************************************************************************)
EXTENDS Naturals, FiniteSets

CONSTANTS
    Clients,         \* D-Bus clients
    Renderers,       \* renderers through which files are hosted
    Interfaces,      \* IP addresses of the contexts: the keys of servers
    Files,           \* paths of local files: the keys of server->files
    Ports,           \* what SOUP_ADDRESS_ANY_PORT chooses from
    MaxServers,      \* bound: web servers ever started
    MaxFiles,        \* bound: file identifiers used by one server
    MaxMapped        \* bound: references to mappings and orphans at one time

ASSUME HostAssumption ==
    /\ Ports \subseteq Nat
    /\ MaxServers \in Nat /\ MaxFiles \in Nat /\ MaxMapped \in Nat

\* A hosted file: an entry of the files table of the server of an interface.
Entries == Interfaces \X Files

VARIABLES
    phase,      \* the process: "running", "crashed" or "deleted"
    watched,    \* clients in g_context.watchers
    context,    \* the interface of each renderer's preferred context
    servers,    \* the keys of host_service->servers
    port,       \* the port of the server of each interface
    counter,    \* server->counter
    entries,    \* the files in the tables of the servers
    owners,     \* hf->clients
    id,         \* hf->id, and so hf->path
    mapped,     \* hf->mapped_count; hf->mapped_file is NULL when it is 0
    downloads,  \* GET responses of the file that have not finished
    orphans,    \* GET responses that have not finished, of a file that was freed:
                \* their data is unmapped, their callback has the freed record
    \* auxiliary: what the properties remember
    starts,     \* number of servers started so far
    started,    \* which of them the server of each interface was
    given,      \* URLs returned by HostFile, with their server and file
    severed     \* a file has been freed while it was being sent

serverVars == <<servers, port, counter, starts, started>>
fileVars == <<entries, owners, id, mapped, downloads, orphans, severed>>
clientVars == <<watched, given>>
vars == <<phase, context, serverVars, fileVars, clientVars>>

Init ==
    /\ phase = "running"
    /\ watched = {} /\ given = {}
    /\ context \in [Renderers -> Interfaces]
    /\ servers = {} /\ entries = {}
    /\ port = [i \in Interfaces |-> 0]
    /\ counter = [i \in Interfaces |-> 0]
    /\ starts = 0 /\ started = [i \in Interfaces |-> 0]
    /\ owners = [e \in Entries |-> {}]
    /\ id = [e \in Entries |-> 0]
    /\ mapped = [e \in Entries |-> 0]
    /\ downloads = [e \in Entries |-> 0]
    /\ orphans = [e \in Entries |-> 0] /\ severed = FALSE

FilesOf(i) == {f \in Files : <<i, f>> \in entries}

----------------------------------------------------------------------------
(***************************************************************************)
(* HostFile.  rsu_host_service_add looks the server up, or starts one;     *)
(* prv_add_new_file looks the file up, or creates its entry, which fails   *)
(* when prv_host_file_new does: by then the server has been started and    *)
(* the counter incremented.  (A server that cannot be started fails the    *)
(* request and changes nothing.)                                           *)
(***************************************************************************)
\* The server of interface i runs after this step: it did, or it is started,
\* on any port, one that an earlier server has had included.
ServerFor(i) ==
    \/ /\ i \in servers
       /\ UNCHANGED <<servers, port, starts, started>>
    \/ /\ i \notin servers
       /\ starts < MaxServers
       /\ servers' = servers \cup {i}
       /\ \E p \in Ports : port' = [port EXCEPT ![i] = p]
       /\ starts' = starts + 1
       /\ started' = [started EXCEPT ![i] = starts + 1]

\* Mutant: files are numbered by the size of the table.
NextIdBySize(i) == Cardinality(FilesOf(i))

\* The counter of a server that has just been started is 0.
NextId(i) == IF i \in servers THEN counter[i] ELSE 0

Give(i, f) ==
    given' = given \cup {[ip |-> i, port |-> port'[i], id |-> id'[<<i, f>>],
                          start |-> started'[i], file |-> f]}

\* The file is hosted already: the client is added to its owners.
ShareFile(c, i, f) ==
    /\ <<i, f>> \in entries
    /\ owners' = [owners EXCEPT ![<<i, f>>] = @ \cup {c}]
    /\ UNCHANGED <<counter, entries, id, mapped, downloads, orphans, severed>>
    /\ Give(i, f)

NewFile(c, i, f) ==
    /\ <<i, f>> \notin entries
    /\ NextId(i) < MaxFiles
    /\ counter' = [counter EXCEPT ![i] = NextId(i) + 1]
    /\ entries' = entries \cup {<<i, f>>}
    /\ owners' = [owners EXCEPT ![<<i, f>>] = {c}]
    /\ id' = [id EXCEPT ![<<i, f>>] = NextId(i)]
    /\ UNCHANGED <<mapped, downloads, orphans, severed>>
    /\ Give(i, f)

HostFile(c, d, f) ==
    LET i == context[d] IN
    /\ phase = "running" /\ c \in watched
    /\ ServerFor(i)
    /\ ShareFile(c, i, f) \/ NewFile(c, i, f)
    /\ UNCHANGED <<phase, context, watched>>

\* The file is missing, or its type is unknown.
HostFileFails(c, d, f) ==
    LET i == context[d] IN
    /\ phase = "running" /\ c \in watched
    /\ <<i, f>> \notin entries
    /\ NextId(i) < MaxFiles
    /\ ServerFor(i)
    /\ counter' = [counter EXCEPT ![i] = NextId(i) + 1]
    /\ UNCHANGED <<phase, context, fileVars, clientVars>>

----------------------------------------------------------------------------
(***************************************************************************)
(* prv_remove_client for client c on the entries E, and the removal of the *)
(* files nobody hosts any more.  prv_host_file_delete releases the mapping *)
(* as often as mapped_count says, so that the file is unmapped, without    *)
(* regard to responses that still send it.                                 *)
(***************************************************************************)
\* Mutant: a file is kept although nobody hosts it any more.
OrphanedNone(c, E) == {}

\* Mutant: the file goes with the first client that removes it.
OrphanedByAny(c, E) == {e \in E : c \in owners[e]}

\* The files of E that only client c hosts.
Orphaned(c, E) == {e \in E : owners[e] = {c}}

DropFiles(E) ==
    /\ entries' = entries \ E
    /\ mapped' = [e \in Entries |-> IF e \in E THEN 0 ELSE mapped[e]]
    /\ downloads' = [e \in Entries |-> IF e \in E THEN 0 ELSE downloads[e]]
    /\ orphans' = [e \in Entries |->
                      orphans[e] + IF e \in E THEN downloads[e] ELSE 0]
    /\ severed' = (severed \/ \E e \in E : downloads[e] > 0)
    /\ UNCHANGED id

StopHosting(c, E) ==
    /\ DropFiles(Orphaned(c, E))
    /\ owners' = [e \in Entries |->
                    CASE e \in Orphaned(c, E) -> {}
                      [] e \in E -> owners[e] \ {c}
                      [] OTHER -> owners[e]]

\* Mutant: the server is not looked at after the removal.
CloseNone(S) == UNCHANGED serverVars

\* prv_host_server_delete on those servers of S that host nothing any more.
CloseIdle(S) ==
    /\ servers' = servers \ {i \in S : \A f \in Files : <<i, f>> \notin entries'}
    /\ UNCHANGED <<port, counter, starts, started>>

\* rsu_host_service_remove, on the interface that is preferred by now.
RemoveFile(c, d, f) ==
    LET i == context[d]
        e == <<i, f>>
    IN  /\ phase = "running" /\ c \in watched
        /\ \/ /\ e \in entries /\ c \in owners[e]
              /\ StopHosting(c, {e})
              /\ CloseIdle({i})
           \/ /\ e \notin entries \/ c \notin owners[e]
              /\ UNCHANGED <<serverVars, fileVars>>
        /\ UNCHANGED <<phase, context, clientVars>>

\* prv_add_task: a client that makes a request is watched.
Watch(c) ==
    /\ phase = "running"
    /\ watched' = watched \cup {c}
    /\ UNCHANGED <<phase, context, serverVars, fileVars, given>>

\* Mutant: files that others host as well are passed over.
HostedAlone(c) == {e \in entries : owners[e] = {c}}

HostedBy(c) == {e \in entries : c \in owners[e]}

\* rsu_host_service_lost_client, called when a client releases the service
\* or leaves the bus.  It also closes servers that never hosted a file.
LostClient(c) ==
    /\ phase = "running"
    /\ watched' = watched \ {c}
    /\ StopHosting(c, HostedBy(c))
    /\ CloseIdle(servers)
    /\ UNCHANGED <<phase, context, given>>

----------------------------------------------------------------------------
(***************************************************************************)
(* HTTP.  A renderer asks for a URL it was given; prv_host_server_find_file*)
(* finds the file of that server with that path, if there is one.          *)
(***************************************************************************)
Found(u, e) ==
    /\ u.ip = e[1] /\ u.ip \in servers
    /\ u.port = port[u.ip]
    /\ e \in entries
    /\ u.id = id[e]

\* The bound of the model: one more reference may be taken.
MayMap ==
    Cardinality({r \in Entries \X (1..MaxMapped) :
                    r[2] <= mapped[r[1]] + orphans[r[1]]}) < MaxMapped

\* Mutant: the count restarts with every response.
MapAnew(e) ==
    /\ MayMap
    /\ mapped' = [mapped EXCEPT ![e] = 1]

\* The mapping of the file gets one more reference, or its first one; the
\* file cannot be mapped if it is gone by now (then nothing changes).
Map(e) ==
    /\ MayMap
    /\ mapped' = [mapped EXCEPT ![e] = @ + 1]

Get(u, e) ==
    /\ phase = "running"
    /\ Found(u, e)
    /\ Map(e)
    /\ downloads' = [downloads EXCEPT ![e] = @ + 1]
    /\ UNCHANGED <<phase, context, serverVars, clientVars,
                   entries, owners, id, orphans, severed>>

\* HEAD takes a reference too, but no finished callback gives it back.
HeadRequest(u, e) ==
    /\ phase = "running"
    /\ Found(u, e)
    /\ Map(e)
    /\ UNCHANGED <<phase, context, serverVars, clientVars,
                   entries, owners, id, downloads, orphans, severed>>

\* prv_soup_message_finished_cb: the response is complete, or was aborted.
Finished(e) ==
    /\ phase = "running"
    /\ downloads[e] > 0
    /\ downloads' = [downloads EXCEPT ![e] = @ - 1]
    /\ mapped' = [mapped EXCEPT ![e] = IF @ > 0 THEN @ - 1 ELSE @]
    /\ UNCHANGED <<phase, context, serverVars, clientVars,
                   entries, owners, id, orphans, severed>>

\* The same callback for a file that has been freed: undefined behaviour.  It
\* passes unnoticed, or ends the process, or it finds the record of a file
\* hosted since in the same place, and gives back a reference of that one.
FinishedOrphan(e) ==
    /\ phase = "running"
    /\ orphans[e] > 0
    /\ orphans' = [orphans EXCEPT ![e] = @ - 1]
    /\ \/ phase' \in {"running", "crashed"} /\ UNCHANGED mapped
       \/ /\ \E e2 \in entries :
                 mapped[e2] > 0 /\ mapped' = [mapped EXCEPT ![e2] = @ - 1]
          /\ UNCHANGED phase
    /\ UNCHANGED <<context, serverVars, clientVars,
                   entries, owners, id, downloads, severed>>

----------------------------------------------------------------------------
\* The preferred context of renderer d changes: rsu_device_get_context
\* returns another interface once contexts have come or gone.
MoveContext(d) ==
    /\ phase = "running"
    /\ \E i \in Interfaces : context' = [context EXCEPT ![d] = i]
    /\ UNCHANGED <<phase, serverVars, fileVars, clientVars>>

\* rsu_host_service_delete: each server is stopped, which ends its
\* responses, before its files are freed.
Delete ==
    /\ phase = "running"
    /\ phase' \in {"deleted"}
          \cup IF \E e \in Entries : orphans[e] > 0 THEN {"crashed"} ELSE {}
    /\ servers' = {} /\ entries' = {}
    /\ orphans' = [e \in Entries |-> 0]
    /\ owners' = [e \in Entries |-> {}]
    /\ mapped' = [e \in Entries |-> 0]
    /\ downloads' = [e \in Entries |-> 0]
    /\ UNCHANGED <<context, port, counter, starts, started, id, severed, clientVars>>

\* The process has exited.
Stopped == phase # "running" /\ UNCHANGED vars

RequestStep ==
    \E c \in Clients, d \in Renderers, f \in Files :
        HostFile(c, d, f) \/ HostFileFails(c, d, f) \/ RemoveFile(c, d, f)

ClientStep == \E c \in Clients : Watch(c) \/ LostClient(c)

HttpStep ==
    \/ \E g \in given : \E e \in Entries : Get(g, e) \/ HeadRequest(g, e)
    \/ \E e \in Entries : Finished(e) \/ FinishedOrphan(e)

Next ==
    \/ RequestStep
    \/ ClientStep
    \/ HttpStep
    \/ \E d \in Renderers : MoveContext(d)
    \/ Delete
    \/ Stopped

Spec == Init /\ [][Next]_vars

----------------------------------------------------------------------------
TypeOK ==
    /\ phase \in {"running", "crashed", "deleted"}
    /\ watched \subseteq Clients
    /\ context \in [Renderers -> Interfaces]
    /\ servers \subseteq Interfaces
    /\ port \in [Interfaces -> Nat]
    /\ counter \in [Interfaces -> Nat]
    /\ starts \in Nat /\ started \in [Interfaces -> Nat]
    /\ entries \subseteq Entries
    /\ owners \in [Entries -> SUBSET Clients]
    /\ id \in [Entries -> Nat]
    /\ mapped \in [Entries -> Nat] /\ downloads \in [Entries -> Nat]
    /\ orphans \in [Entries -> Nat] /\ severed \in BOOLEAN
    /\ given \subseteq [ip : Interfaces, port : Nat, id : Nat, start : Nat,
                        file : Files]

\* As long as the server runs that a URL was returned for, the URL names the
\* file it was returned for and no other, whatever was hosted, removed and
\* hosted again since, and whether hosting failed in between.  (A server that is
\* started later counts from 0 again and may get the same port: then an old
\* URL may name another file.)
UrlNamesFile ==
    \A u \in given : \A e \in Entries :
        Found(u, e) /\ u.start = started[u.ip] => e[2] = u.file

\* Until a file is freed while it is being sent, a file that is being sent stays
\* mapped: the references that finished responses give back are never those
\* of responses still running, and a HEAD request takes none of them.  (Once
\* that has happened, by RemoveFile or the loss of a client, nothing is
\* certain: its responses send unmapped data, and their callbacks may take the
\* mapping of a file hosted since.)
MappedUntilSevered ==
    ~severed => \A e \in Entries : mapped[e] >= downloads[e]

\* A file is in the table exactly as long as some client hosts it.
FilesHaveOwners ==
    \A e \in Entries : e \in entries <=> owners[e] # {}

\* "Once all clients have stopped hosting files, either by calling RemoveFile
\* or by exiting, renderer-service-upnp will shut down its web server"
\* (API.txt).  What a client leaves behind, a file that RemoveFile looked for
\* on another interface or a server that never got its file, goes at the latest
\* with it: files are hosted for watched clients only, and without any of them
\* no server runs.
NothingOutlivesClients ==
    /\ \A e \in Entries : owners[e] \subseteq watched
    /\ watched = {} => servers = {}

\* "The server will be shutdown as soon as it no longer has any files to host"
\* (API.txt): no step takes the last file of a server and leaves it running.
ShutWhenDone ==
    [][\A i \in servers \cap servers' : FilesOf(i) # {} => (FilesOf(i) # {})']_vars

\* "Renderer-service-upnp only runs a web server when files are being
\* hosted" (API.txt).
ServersHostFiles == \A i \in servers : FilesOf(i) # {}

\* One client's step never ends another's hosting: as long as a client goes
\* on hosting a file its URL stays valid, and a step takes files away from
\* one client only.
OthersUndisturbed ==
    [][phase' = "running" =>
        /\ \A e \in Entries : owners[e] \cap owners'[e] # {} =>
               /\ e \in entries' /\ id'[e] = id[e]
               /\ e[1] \in servers' /\ port'[e[1]] = port[e[1]]
        /\ \A e1, e2 \in Entries :
               \A c1 \in owners[e1] \ owners'[e1], c2 \in owners[e2] \ owners'[e2] :
                   c1 = c2]_vars

============================================================================
