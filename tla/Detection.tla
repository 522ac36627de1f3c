----------------------------- MODULE Detection ------------------------------
(***************************************************************************)
(* Whose connection is it?  ProcessDetector                                *)
(* (interceptor/detection/process_detector.py) as the addon's hooks use    *)
(* it: the process behind a client's port, found by lsof or in /proc and   *)
(* remembered for a while, and the agent this process and the headers of   *)
(* the request stand for.                                                  *)
(*                                                                         *)
(* Ports are opened, shared with child processes and given up while the    *)
(* proxy runs, and a port that was given up is soon another process's.     *)
(* Processes are numbered as lsof lists them.                              *)
(***************************************************************************)
EXTENDS Python, Naturals, FiniteSets, FiniteSetsExt

CONSTANTS
    Peers,      \* [ip, port] of clients
    KindOf,     \* what each process is, by its number: "proxy", "generic", or a known agent
    Agents,     \* the names of the agents that are known
    Clients,    \* [peer, users]: a client and the processes that share its socket
    CacheTTL,   \* cache_ttl, in ticks of the clock
    MaxTime     \* bound: ticks of the clock

Processes == DOMAIN KindOf

ASSUME DetectionAssumption ==
    /\ CacheTTL \in Nat \ {0} /\ MaxTime \in Nat
    /\ {"proxy", "generic", "custom", "unknown"} \cap Agents = {}
    /\ Processes \subseteq Nat /\ None \notin Nat
    /\ \A c \in Clients :
        /\ c.peer \in Peers /\ c.users \subseteq Processes /\ c.users # {}
        /\ \A p \in c.users : KindOf[p] # "proxy"

VARIABLES
    now,        \* time.monotonic()
    since,      \* since when each process uses each peer's port, None if it does not
    cache,      \* _port_cache: when each peer was looked up, and the process found
    answer,     \* the identification just made: [peer, found, name, pid]
    lastUse,    \* history: when each process used a port number last, None if it never did
    lastIdle,   \* history: when a port number was last used by no process
    lastFailure \* history: when lsof failed last for a port number, None if never

detectionVars == <<now, since, cache, answer, lastUse, lastIdle, lastFailure>>

Ports == {q.port : q \in Peers}
Untouched ==
    /\ since = [q \in Peers |-> [p \in Processes |-> None]]
    /\ cache = [q \in Peers |-> None]
    /\ answer = None
    /\ lastUse = [n \in Ports |-> [p \in Processes |-> None]]
    /\ lastIdle = [n \in Ports |-> 0]
    /\ lastFailure = [n \in Ports |-> None]

InitDetection == now = 0 /\ Untouched

\* No proxy: time stands still at the bound.
NoDetection == now = MaxTime /\ Untouched

Detecting == now < MaxTime

\* The processes that have a socket with a port number: lsof is not told the address.
Users(port) ==
    {p \in Processes : \E q \in Peers : q.port = port /\ since[q][p] # None}

Proxies == {p \in Processes : KindOf[p] = "proxy"}
-----------------------------------------------------------------------------
(* Looking up a port. *)

\* The first candidate, known or not.
FirstOf(candidates) == IF candidates = {} THEN None ELSE Min(candidates)

\* The candidate that is a known agent, or else the first.
Preferred(candidates) ==
    LET known == {p \in candidates : KindOf[p] \in Agents}
    IN  IF known # {} THEN Min(known) ELSE FirstOf(candidates)

\* _lookup_via_lsof: the proxy has a socket with that port too.
ViaLsof(port) == Preferred((Users(port) \cup Proxies) \ Proxies)

\* _lookup_via_procfs: whichever process has the socket; there is no /proc everywhere.
ViaProcfs(port) == Users(port) \cup {None}

\* A cached answer that is good for ever.
ForeverFresh(q) == cache[q] # None

\* A cached answer that counts: one not found counts too.
Fresh(q) == cache[q] # None /\ now - cache[q].at < CacheTTL

\* identify_from_process, and identify_from_headers if the process is not known.  A name in the
\* headers goes with the pid of the process.
Identity(found, header) ==
    [name |-> IF found # None /\ KindOf[found] \in Agents THEN KindOf[found]
              ELSE IF header # None THEN header
              ELSE IF found # None THEN "custom"
              ELSE "unknown",
     pid  |-> found]

\* identify_client, by the hooks of a connection and of its requests, which may come after the
\* client has gone.
Identified(q, found, header) ==
    LET agent == Identity(found, header)
    IN  answer' = [peer |-> q, found |-> found, name |-> agent.name, pid |-> agent.pid]

Used(q) == \E p \in Processes : lastUse[q.port][p] # None

IdentifyCached(q, header) ==
    /\ Detecting /\ Used(q) /\ Fresh(q)
    /\ Identified(q, cache[q].found, header)
    /\ UNCHANGED <<now, since, cache, lastUse, lastIdle, lastFailure>>

IdentifyByLsof(q, header) ==
    /\ Detecting /\ Used(q) /\ ~Fresh(q)
    /\ Identified(q, ViaLsof(q.port), header)
    /\ cache' = [cache EXCEPT ![q] = [at |-> now, found |-> ViaLsof(q.port)]]
    /\ UNCHANGED <<now, since, lastUse, lastIdle, lastFailure>>

\* lsof is not there or takes too long.
IdentifyWithoutLsof(q, header) ==
    /\ Detecting /\ Used(q) /\ ~Fresh(q)
    /\ \E found \in ViaProcfs(q.port) :
        /\ Identified(q, found, header)
        /\ cache' = [cache EXCEPT ![q] = [at |-> now, found |-> found]]
    /\ lastFailure' = [lastFailure EXCEPT ![q.port] = now]
    /\ UNCHANGED <<now, since, lastUse, lastIdle>>
-----------------------------------------------------------------------------
(* The processes and the clock: the world outside the proxy. *)

\* A time that a cached answer cannot reach back to counts as 0: it makes no difference.
Clip(t) == IF t # None /\ t + CacheTTL <= now' THEN 0 ELSE t

\* The history of the port numbers, given the uses of the ports and the time after the step.
Remember ==
    LET After(n) == {p \in Processes : \E q \in Peers : q.port = n /\ since'[q][p] # None}
    IN  /\ lastUse' = [n \in Ports |-> [p \in Processes |->
                IF p \in Users(n) \cup After(n) THEN now' ELSE Clip(lastUse[n][p])]]
        /\ lastIdle' = [n \in Ports |-> IF After(n) = {} THEN now' ELSE Clip(lastIdle[n])]

\* A process connects, alone or with a child that shares the socket.
PortOpens(q, users) ==
    /\ Detecting /\ \A p \in Processes : since[q][p] = None
    /\ since' = [since EXCEPT ![q] = [p \in Processes |-> IF p \in users THEN now ELSE None]]
    /\ answer' = None
    /\ UNCHANGED <<now, cache, lastFailure>>
    /\ Remember

\* A process closes its socket or exits.
PortIsLeft(q, p) ==
    /\ Detecting /\ since[q][p] # None
    /\ since' = [since EXCEPT ![q][p] = None]
    /\ answer' = None
    /\ UNCHANGED <<now, cache, lastFailure>>
    /\ Remember

ClockTicks ==
    /\ now < MaxTime
    /\ now' = now + 1 /\ answer' = None
    /\ since' = [q \in Peers |-> [p \in Processes |-> Clip(since[q][p])]]
    /\ lastFailure' = [n \in Ports |-> Clip(lastFailure[n])]
    /\ UNCHANGED cache
    /\ Remember

NextDetection ==
    \/ \E q \in Peers, header \in Agents \cup {None} :
        IdentifyCached(q, header) \/ IdentifyByLsof(q, header) \/ IdentifyWithoutLsof(q, header)
    \/ \E c \in Clients : PortOpens(c.peer, c.users)
    \/ \E q \in Peers, p \in Processes : PortIsLeft(q, p)
    \/ ClockTicks

SpecDetection == InitDetection /\ [][NextDetection]_detectionVars
-----------------------------------------------------------------------------
(* Properties. *)

\* t lies within the cache's time to live.
Recently(t) == t # None /\ t + CacheTTL > now

\* A connection is attributed to a process that has used its port no longer ago than the cache
\* remembers, and to none only if the port was unused or lsof failed as recently: a port that
\* changed hands is attributed to its old process for that long and no longer, however often
\* its answer was served from the cache meanwhile.
LookupsAreRecent ==
    answer # None =>
        LET n == answer.peer.port
        IN  IF answer.found # None THEN Recently(lastUse[n][answer.found])
            ELSE Recently(lastIdle[n]) \/ Recently(lastFailure[n])

\* A known agent that has kept its connection for the cache's time to live is recognized by its
\* process, pid included, and neither the headers of another agent nor a process that shares
\* the socket stand in for it; unless lsof failed meanwhile or another known agent used the
\* same port number, be it at another address.
KeptConnectionsAreRecognized ==
    answer # None =>
        LET n == answer.peer.port
        IN  \A p \in Processes :
                (/\ KindOf[p] \in Agents
                 /\ since[answer.peer][p] # None /\ since[answer.peer][p] + CacheTTL <= now
                 /\ ~Recently(lastFailure[n])
                 /\ \A r \in Processes \ {p} :
                        KindOf[r] \in Agents => ~Recently(lastUse[n][r]))
                => answer.name = KindOf[p] /\ answer.pid = p
=============================================================================
