------------------------------ MODULE Sockets ------------------------------
(***************************************************************************)
(* open_listenfd and open_clientfd (proxylab-handout/tiny/csapp.c): a      *)
(* server and a client that each walk the addresses getaddrinfo returned   *)
(* until a socket can be bound or connected.  Tiny.tla goes on from there. *)
(* The system calls may fail at any time; connect also does when nobody    *)
(* listens at the address.                                                 *)
(***************************************************************************)
EXTENDS Integers, Sequences, FiniteSets

CONSTANTS
  NAddrs,      \* addresses getaddrinfo finds for the host, 1 .. NAddrs
  ConnBound    \* model bound: connections made

ASSUME SocketsAssumption == NAddrs \in Nat \ {0} /\ ConnBound \in Nat \ {0}

VARIABLES
  pc,          \* the server's next step
  laddr,       \* open_listenfd: the address p points at
  fds,         \* the server's open descriptors
  status,      \* the server: "running", "exited" or "killed"
  faults,      \* history: what has gone wrong outside the server
  cpc,         \* the client's next step
  caddr,       \* open_clientfd: the address p points at
  csocks,      \* sockets the client has open
  conns,       \* connections made so far
  backlog      \* those the kernel has accepted and the server has not

listenVars == <<pc, laddr, fds, status>>
connectVars == <<cpc, caddr, csocks, conns, backlog>>

Up == status = "running"

\* unix_error ends the server, and the kernel closes its descriptors.
unix_error ==
  /\ status' = "exited" /\ fds' = {}
  /\ UNCHANGED <<pc, laddr>>

Fault(f) == faults' = faults \cup {f}

SocketsInit ==
  /\ pc = "getaddrinfo" /\ laddr = 0 /\ fds = {}
  /\ status = "running" /\ faults = {}
  /\ cpc = "idle" /\ caddr = 0 /\ csocks = 0 /\ conns = 0
  /\ backlog = <<>>

-----------------------------------------------------------------------------
(* Open_listenfd.                                                          *)

ListenLookup ==
  /\ Up /\ pc = "getaddrinfo"
  /\ \/ pc' = "socket" /\ laddr' = 1 /\ UNCHANGED <<fds, status, faults>>
     \/ unix_error /\ Fault("sys")

\* A socket for the next address; past the last one "no address worked".
ListenSocket ==
  /\ Up /\ pc = "socket"
  /\ \/ /\ laddr <= NAddrs
        /\ fds' = fds \cup {"listen"} /\ pc' = "bind"
        /\ UNCHANGED <<laddr, status, faults>>
     \/ /\ laddr <= NAddrs
        /\ laddr' = laddr + 1 /\ Fault("sys")
        /\ UNCHANGED <<pc, fds, status>>
     \/ laddr > NAddrs /\ unix_error /\ UNCHANGED faults

\* bind; when it fails the socket is closed, and a close that fails gives up.
ListenBind ==
  /\ Up /\ pc = "bind"
  /\ \/ pc' = "listen" /\ UNCHANGED <<laddr, fds, status, faults>>
     \/ /\ fds' = fds \ {"listen"} /\ laddr' = laddr + 1 /\ pc' = "socket"
        /\ Fault("sys")
        /\ UNCHANGED status
     \/ unix_error /\ Fault("sys")

ListenListen ==
  /\ Up /\ pc = "listen"
  /\ \/ pc' = "accept" /\ UNCHANGED <<laddr, fds, status, faults>>
     \/ unix_error /\ Fault("sys")

ListenStep ==
  /\ ListenLookup \/ ListenSocket \/ ListenBind \/ ListenListen
  /\ UNCHANGED connectVars

\* From listen on the kernel completes connections, whatever the server is at.
Listening(a) == "listen" \in fds /\ laddr = a /\ pc \notin {"socket", "bind", "listen"}

-----------------------------------------------------------------------------
(* open_clientfd, in the client's process.                                 *)

\* getaddrinfo; without an answer the call returns -2 at once.
ConnectLookup ==
  /\ cpc = "idle" /\ conns < ConnBound
  /\ cpc' = "socket" /\ caddr' = 1
  /\ UNCHANGED <<listenVars, faults, csocks, conns, backlog>>

\* "All connects failed" past the last address.
ConnectSocket ==
  /\ cpc = "socket"
  /\ \/ /\ caddr <= NAddrs
        /\ csocks' = csocks + 1 /\ cpc' = "connect" /\ UNCHANGED caddr
     \/ caddr <= NAddrs /\ caddr' = caddr + 1 /\ UNCHANGED <<csocks, cpc>>
     \/ caddr > NAddrs /\ cpc' = "idle" /\ caddr' = 0 /\ UNCHANGED csocks
  /\ UNCHANGED <<listenVars, faults, conns, backlog>>

\* Mutant: the socket of an address that refused is not closed.
ConnectConnect_NoClose ==
  /\ cpc = "connect"
  /\ \/ /\ Listening(caddr)
        /\ conns' = conns + 1 /\ backlog' = Append(backlog, conns + 1)
        /\ cpc' = "connected" /\ caddr' = 0 /\ UNCHANGED csocks
     \/ /\ caddr' = caddr + 1 /\ cpc' = "socket"
        /\ UNCHANGED <<csocks, conns, backlog>>
  /\ UNCHANGED <<listenVars, faults>>

\* connect; when it fails the socket is closed before the next address is tried.
ConnectConnect ==
  /\ cpc = "connect"
  /\ \/ /\ Listening(caddr)
        /\ conns' = conns + 1 /\ backlog' = Append(backlog, conns + 1)
        /\ cpc' = "connected" /\ caddr' = 0 /\ UNCHANGED csocks
     \/ /\ csocks' = csocks - 1
        /\ \/ caddr' = caddr + 1 /\ cpc' = "socket"
           \/ caddr' = 0 /\ cpc' = "idle"   \* close reports an error
        /\ UNCHANGED <<conns, backlog>>
  /\ UNCHANGED <<listenVars, faults>>

ConnectStep == ConnectLookup \/ ConnectSocket \/ ConnectConnect
=============================================================================
