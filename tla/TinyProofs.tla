------------------------------ MODULE TinyProofs ------------------------------
(***************************************************************************)
(* Proofs about the Tiny server, for every number of addresses and         *)
(* connections, every set of requests, with stdout buffered or not.        *)
(*                                                                         *)
(* NothingLeaked follows from what is open at each step (Resources).       *)
(* SurvivesRequests needs to know who may have closed a connection the     *)
(* server is at (Queue) and that a file it serves was there (Known).       *)
(* AnswersWhole speaks of a closed connection only: it needs how far the   *)
(* answer on the open one has got at each place of doit (Answering), and   *)
(* that what the server reads is what the client sent (Fresh).             *)
(* That nobody waits for each other needs the order of the lines that are  *)
(* still to be read (InOrder).                                             *)
(***************************************************************************)
EXTENDS Tiny, SequenceTheorems, TLAPS

Starting == {"getaddrinfo", "socket", "bind", "listen"}
Serving == {"request", "header", "headers", "stat", "serve_static", "write", "open", "mmap",
            "serve_dynamic", "fork", "wait", "close"}
Clients == {"idle", "socket", "connect", "connected", "sending", "waiting"}

-----------------------------------------------------------------------------
(* Descriptors, sockets and children.                                      *)

\* The descriptors the server has open at each of its steps.
FdsAt(p) ==
  CASE p \in {"getaddrinfo", "socket"}      -> {}
    [] p \in {"bind", "listen", "accept"}   -> {"listen"}
    [] p \in Serving \ {"mmap"}             -> {"listen", "conn"}
    [] p = "mmap"                           -> {"listen", "conn", "file"}

Resources ==
  /\ pc \in Starting \cup {"accept"} \cup Serving
  /\ status \in {"running", "exited", "killed"}
  /\ after \in {"close", "open", "fork"}
  /\ Up => fds = FdsAt(pc)
  /\ cgi # "none" => pc = "wait"
  /\ cpc \in Clients
  /\ csocks = IF cpc \in {"idle", "socket"} THEN 0 ELSE 1

LEMMA ResourcesBySteps == ASSUME Resources, [Next]_vars PROVE Resources'
<1> USE DEF Resources, FdsAt, Starting, Serving, Clients, Up
<1>1. CASE OpenStep
  BY <1>1 DEF OpenStep, ListenStep, ConnectStep, ListenLookup, ListenSocket, ListenBind,
       ListenListen, ConnectLookup, ConnectSocket, ConnectConnect, unix_error, listenVars,
       connectVars, localVars
<1>2. CASE AcceptConn \/ RequestEof \/ RequestLine \/ Header \/ HeaderStale \/ Stat
  BY <1>2 DEF AcceptConn, RequestEof, RequestLine, Header, HeaderStale, Stat, Send, Goto,
       ReadLine, connectVars, localVars
<1>3. CASE ServeStatic \/ OpenFile \/ MmapFile \/ ServeDynamic \/ Fork \/ Wait \/ Write \/ CloseConn
  BY <1>3 DEF ServeStatic, OpenFile, MmapFile, ServeDynamic, Fork, Wait, Write, CloseConn,
       Send, Goto, unix_error, connectVars, localVars
<1>4. CASE Breaks
  BY <1>4 DEF Breaks, ReadReset, WriteBroken, WriteFault, WrapperFails, unix_error, connectVars,
       localVars
<1>5. CASE ChildStep
  BY <1>5 DEF ChildStep, ChildExecve, ChildRuns, listenVars, connectVars
<1>6. CASE Client \/ ClientGivesUp
  BY <1>6 DEF Client, ClientAsks, ClientSends, ClientDone, ClientGivesUp, ClientCloses,
       listenVars, localVars
<1>7. CASE FileChanges
  BY <1>7 DEF FileChanges, listenVars, connectVars, localVars
<1>8. CASE UNCHANGED vars
  BY <1>8 DEF vars, listenVars, connectVars, localVars
<1> QED BY <1>1, <1>2, <1>3, <1>4, <1>5, <1>6, <1>7, <1>8 DEF Next, Serve

-----------------------------------------------------------------------------
(* Connections.                                                            *)

\* The client that made the last connection has not closed it.
Served == cpc \in {"connected", "sending", "waiting"}

\* A connection is accepted once, in the order the kernel made them; one that the
\* server has closed is neither the one it is at nor waiting for it; and a client
\* closes its end after the server, unless it gives up or the server has ended.
Queue ==
  /\ conns \in 0 .. ConnBound
  /\ cpc \in {"socket", "connect"} => conns < ConnBound
  /\ Served => conns # 0 /\ ~left[conns]
  /\ backlog \in Seq(1 .. conns)
  /\ \A i, j \in 1 .. Len(backlog) : i < j => backlog[i] < backlog[j]
  /\ conn \in 0 .. conns
  /\ pc \in Serving <=> conn # 0
  /\ \A i \in 1 .. Len(backlog) : ~hung[backlog[i]] /\ conn < backlog[i]
  /\ conn # 0 => ~hung[conn]
  /\ hung \in [Conns -> BOOLEAN] /\ left \in [Conns -> BOOLEAN]
  /\ \A c \in Conns : c > conns => ~hung[c] /\ ~left[c]
  /\ \A c \in Conns : left[c] => hung[c] \/ "left" \in faults \/ ~Up

LEMMA QueueBySteps == ASSUME Resources, Queue, [Next]_vars PROVE Queue'
<1> USE SocketsAssumption DEF Queue, Serving, Starting, Up, Conns, Served
<1>1. CASE OpenStep
  <2>1. CASE ListenStep
    BY <1>1, <2>1 DEF OpenStep, ListenStep, ListenLookup, ListenSocket, ListenBind,
         ListenListen, unix_error, Fault, connectVars, localVars, netVars
  <2>2. CASE ConnectLookup \/ ConnectSocket
    BY <1>1, <2>2 DEF OpenStep, ConnectLookup, ConnectSocket, listenVars, localVars, netVars
  <2>3. CASE ConnectConnect
    <3>1. CASE conns' = conns /\ backlog' = backlog
      BY <1>1, <2>3, <3>1 DEF OpenStep, ConnectConnect, listenVars, localVars, netVars
    <3>2. CASE conns' = conns + 1 /\ backlog' = Append(backlog, conns + 1)
      <4>1. /\ backlog \in Seq(1 .. conns') /\ conns + 1 \in 1 .. conns'
        BY <3>2
      <4>2. /\ backlog' \in Seq(1 .. conns') /\ Len(backlog') = Len(backlog) + 1
            /\ \A i \in 1 .. Len(backlog) : backlog'[i] = backlog[i]
            /\ backlog'[Len(backlog) + 1] = conns + 1
        BY <3>2, <4>1, AppendProperties
      <4>3. \A i \in 1 .. Len(backlog) : backlog[i] \in 1 .. conns
        OBVIOUS
      <4> QED BY <1>1, <2>3, <3>2, <4>2, <4>3, SMTT(30)
              DEF OpenStep, ConnectConnect, listenVars, localVars, netVars
    <3> QED BY <2>3, <3>1, <3>2 DEF ConnectConnect
  <2> QED BY <1>1, <2>1, <2>2, <2>3 DEF OpenStep, ConnectStep
<1>2. CASE AcceptConn
  <2>1. /\ Len(backlog) \in Nat \ {0} /\ Head(backlog) = backlog[1]
        /\ \A i \in 1 .. Len(backlog) : backlog[i] \in 1 .. conns
    BY <1>2 DEF AcceptConn
  <2>2. /\ backlog' \in Seq(1 .. conns) /\ Len(backlog') = Len(backlog) - 1
        /\ \A i \in 1 .. Len(backlog') : backlog'[i] = backlog[i + 1]
    BY <1>2, <2>1, HeadTailProperties DEF AcceptConn
  <2> QED BY <1>2, <2>1, <2>2 DEF AcceptConn, netVars
<1>3. CASE RequestEof \/ RequestLine \/ Header \/ HeaderStale \/ Stat
  BY <1>3 DEF RequestEof, RequestLine, Header, HeaderStale, Stat, Send, Goto,
       ReadLine, connectVars, localVars, netVars
<1>4. CASE ServeStatic \/ OpenFile \/ MmapFile \/ ServeDynamic \/ Fork \/ Wait \/ Write
  BY <1>4 DEF Resources, ServeStatic, OpenFile, MmapFile, ServeDynamic, Fork, Wait, Write,
       Send, Goto, unix_error, connectVars, localVars, netVars
<1>5. CASE CloseConn
  BY <1>5 DEF CloseConn, connectVars
<1>6. CASE Breaks
  BY <1>6 DEF Breaks, ReadReset, WriteBroken, WriteFault, WrapperFails, unix_error, Fault,
       connectVars, localVars, netVars
<1>7. CASE ChildStep
  BY <1>7 DEF ChildStep, ChildExecve, ChildRuns, Fault, listenVars, connectVars
<1>8. CASE \E r \in Requests : ClientAsks(r)
  BY <1>8 DEF ClientAsks, listenVars, localVars, netVars
<1>9. CASE ClientSends
  BY <1>9 DEF ClientSends, listenVars, localVars
<1>10. CASE ClientDone \/ ClientGivesUp
  <2>1. /\ Served /\ ~Served' /\ cpc' = "idle"
        /\ left' = [left EXCEPT ![conns] = TRUE]
        /\ UNCHANGED <<conns, backlog, pc, status, conn, hung>>
        /\ faults \subseteq faults'
        /\ hung[conns] \/ ~Up \/ "left" \in faults'
    BY <1>10 DEF ClientDone, ClientGivesUp, ClientCloses, Fault, listenVars, localVars
  <2>2. \A c \in Conns : left'[c] => c = conns \/ left[c]
    BY <2>1
  <2> QED BY <2>1, <2>2
<1>11. CASE FileChanges
  BY <1>11 DEF FileChanges, Fault, listenVars, connectVars, localVars, netVars
<1>12. CASE UNCHANGED vars
  BY <1>12 DEF vars, listenVars, connectVars, localVars, netVars
<1> QED BY <1>1, <1>2, <1>3, <1>4, <1>5, <1>6, <1>7, <1>8, <1>9, <1>10, <1>11, <1>12
        DEF Next, Serve, Client

-----------------------------------------------------------------------------
(* What can end the server.                                                *)

\* What the server has learnt of the target before it serves it.
Known ==
  /\ pc \in {"serve_static", "open", "mmap"} \/ (pc = "write" /\ after = "open") =>
       /\ asked.target \in {"page", "empty"} /\ size \in Sizes
       /\ asked.target = "empty" => size = 0
  /\ pc \in {"serve_dynamic", "fork", "wait"} \/ (pc = "write" /\ after = "fork") =>
       asked.target \in {"prog", "bare"}

\* Without a fault the first address serves, "page" keeps its size, and what has
\* ended the server is the empty file.
Faultless ==
  /\ laddr \in Nat /\ (laddr > 1 => faults # {})
  /\ page \in Sizes \cup {NONE} /\ ("file" \notin faults => page = 2)
  /\ size \in Sizes \cup {NONE}
  /\ asked \in Requests \cup {NoRequest}
  /\ SurvivesRequests

LEMMA KnownBySteps == ASSUME Resources, Faultless, Known, [Next]_vars PROVE Known'
<1> USE DEF Known, NONE, Sizes, Targets, Starting, Serving
<1>1. CASE OpenStep
  BY <1>1 DEF OpenStep, ListenStep, ConnectStep, ListenLookup, ListenSocket, ListenBind,
       ListenListen, ConnectLookup, ConnectSocket, ConnectConnect, unix_error, listenVars,
       connectVars, localVars
<1>2. CASE AcceptConn \/ RequestEof \/ RequestLine \/ Header \/ HeaderStale
  BY <1>2 DEF AcceptConn, RequestEof, RequestLine, Header, HeaderStale, Send, Goto,
       ReadLine, connectVars, localVars
<1>3. CASE Stat
  <2>1. asked.target \in Targets
    BY TinyAssumption DEF Faultless, NoRequest
  <2> QED BY <1>3, <2>1 DEF Stat, StatSize, Readable, parse_uri, Send, Goto, Faultless
<1>4. CASE ServeStatic \/ OpenFile \/ MmapFile \/ ServeDynamic \/ Fork \/ Wait \/ CloseConn
  BY <1>4 DEF ServeStatic, OpenFile, MmapFile, ServeDynamic, Fork, Wait, CloseConn,
       Send, Goto, unix_error, connectVars, localVars
<1>5. CASE Write
  <2>1. after \in {"close", "open", "fork"} /\ asked' = asked /\ size' = size /\ after' = after
        /\ pc = "write" /\ (pc' = after \/ pc' = pc)
    BY <1>5 DEF Write, Goto, Resources
  <2> QED BY <2>1
<1>6. CASE Breaks \/ ChildStep
  BY <1>6 DEF Breaks, ReadReset, WriteBroken, WriteFault, WrapperFails, unix_error, connectVars,
       ChildStep, ChildExecve, ChildRuns, listenVars, connectVars, localVars
<1>7. CASE Client \/ ClientGivesUp \/ FileChanges
  BY <1>7 DEF Client, ClientAsks, ClientSends, ClientDone, ClientGivesUp, ClientCloses,
       FileChanges, listenVars, localVars
<1>8. CASE UNCHANGED vars
  BY <1>8 DEF vars, listenVars, connectVars, localVars
<1> QED BY <1>1, <1>2, <1>3, <1>4, <1>5, <1>6, <1>7, <1>8 DEF Next, Serve

LEMMA FaultlessBySteps ==
  ASSUME Resources, Queue, Known, Faultless, [Next]_vars PROVE Faultless'
<1> USE DEF Faultless, SurvivesRequests, Up, NONE, Sizes
<1>1. CASE OpenStep
  <2> USE DEF OpenStep, localVars, listenVars
  <2>1. CASE ListenLookup \/ ListenListen
    BY <1>1, <2>1 DEF ListenLookup, ListenListen, unix_error, Fault
  <2>2. CASE ListenSocket
    BY SocketsAssumption, <1>1, <2>2 DEF ListenSocket, unix_error, Fault
  <2>3. CASE ListenBind
    <3>1. /\ laddr' \in Nat /\ (laddr' = laddr \/ faults' = faults \cup {"sys"})
          /\ UNCHANGED <<page, size, asked>>
          /\ faults \subseteq faults' /\ (status' = status \/ faults' = faults \cup {"sys"})
          /\ status = "running" /\ ("file" \in faults' <=> "file" \in faults)
      BY <1>1, <2>3 DEF ListenBind, unix_error, Fault
    <3>2. "sys" \in faults' => faults' # {}
      OBVIOUS
    <3> QED BY <3>1, <3>2
  <2>4. CASE ConnectStep
    BY <1>1, <2>4 DEF ConnectStep, ConnectLookup, ConnectSocket, ConnectConnect
  <2> QED BY <1>1, <2>1, <2>2, <2>3, <2>4 DEF ListenStep
<1>2. CASE AcceptConn \/ RequestEof \/ RequestLine \/ Header \/ HeaderStale
  BY <1>2 DEF AcceptConn, RequestEof, RequestLine, Header, HeaderStale, Send, Goto,
       ReadLine, connectVars, localVars
<1>3. CASE Stat
  BY <1>3 DEF Stat, StatSize, Send, Goto
<1>4. CASE OpenFile
  BY <1>4 DEF OpenFile, Known, StatSize, unix_error, localVars
<1>5. CASE ServeStatic \/ MmapFile \/ ServeDynamic \/ Fork \/ Wait \/ Write
  BY <1>5 DEF ServeStatic, MmapFile, ServeDynamic, Fork, Wait, Write, Send, Goto, unix_error
<1>6. CASE CloseConn
  BY <1>6 DEF CloseConn
<1>7. CASE Breaks
  <2>1. CASE ReadReset \/ WriteBroken
    <3>1. conn \in Conns /\ left[conn] /\ Up /\ ~hung[conn]
      BY SocketsAssumption, <2>1 DEF ReadReset, AtEof, WriteBroken, Queue, Serving, Conns
    <3>2. "left" \in faults
      BY <3>1 DEF Queue
    <3> QED BY <2>1, <3>2 DEF ReadReset, WriteBroken, unix_error, localVars
  <2>2. CASE WriteFault
    BY <2>2 DEF WriteFault, unix_error, localVars
  <2>3. CASE WrapperFails
    BY <2>3 DEF WrapperFails, unix_error, Fault, localVars
  <2> QED BY <1>7, <2>1, <2>2, <2>3 DEF Breaks
<1>8. CASE ChildStep
  BY <1>8 DEF ChildStep, ChildExecve, ChildRuns, Fault, listenVars
<1>9. CASE Client \/ ClientGivesUp
  BY <1>9 DEF Client, ClientAsks, ClientSends, ClientDone, ClientGivesUp, ClientCloses, Fault,
       listenVars, localVars
<1>10. CASE FileChanges
  BY <1>10 DEF FileChanges, Fault, listenVars, localVars
<1>11. CASE UNCHANGED vars
  BY <1>11 DEF vars, listenVars, localVars
<1> QED BY <1>1, <1>2, <1>3, <1>4, <1>5, <1>6, <1>7, <1>8, <1>9, <1>10, <1>11
        DEF Next, Serve

-----------------------------------------------------------------------------
(* What travels on a connection.                                           *)

Lines == {<<"request", r>> : r \in Requests} \cup {<<"line">>, <<"empty">>}
Kinds == {"status", "type", "length", "text", "server", "head", "body", "cgi", "log"}
Items == {<<k, n>> : k \in Kinds, n \in Int}
Begun == <<<<"status", 200>>, <<"server", 0>>>>

LEMMA HeadFirst ==
  ASSUME NEW S, NEW a \in Seq(S), NEW b \in Seq(S), a # <<>>
  PROVE  a \o b \in Seq(S) /\ a \o b # <<>> /\ Head(a \o b) = Head(a) /\ Head(a) \in S
<1> DEFINE d == a \o b
<1>1. Len(a) >= 1 /\ Head(a) = a[1] /\ Head(a) \in S
  OBVIOUS
<1>2. d \in Seq(S) /\ Len(d) = Len(a) + Len(b) /\ d[1] = a[1]
  BY <1>1, ConcatProperties
<1> HIDE DEF d
<1>3. d # <<>> /\ Head(d) = d[1]
  BY <1>1, <1>2
<1> QED BY <1>1, <1>2, <1>3 DEF d

\* Writing the first of what is still to be written does not change the whole.
LEMMA MoveHead ==
  ASSUME NEW S, NEW a \in Seq(S), NEW w \in Seq(S), w # <<>>
  PROVE  /\ Append(a, Head(w)) \in Seq(S) /\ Tail(w) \in Seq(S)
         /\ Append(a, Head(w)) \o Tail(w) = a \o w
         /\ Len(w) = 1 => Append(a, Head(w)) = a \o w
         /\ Len(w) # 1 => Tail(w) # <<>>
<1>1. Len(w) >= 1 /\ Head(w) = w[1] /\ Head(w) \in S
  OBVIOUS
<1>2. /\ Append(a, Head(w)) \in Seq(S) /\ Tail(w) \in Seq(S)
      /\ Len(Append(a, Head(w))) = Len(a) + 1 /\ Len(Tail(w)) = Len(w) - 1
      /\ \A i \in 1 .. Len(w) - 1 : Tail(w)[i] = w[i + 1]
      /\ \A i \in 1 .. Len(a) : Append(a, Head(w))[i] = a[i]
      /\ Append(a, Head(w))[Len(a) + 1] = w[1]
  BY <1>1, HeadTailProperties, AppendProperties
<1>3. a \o w \in Seq(S) /\ Len(a \o w) = Len(a) + Len(w)
      /\ \A i \in 1 .. Len(a) + Len(w) : (a \o w)[i] = IF i <= Len(a) THEN a[i] ELSE w[i - Len(a)]
  BY ConcatProperties
<1> DEFINE x == Append(a, Head(w)) \o Tail(w)
<1>4. x \in Seq(S) /\ Len(x) = Len(a) + Len(w)
      /\ \A i \in 1 .. Len(a) + Len(w) :
           x[i] = IF i <= Len(a) + 1 THEN Append(a, Head(w))[i] ELSE Tail(w)[i - (Len(a) + 1)]
  BY <1>1, <1>2, ConcatProperties
<1>5. x = a \o w
  <2> HIDE DEF x
  <2>1. \A i \in 1 .. Len(x) : x[i] = (a \o w)[i]
    BY <1>1, <1>2, <1>3, <1>4
  <2> QED BY <1>3, <1>4, <2>1, SeqEqual
<1>6. Len(w) = 1 => Append(a, Head(w)) = a \o w
  BY <1>1, <1>2, <1>3, SeqEqual
<1>7. Len(w) # 1 => Tail(w) # <<>>
  <2> DEFINE t == Tail(w)
  <2>1. t \in Seq(S) /\ Len(t) = Len(w) - 1
    BY <1>2
  <2> HIDE DEF t
  <2>2. Len(w) # 1 => t # <<>>
    BY <1>1, <2>1
  <2> QED BY <2>2 DEF t
<1> QED BY <1>2, <1>5, <1>6, <1>7

LEMMA ScriptLines ==
  ASSUME NEW r \in Requests
  PROVE  Script(r) \in Seq(Lines) /\ Script(r) # <<>> /\ Head(Script(r)) = <<"request", r>>
<1> DEFINE a == <<<<"request", r>>>>
           b == [i \in 1 .. r.headers |-> <<"line">>]
           c == <<<<"empty">>>>
<1>1. r.headers \in Nat
  BY TinyAssumption
<1>2. a \in Seq(Lines) /\ c \in Seq(Lines)
  BY DEF Lines
<1>3. b \in Seq(Lines)
  <2>1. <<"line">> \in Lines
    BY DEF Lines
  <2>2. b \in [1 .. r.headers -> Lines]
    BY <2>1
  <2> QED BY <1>1, <2>2, SeqDef
<1>4. a # <<>> /\ Head(a) = <<"request", r>>
  OBVIOUS
<1> HIDE DEF a, b, c
<1>5. (a \o b) \in Seq(Lines) /\ a \o b # <<>> /\ Head(a \o b) = Head(a)
  BY <1>2, <1>3, <1>4, HeadFirst
<1>6. (a \o b) \o c \in Seq(Lines) /\ (a \o b) \o c # <<>> /\ Head((a \o b) \o c) = Head(a \o b)
  BY <1>2, <1>5, HeadFirst
<1>7. Script(r) = (a \o b) \o c
  BY DEF Script, a, b, c
<1> QED BY <1>4, <1>5, <1>6, <1>7

LEMMA Four ==
  ASSUME NEW S, NEW a \in S, NEW b \in S, NEW c \in S, NEW d \in S
  PROVE  <<a, b, c, d>> \in Seq(S) /\ <<a, b, c, d>> # <<>>
OBVIOUS

LEMMA ErrorItems == ASSUME NEW code \in Int PROVE Error(code) \in Seq(Items) /\ Error(code) # <<>>
<1>1. <<"status", code>> \in Items
  BY DEF Items, Kinds
<1>2. <<"type", 0>> \in Items /\ <<"length", 0>> \in Items /\ <<"text", 0>> \in Items
  BY DEF Items, Kinds
<1> QED BY <1>1, <1>2, Four DEF Error

LEMMA Pieces ==
  /\ \A n \in Int : <<<<"head", n>>>> \in Seq(Items) /\ <<<<"body", n>>>> \in Seq(Items)
  /\ \A n \in Int : <<<<"head", n>>>> # <<>> /\ <<<<"body", n>>>> # <<>>
  /\ \A n \in Int : <<<<"head", n>>>> \o <<<<"body", n>>>> = <<<<"head", n>>, <<"body", n>>>>
  /\ <<<<"cgi", 0>>>> \in Seq(Items) /\ <<<<"log", 0>>>> \in Seq(Items)
  /\ Begun \in Seq(Items) /\ Begun # <<>> /\ Begun \o <<>> = Begun
  /\ \A s \in Seq(Items) : <<>> \o s = s
<1>1. ASSUME NEW n \in Int
      PROVE  <<"head", n>> \in Items /\ <<"body", n>> \in Items
  BY DEF Items, Kinds
<1>2. /\ <<"cgi", 0>> \in Items /\ <<"log", 0>> \in Items
      /\ <<"status", 200>> \in Items /\ <<"server", 0>> \in Items
  BY DEF Items, Kinds
<1>3. ASSUME NEW a \in Items, NEW b \in Items
      PROVE  <<a>> \in Seq(Items) /\ <<a, b>> \in Seq(Items) /\ <<a>> # <<>> /\ <<a, b>> # <<>>
  OBVIOUS
<1>4. ASSUME NEW a \in Items, NEW b \in Items PROVE <<a>> \o <<b>> = <<a, b>>
  <2>1. /\ <<a>> \in Seq(Items) /\ <<b>> \in Seq(Items) /\ <<a, b>> \in Seq(Items)
        /\ Len(<<a>>) = 1 /\ Len(<<b>>) = 1 /\ Len(<<a, b>>) = 2
        /\ <<a>>[1] = a /\ <<b>>[1] = b /\ <<a, b>>[1] = a /\ <<a, b>>[2] = b
    OBVIOUS
  <2> DEFINE x == <<a>> \o <<b>>
             y == <<a, b>>
  <2>2. x \in Seq(Items) /\ Len(x) = 2 /\ x[1] = a /\ x[2] = b
    BY <2>1, ConcatProperties
  <2>3. y \in Seq(Items) /\ Len(y) = 2 /\ y[1] = a /\ y[2] = b
    BY <2>1
  <2> HIDE DEF x, y
  <2>4. \A i \in 1 .. Len(x) : x[i] = y[i]
    BY <2>2, <2>3
  <2>5. x = y
    BY <2>2, <2>3, <2>4, SeqEqual
  <2> QED BY <2>5 DEF x, y
<1>5. \A s \in Seq(Items) : <<>> \o s = s /\ s \o <<>> = s
  BY ConcatEmptySeq
<1>6. Begun \in Seq(Items) /\ Begun # <<>>
  BY <1>2, <1>3 DEF Begun
<1> QED BY <1>1, <1>2, <1>3, <1>4, <1>5, <1>6

\* Lines and items are what they should be, and a request in progress is one.
Texts ==
  /\ wq \in Seq(Items) /\ (pc = "write" => wq # <<>>)
  /\ answer \in [Conns -> Seq(Items)]
  /\ input \in [Conns -> Seq(Lines)]
  /\ script \in Seq(Lines)
  /\ Served /\ cpc # "connected" => req \in Requests

\* Nothing of the last connection has been read.
Unread ==
  /\ Served
  /\ \/ conn = conns /\ pc = "request"
     \/ \E i \in 1 .. Len(backlog) : backlog[i] = conns

\* Nothing has been written on a connection before its request has been read, and
\* what the server will read on it is what the client sends.
Fresh ==
  /\ \A c \in Conns : c > conns => input[c] = <<>> /\ answer[c] = <<>>
  /\ \A i \in 1 .. Len(backlog) : answer[backlog[i]] = <<>>
  /\ pc = "request" => answer[conn] = <<>>
  /\ Unread => IF cpc = "connected" THEN input[conns] = <<>>
                                    ELSE input[conns] \o script = Script(req)

LEMMA TextsBySteps == ASSUME Resources, Queue, Known, Texts, [Next]_vars PROVE Texts'
<1> USE SocketsAssumption DEF Texts, Served
<1>0. conn # 0 => conn \in Conns
  BY DEF Queue, Conns
<1>1. CASE OpenStep
  BY <1>1 DEF OpenStep, ListenStep, ConnectStep, ListenLookup, ListenSocket, ListenBind,
       ListenListen, ConnectLookup, ConnectSocket, ConnectConnect, unix_error, listenVars,
       connectVars, localVars, clientVars, netVars
<1>2. CASE AcceptConn \/ RequestEof \/ HeaderStale \/ Fork \/ Wait \/ CloseConn \/ OpenFile
  BY <1>2 DEF AcceptConn, RequestEof, HeaderStale, Fork, Wait, CloseConn, OpenFile, unix_error,
       Goto, connectVars, localVars, clientVars, netVars
<1>3. CASE RequestLine \/ Header
  <2>1. /\ conn \in Conns /\ input[conn] # <<>>
        /\ input' = [input EXCEPT ![conn] = Tail(@)]
        /\ UNCHANGED <<cpc, req, script, answer>>
    BY <1>0, <1>3 DEF RequestLine, Header, ReadLine, Queue, Serving, connectVars, clientVars
  <2>2. input' \in [Conns -> Seq(Lines)]
    <3>1. Tail(input[conn]) \in Seq(Lines)
      BY <2>1
    <3> QED BY <2>1, <3>1
  <2>3. wq' \in Seq(Items) /\ (pc' = "write" => wq' # <<>>)
    <3>1. CASE Header
      BY <1>3, <3>1 DEF Header, Goto, localVars
    <3>2. CASE RequestLine
      <4>1. CASE pc' = "header" /\ UNCHANGED wq
        BY <4>1
      <4>2. CASE wq' = Error(501)
        BY <4>2, ErrorItems
      <4> QED BY <3>2, <4>1, <4>2 DEF RequestLine, Send, Goto
    <3> QED BY <1>3, <3>1, <3>2
  <2> QED BY <2>1, <2>2, <2>3
<1>4. CASE Stat \/ ServeStatic \/ MmapFile \/ ServeDynamic
  <2>1. UNCHANGED <<cpc, req, script, answer, input>>
    BY <1>4 DEF Stat, ServeStatic, MmapFile, ServeDynamic, Send, Goto, connectVars, clientVars,
         netVars
  <2>2. CASE Stat
    <3>1. CASE pc' \in {"serve_static", "serve_dynamic"} /\ UNCHANGED wq
      BY <2>1, <3>1
    <3>2. CASE wq' = Error(404) \/ wq' = Error(403)
      <4>1. Error(404) \in Seq(Items) /\ Error(404) # <<>>
        BY ErrorItems
      <4>2. Error(403) \in Seq(Items) /\ Error(403) # <<>>
        BY ErrorItems
      <4> QED BY <2>1, <3>2, <4>1, <4>2
    <3> QED BY <2>2, <3>1, <3>2 DEF Stat, Send, Goto
  <2>3. CASE ServeStatic \/ MmapFile
    <3>1. size \in Int
      BY <2>3 DEF Known, ServeStatic, MmapFile, Sizes
    <3> QED BY <2>1, <2>3, <3>1, Pieces DEF ServeStatic, MmapFile, Send, Goto, unix_error
  <2>4. CASE ServeDynamic
    BY <2>1, <2>4, Pieces DEF ServeDynamic, Send, Goto, Begun
  <2> QED BY <1>4, <2>2, <2>3, <2>4
<1>5. CASE Write
  <2>1. conn \in Conns /\ pc = "write" /\ answer[conn] \in Seq(Items) /\ wq # <<>>
    BY <1>0, <1>5 DEF Write, Queue, Serving
  <2>2. /\ Append(answer[conn], Head(wq)) \in Seq(Items) /\ Tail(wq) \in Seq(Items)
        /\ Len(wq) # 1 => Tail(wq) # <<>>
    BY <2>1, MoveHead
  <2>3. answer' \in [Conns -> Seq(Items)]
    BY <1>5, <2>1, <2>2 DEF Write
  <2>4. pc' = "write" => Len(wq) # 1
    BY <1>5 DEF Write, Resources, Goto
  <2> QED BY <1>5, <2>2, <2>3, <2>4 DEF Write, clientVars, connectVars
<1>6. CASE Breaks
  BY <1>6 DEF Breaks, ReadReset, WriteBroken, WriteFault, WrapperFails, unix_error, connectVars,
       localVars, clientVars, netVars
<1>7. CASE ChildStep
  <2>1. conn \in Conns /\ answer[conn] \in Seq(Items)
    BY <1>0, <1>7 DEF ChildStep, ChildExecve, ChildRuns, Queue, Resources, Serving
  <2>2. ASSUME NEW s \in Seq(Items), ChildWrites(s) PROVE answer' \in [Conns -> Seq(Items)]
    BY <2>1, <2>2 DEF ChildWrites
  <2>3. answer' \in [Conns -> Seq(Items)]
    <3>1. <<>> \in Seq(Items)
      OBVIOUS
    <3> QED BY <1>7, <2>2, <3>1, Pieces DEF ChildStep, ChildExecve, ChildRuns
  <2> QED BY <1>7, <2>3
          DEF ChildStep, ChildExecve, ChildRuns, listenVars, connectVars, clientVars
<1>8. CASE \E r \in Requests : ClientAsks(r)
  BY <1>8, ScriptLines DEF ClientAsks, listenVars, localVars, netVars
<1>9. CASE ClientSends
  <2>1. CASE script = <<>>
    BY <1>9, <2>1 DEF ClientSends, listenVars, localVars
  <2>2. CASE script # <<>>
    <3>1. conns \in Conns
      BY <1>9 DEF ClientSends, Queue, Conns
    <3>2. Head(script) \in Lines /\ Tail(script) \in Seq(Lines)
      BY <2>2
    <3>3. Append(input[conns], Head(script)) \in Seq(Lines)
      BY <3>1, <3>2
    <3>4. input' \in [Conns -> Seq(Lines)]
      BY <1>9, <2>2, <3>1, <3>3 DEF ClientSends
    <3> QED BY <1>9, <2>2, <3>2, <3>4 DEF ClientSends, listenVars, localVars
  <2> QED BY <2>1, <2>2
<1>10. CASE ClientDone \/ ClientGivesUp
  <2>1. <<>> \in Seq(Lines)
    OBVIOUS
  <2> QED BY <1>10, <2>1 DEF ClientDone, ClientGivesUp, ClientCloses, listenVars, localVars
<1>11. CASE FileChanges
  BY <1>11 DEF FileChanges, listenVars, connectVars, localVars, clientVars, netVars
<1>12. CASE UNCHANGED vars
  BY <1>12 DEF vars, listenVars, connectVars, localVars, clientVars, netVars
<1> QED BY <1>1, <1>2, <1>3, <1>4, <1>5, <1>6, <1>7, <1>8, <1>9, <1>10, <1>11, <1>12
        DEF Next, Serve, Client

\* A step of the server that reads or writes the connection it is at, and no other.
OwnConnection ==
  /\ UNCHANGED <<connectVars, clientVars>>
  /\ conn' \in {conn, 0} /\ (pc' = "request" => UNCHANGED <<pc, conn, answer, input>>)
  /\ \A c \in Conns : c # conn => input'[c] = input[c] /\ answer'[c] = answer[c]

LEMMA FreshBySteps ==
  ASSUME Resources, Queue, Texts, Fresh, [Next]_vars PROVE Fresh'
<1> USE SocketsAssumption
<1>0. /\ conns \in Nat /\ conn \in 0 .. conns /\ (conn # 0 => conn \in Conns)
      /\ \A i \in 1 .. Len(backlog) : backlog[i] \in Conns /\ backlog[i] # conn
      /\ Served => conns \in Conns
  <2>1. \A i \in 1 .. Len(backlog) : backlog[i] \in 1 .. conns
    BY DEF Queue
  <2> QED BY <2>1 DEF Queue, Conns
<1>1. CASE OwnConnection
  <2>1. \A c \in Conns : c > conns => input'[c] = <<>> /\ answer'[c] = <<>>
    BY <1>0, <1>1 DEF OwnConnection, Fresh, Conns, connectVars
  <2>2. \A i \in 1 .. Len(backlog') : answer'[backlog'[i]] = <<>>
    BY <1>0, <1>1 DEF OwnConnection, Fresh, connectVars
  <2>3. pc' = "request" => answer'[conn'] = <<>>
    BY <1>1 DEF OwnConnection, Fresh
  <2>4. Unread' => Unread /\ input'[conns'] = input[conns]
    BY <1>0, <1>1 DEF OwnConnection, Unread, Served, connectVars
  <2> QED BY <1>1, <2>1, <2>2, <2>3, <2>4 DEF OwnConnection, Fresh, connectVars, clientVars
<1>2. CASE RequestEof \/ RequestLine \/ Header \/ HeaderStale \/ Stat \/ ServeStatic
           \/ OpenFile \/ MmapFile \/ ServeDynamic \/ Fork \/ Wait \/ Write \/ CloseConn
  <2> USE DEF Texts, Serving
  <2>1. CASE RequestEof \/ HeaderStale \/ Stat \/ ServeStatic \/ OpenFile
    BY <1>1, <2>1 DEF OwnConnection, RequestEof, HeaderStale, Stat, ServeStatic, OpenFile, Send,
         Goto, unix_error, connectVars, clientVars, localVars, netVars
  <2>2. CASE MmapFile \/ ServeDynamic \/ Fork \/ Wait \/ CloseConn
    BY <1>1, <2>2 DEF OwnConnection, MmapFile, ServeDynamic, Fork, Wait, CloseConn, Send,
         Goto, unix_error, connectVars, clientVars, localVars, netVars
  <2>3. CASE RequestLine \/ Header
    BY <1>1, <2>3 DEF OwnConnection, RequestLine, Header, ReadLine, Send, Goto, connectVars,
         clientVars, localVars
  <2>4. CASE Write
    BY <1>1, <2>4 DEF OwnConnection, Write, Goto, Resources, connectVars, clientVars
  <2> QED BY <1>2, <2>1, <2>2, <2>3, <2>4
<1>3. CASE Breaks
  BY <1>1, <1>3 DEF OwnConnection, Breaks, ReadReset, WriteBroken, WriteFault, WrapperFails,
       unix_error, connectVars, clientVars, localVars, netVars
<1>4. CASE ChildStep
  <2>1. pc = "wait"
    BY <1>4 DEF ChildStep, ChildExecve, ChildRuns, Resources
  <2>2. UNCHANGED <<connectVars, clientVars, conn, pc, input>>
    BY <1>4 DEF ChildStep, ChildExecve, ChildRuns, listenVars
  <2>3. \A c \in Conns : c # conn => answer'[c] = answer[c]
    BY <1>4 DEF ChildStep, ChildExecve, ChildRuns, ChildWrites, Texts
  <2> QED BY <1>1, <2>1, <2>2, <2>3 DEF OwnConnection
<1>5. CASE AcceptConn
  <2>1. /\ Len(backlog) \in Nat \ {0} /\ conn' = backlog[1] /\ pc' = "request"
        /\ backlog \in Seq(1 .. conns)
        /\ UNCHANGED <<cpc, conns, clientVars, netVars>>
    BY <1>5 DEF AcceptConn, Queue
  <2>2. /\ Len(backlog') = Len(backlog) - 1
        /\ \A i \in 1 .. Len(backlog') : backlog'[i] = backlog[i + 1]
    BY <1>5, <2>1, HeadTailProperties DEF AcceptConn
  <2>3. Unread' => Unread
    BY <2>1, <2>2 DEF Unread, Served
  <2> QED BY <2>1, <2>2, <2>3 DEF Fresh, clientVars, netVars
<1>6. CASE OpenStep
  <2>1. CASE ListenStep
    BY <1>1, <1>6, <2>1 DEF OwnConnection, OpenStep, ListenStep, ListenLookup, ListenSocket,
         ListenBind, ListenListen, unix_error, connectVars, clientVars, localVars, netVars
  <2>2. CASE ConnectLookup \/ ConnectSocket \/ (ConnectConnect /\ UNCHANGED <<conns, backlog>>)
    <3>1. UNCHANGED <<conns, backlog, pc, conn, input, answer, script, req>> /\ (Unread' => FALSE)
      BY <1>6, <2>2 DEF OpenStep, ConnectLookup, ConnectSocket, ConnectConnect, Unread, Served,
           Listening, listenVars, localVars, clientVars, netVars
    <3> QED BY <3>1 DEF Fresh
  <2>3. CASE ConnectConnect /\ conns' = conns + 1 /\ backlog' = Append(backlog, conns + 1)
    <3>1. UNCHANGED <<pc, conn, input, answer>> /\ cpc' = "connected"
      BY <1>0, <1>6, <2>3 DEF OpenStep, ConnectConnect, listenVars, localVars, netVars
    <3>2. conns + 1 \in Conns /\ conns \in 0 .. ConnBound
      BY <2>3 DEF ConnectConnect, Queue, Conns
    <3>3. /\ Len(backlog') = Len(backlog) + 1
          /\ \A i \in 1 .. Len(backlog) : backlog'[i] = backlog[i]
          /\ backlog'[Len(backlog) + 1] = conns + 1
          /\ Len(backlog) \in Nat
      BY <2>3, AppendProperties DEF Queue
    <3>4. input[conns + 1] = <<>> /\ answer[conns + 1] = <<>>
      BY <3>2 DEF Fresh
    <3>5. \A i \in 1 .. Len(backlog') : answer'[backlog'[i]] = <<>>
      BY <3>1, <3>3, <3>4 DEF Fresh
    <3>6. \A c \in Conns : c > conns' => input'[c] = <<>> /\ answer'[c] = <<>>
      BY <1>0, <2>3, <3>1 DEF Fresh, Conns
    <3> QED BY <2>3, <3>1, <3>4, <3>5, <3>6 DEF Fresh
  <2> QED BY <1>6, <2>1, <2>2, <2>3 DEF OpenStep, ConnectStep, ConnectConnect
<1>7. ASSUME NEW r \in Requests, ClientAsks(r) PROVE Fresh'
  <2>1. /\ UNCHANGED <<conns, backlog, pc, conn, input, answer>> /\ cpc = "connected"
        /\ cpc' = "sending" /\ req' = r /\ script' = Script(r)
    BY <1>7 DEF ClientAsks, listenVars, localVars, netVars
  <2>2. <<>> \o Script(r) = Script(r)
    BY ScriptLines, ConcatEmptySeq
  <2>3. Unread' => Unread
    BY <2>1 DEF Unread, Served
  <2> QED BY <2>1, <2>2, <2>3 DEF Fresh
<1>8. CASE ClientSends
  <2>1. UNCHANGED <<conns, backlog, pc, conn, answer, req>> /\ cpc = "sending"
    BY <1>8 DEF ClientSends, listenVars, localVars
  <2>2. CASE script = <<>>
    <3>1. UNCHANGED <<script, input>> /\ cpc' = "waiting"
      BY <1>8, <2>2 DEF ClientSends
    <3> QED BY <2>1, <3>1 DEF Fresh, Unread, Served
  <2>3. CASE script # <<>>
    <3>1. /\ cpc' = cpc /\ script' = Tail(script)
          /\ input' = [input EXCEPT ![conns] = Append(@, Head(script))]
      BY <1>8, <2>3 DEF ClientSends
    <3>2. conns \in Conns /\ input[conns] \in Seq(Lines) /\ script \in Seq(Lines)
      BY <1>0, <2>1 DEF Texts, Served
    <3>3. input'[conns] \o script' = input[conns] \o script
      BY <2>3, <3>1, <3>2, MoveHead DEF Texts
    <3>4. \A c \in Conns : c > conns => input'[c] = input[c]
      BY <3>1, <3>2 DEF Texts, Conns
    <3>5. Unread' <=> Unread
      BY <2>1, <3>1 DEF Unread, Served
    <3> QED BY <2>1, <3>1, <3>3, <3>4, <3>5 DEF Fresh
  <2> QED BY <2>2, <2>3
<1>9. CASE ClientDone \/ ClientGivesUp
  BY <1>9 DEF ClientDone, ClientGivesUp, ClientCloses, Fresh, Unread, Served, listenVars, localVars
<1>10. CASE FileChanges \/ UNCHANGED vars
  BY <1>10 DEF FileChanges, Fresh, Unread, Served, vars, listenVars, connectVars, localVars,
       clientVars, netVars
<1> QED BY <1>2, <1>3, <1>4, <1>5, <1>6, <1>7, <1>8, <1>9, <1>10 DEF Next, Serve, Client

\* Where the server goes after what it is writing, and what will have been written.
Place == IF pc = "write" THEN after ELSE pc
Total == IF pc = "write" THEN answer[conn] \o wq ELSE answer[conn]

\* How far the answer t to request r has got at place p, with the child at q, the
\* file of size s and the faults of f.
Reached(p, t, q, r, s, f) ==
  /\ p # "close" => r.method = "GET"
  /\ p \in {"header", "headers", "stat", "serve_static", "serve_dynamic"} => t = <<>>
  /\ p \in {"open", "mmap"} => t = <<<<"head", s>>>>
  /\ p = "fork" \/ (p = "wait" /\ q # "zombie") => t = Begun
  /\ p = "close" \/ (p = "wait" /\ q = "zombie") => t \in Answers(r, f)

\* The server reads the request of the client it serves, and answers that.
Answering ==
  /\ Served /\ conn = conns /\ pc # "request" =>
       /\ cpc # "connected" /\ asked = req
       /\ Reached(Place, Total, cgi, asked, size, faults)
  /\ pc = "wait" => cgi \in {"forked", "running", "zombie"}
  /\ Served /\ hung[conns] => cpc # "connected" /\ answer[conns] \in Answers(req, faults)

LEMMA AnswersGrow ==
  ASSUME NEW f, NEW g, f \subseteq g, NEW r PROVE Answers(r, f) \subseteq Answers(r, g)
BY DEF Answers

LEMMA AnswerCases ==
  ASSUME NEW r, NEW f
  PROVE  /\ r.method # "GET" => Error(501) \in Answers(r, f)
         /\ r.method = "GET" /\ r.target = "missing" => Error(404) \in Answers(r, f)
         /\ r.method = "GET" /\ r.target = "page" /\ "file" \in f => Error(404) \in Answers(r, f)
         /\ r.method = "GET" /\ r.target = "private" => Error(403) \in Answers(r, f)
         /\ r.method = "GET" /\ r.target = "page" =>
              \A n \in Sizes : <<<<"head", n>>, <<"body", n>>>> \in Answers(r, f)
         /\ r.method = "GET" /\ r.target = "prog" => Begun \o <<<<"cgi", 0>>>> \in Answers(r, f)
         /\ r.method = "GET" /\ r.target = "bare" => Begun \in Answers(r, f)
         /\ r.method = "GET" /\ r.target \in {"prog", "bare"} /\ "exec" \in f =>
              Begun \o (IF Buffered THEN <<<<"log", 0>>>> ELSE <<>>) \in Answers(r, f)
<1>1. CASE r.method # "GET"
  BY <1>1 DEF Answers
<1>2. CASE r.method = "GET" /\ r.target \in {"missing", "private"}
  BY <1>2 DEF Answers
<1>3. CASE r.method = "GET" /\ r.target = "page"
  BY <1>3 DEF Answers
<1>4. CASE r.method = "GET" /\ r.target = "prog"
  <2>1. Answers(r, f) = {Begun \o <<<<"cgi", 0>>>>} \cup (IF "exec" \in f
                                     THEN {Begun \o (IF Buffered THEN <<<<"log", 0>>>> ELSE <<>>)}
                                     ELSE {})
    BY <1>4, SMTT(30) DEF Answers, Begun
  <2> QED BY <1>4, <2>1
<1>5. CASE r.method = "GET" /\ r.target = "bare"
  <2>1. Answers(r, f) = {Begun} \cup (IF "exec" \in f
                                     THEN {Begun \o (IF Buffered THEN <<<<"log", 0>>>> ELSE <<>>)}
                                     ELSE {})
    BY <1>5 DEF Answers, Begun
  <2> QED BY <1>5, <2>1
<1> QED BY <1>1, <1>2, <1>3, <1>4, <1>5

\* Faults that come to pass, and clients that go on, take nothing from an answer.
LEMMA AnsweringUndisturbed ==
  ASSUME Queue, Answering, faults \subseteq faults',
         UNCHANGED <<pc, conn, conns, asked, size, wq, after, cgi, answer, hung>>,
         Served' => Served /\ (cpc # "connected" => cpc' # "connected" /\ req' = req)
  PROVE  Answering'
<1>1. \A r : Answers(r, faults) \subseteq Answers(r, faults')
  BY AnswersGrow
<1>2. Place' = Place /\ Total' = Total
  BY DEF Place, Total
<1>3. \A p, t, q, r, s : Reached(p, t, q, r, s, faults) => Reached(p, t, q, r, s, faults')
  BY <1>1 DEF Reached
<1> QED BY <1>1, <1>2, <1>3 DEF Answering

LEMMA AnsweringByRequestLine ==
  ASSUME Resources, Queue, Texts, Fresh, Answering, RequestLine PROVE Answering'
<1>1. PICK r \in Requests : /\ pc = "request" /\ input[conn] # <<>>
                            /\ Head(input[conn]) = <<"request", r>> /\ asked' = r
                            /\ IF r.method = "GET" THEN pc' = "header"
                               ELSE pc' = "write" /\ wq' = Error(501) /\ after' = "close"
  BY DEF RequestLine, ReadLine, Send, Goto
<1>2. UNCHANGED <<cpc, conns, conn, req, answer, hung, faults, cgi, size>> /\ pc' # "wait"
  BY DEF RequestLine, ReadLine, Send, Goto, connectVars, clientVars
<1>3. CASE Served /\ conn = conns
  <2>1. conns \in Conns /\ Unread
    BY SocketsAssumption, <1>1, <1>3 DEF Unread, Queue, Served, Conns
  <2>2. cpc # "connected" /\ input[conns] \o script = Script(req) /\ req \in Requests
    BY <1>1, <1>3, <2>1 DEF Fresh, Texts
  <2>3. input[conns] \in Seq(Lines) /\ script \in Seq(Lines)
    BY <2>1 DEF Texts
  <2>4. Head(input[conns]) = Head(Script(req))
    <3>1. Head(input[conns] \o script) = Head(input[conns])
      BY <1>1, <1>3, <2>3, HeadFirst
    <3> QED BY <2>2, <3>1
  <2>5. r = req
    BY <1>1, <1>3, <2>2, <2>4, ScriptLines
  <2>6. answer[conn] = <<>>
    BY <1>1 DEF Fresh
  <2>7. Reached(Place, Total, cgi, asked, size, faults)'
    <3>1. CASE r.method = "GET"
      BY <1>1, <1>2, <2>6, <3>1 DEF Place, Total, Reached
    <3>2. CASE r.method # "GET"
      <4>1. answer[conn] \o Error(501) = Error(501)
        BY <2>6, ErrorItems, Pieces
      <4>2. Error(501) \in Answers(r, faults)
        BY <3>2, AnswerCases
      <4>3. Place' = "close" /\ Total' = Error(501)
        BY <1>1, <1>2, <3>2, <4>1 DEF Place, Total
      <4> QED BY <1>1, <1>2, <4>2, <4>3 DEF Reached
    <3> QED BY <3>1, <3>2
  <2> QED BY <1>1, <1>2, <2>2, <2>5, <2>7 DEF Answering, Served
<1>4. CASE ~(Served /\ conn = conns)
  BY <1>2, <1>4 DEF Answering, Served
<1> QED BY <1>3, <1>4

\* Steps in which the server goes on with the answer.
LEMMA AnsweringByServing ==
  ASSUME Resources, Queue, Known, Faultless, Texts, Answering,
         Stat \/ ServeStatic \/ MmapFile \/ ServeDynamic \/ Fork \/ Wait \/ Header
  PROVE  Answering'
<1>1. /\ UNCHANGED <<cpc, conns, conn, req, answer, hung, faults, asked>>
      /\ pc \in Serving /\ pc # "request" /\ pc' # "request"
      /\ pc # "write" /\ (pc' = "wait" => cgi' = "forked")
  BY DEF Stat, ServeStatic, MmapFile, ServeDynamic, Fork, Wait, Header, ReadLine, Send, Goto,
         unix_error, Serving, connectVars, clientVars, netVars, localVars
<1>2. SUFFICES ASSUME Served, conn = conns,
                      Reached(Place, Total, cgi, asked, size, faults)
               PROVE  Reached(Place, Total, cgi, asked, size, faults)'
  BY <1>1, <1>2 DEF Answering, Served
<1>3. Place = pc /\ Total = answer[conn]
  BY <1>1 DEF Place, Total
<1>4. asked.target \in Targets
  BY TinyAssumption DEF Faultless, NoRequest, Targets
<1>5. CASE Stat
  <2>1. answer[conn] = <<>> /\ asked.method = "GET"
    BY <1>2, <1>3, <1>5 DEF Reached, Stat
  <2>2. CASE pc' \in {"serve_static", "serve_dynamic"}
    BY <1>1, <2>1, <2>2 DEF Reached, Place, Total
  <2>3. CASE pc' = "write" /\ wq' = Error(404) /\ after' = "close" /\ StatSize(asked.target) = NONE
    <3>1. <<>> \o Error(404) = Error(404)
      BY ErrorItems, Pieces
    <3>2. asked.target = "missing" \/ (asked.target = "page" /\ "file" \in faults)
      BY <1>4, <2>3 DEF StatSize, Targets, NONE, Faultless
    <3>3. Error(404) \in Answers(asked, faults)
      BY <2>1, <3>2, AnswerCases
    <3> QED BY <1>1, <2>1, <2>3, <3>1, <3>3 DEF Reached, Place, Total
  <2>4. CASE pc' = "write" /\ wq' = Error(403) /\ after' = "close" /\ ~Readable(asked.target)
    <3>1. <<>> \o Error(403) = Error(403)
      BY ErrorItems, Pieces
    <3>2. Error(403) \in Answers(asked, faults)
      BY <2>1, <2>4, AnswerCases DEF Readable
    <3> QED BY <1>1, <2>1, <2>4, <3>1, <3>2 DEF Reached, Place, Total
  <2> QED BY <1>5, <2>2, <2>3, <2>4 DEF Stat, Send, Goto
<1>6. CASE ServeStatic
  <2>1. pc = "serve_static" /\ pc' = "write" /\ wq' = <<<<"head", size>>>> /\ after' = "open"
        /\ size' = size /\ size \in Int
    BY <1>6 DEF ServeStatic, Send, Goto, Known, Sizes
  <2>2. <<>> \o wq' = wq'
    BY <2>1, Pieces
  <2> QED BY <1>1, <1>2, <1>3, <2>1, <2>2 DEF Reached, Place, Total
<1>7. CASE MmapFile
  <2>1. pc = "mmap" /\ size' = size /\ size \in Sizes
        /\ answer[conn] = <<<<"head", size>>>> /\ asked.method = "GET"
    BY <1>2, <1>3, <1>7 DEF MmapFile, Known, Reached
  <2>2. CASE size = 0
    BY <1>1, <1>2, <1>3, <1>7, <2>1, <2>2 DEF MmapFile, unix_error, Reached, Place, Total
  <2>3. CASE size # 0
    <3>1. pc' = "write" /\ wq' = <<<<"body", size>>>> /\ after' = "close"
      BY <1>7, <2>3 DEF MmapFile
    <3>2. answer[conn] \o wq' = <<<<"head", size>>, <<"body", size>>>>
      BY <2>1, <3>1, Pieces DEF Sizes
    <3>3. asked.target = "page"
      BY <2>1, <2>3 DEF Known
    <3>4. answer[conn] \o wq' \in Answers(asked, faults)
      BY <2>1, <3>2, <3>3, AnswerCases
    <3> QED BY <1>1, <3>1, <3>4 DEF Reached, Place, Total
  <2> QED BY <2>2, <2>3
<1>8. CASE ServeDynamic
  <2>1. pc = "serve_dynamic" /\ pc' = "write" /\ wq' = Begun /\ after' = "fork"
    BY <1>8 DEF ServeDynamic, Send, Goto, Begun
  <2>2. <<>> \o Begun = Begun
    BY Pieces
  <2> QED BY <1>1, <1>2, <1>3, <2>1, <2>2 DEF Reached, Place, Total
<1>9. CASE Fork \/ Wait
  BY <1>1, <1>2, <1>3, <1>9 DEF Fork, Wait, Goto, Reached, Place, Total
<1>10. CASE Header
  BY <1>1, <1>2, <1>3, <1>10 DEF Header, Goto, Reached, Place, Total
<1> QED BY <1>5, <1>6, <1>7, <1>8, <1>9, <1>10

LEMMA AnsweringByWriting ==
  ASSUME Resources, Queue, Texts, Answering, Write PROVE Answering'
<1>1. /\ UNCHANGED <<cpc, conns, conn, req, hung, faults, asked, size, cgi, after, left>>
      /\ pc = "write" /\ wq # <<>> /\ wq' = Tail(wq) /\ conn \in Conns
      /\ answer' = [answer EXCEPT ![conn] = IF left[conn] THEN @ ELSE Append(@, Head(wq))]
      /\ pc' = IF Len(wq) = 1 THEN after ELSE "write"
      /\ after \in {"close", "open", "fork"}
  BY SocketsAssumption DEF Write, Goto, Resources, Queue, Serving, Conns, Texts, connectVars,
     clientVars
<1>2. hung[conns] /\ Served => UNCHANGED answer[conns]
  BY SocketsAssumption, <1>1 DEF Queue, Served, Conns, Texts
<1>3. Served /\ conn = conns => Place' = Place /\ Total' = Total
  <2>1. SUFFICES ASSUME Served, conn = conns PROVE Place' = Place /\ Total' = Total
    OBVIOUS
  <2>2. answer[conn] \in Seq(Items) /\ wq \in Seq(Items) /\ wq # <<>>
    BY <1>1 DEF Texts
  <2>3. answer'[conn] = Append(answer[conn], Head(wq))
    BY <1>1, <2>1 DEF Queue, Texts
  <2>4. CASE Len(wq) = 1
    <3>1. answer'[conn] = answer[conn] \o wq
      BY <1>1, <2>2, <2>3, <2>4, MoveHead
    <3> QED BY <1>1, <2>4, <3>1 DEF Place, Total
  <2>5. CASE Len(wq) # 1
    <3>1. Append(answer[conn], Head(wq)) \o Tail(wq) = answer[conn] \o wq
      BY <2>2, MoveHead
    <3>2. answer'[conn] \o wq' = answer[conn] \o wq
      BY <1>1, <2>3, <3>1
    <3> QED BY <1>1, <2>5, <3>2 DEF Place, Total
  <2> QED BY <2>4, <2>5
<1> QED BY <1>1, <1>2, <1>3 DEF Answering, Served

\* Unless its end is closed the client gets what the child writes.
LEMMA AnsweringByChild ==
  ASSUME Resources, Queue, Known, Texts, Answering, ChildStep PROVE Answering'
<1>1. /\ UNCHANGED <<cpc, conns, conn, req, hung, asked, size, pc, after, wq, left>>
      /\ pc = "wait" /\ conn \in Conns /\ faults \subseteq faults'
      /\ cgi' \in {"running", "zombie"}
      /\ \A c \in Conns : c # conn => answer'[c] = answer[c]
  <2>1. pc = "wait" /\ conn \in Conns
    BY SocketsAssumption DEF ChildStep, ChildExecve, ChildRuns, Resources, Queue, Serving, Conns
  <2>2. \A c \in Conns : c # conn => answer'[c] = answer[c]
    BY DEF ChildStep, ChildExecve, ChildRuns, ChildWrites, Texts
  <2> QED BY <2>1, <2>2 DEF ChildStep, ChildExecve, ChildRuns, Fault, listenVars, connectVars,
          clientVars
<1>2. \A r : Answers(r, faults) \subseteq Answers(r, faults')
  BY <1>1, AnswersGrow
<1>3. Served /\ hung[conns] => cpc # "connected" /\ answer'[conns] \in Answers(req, faults')
  BY SocketsAssumption, <1>1, <1>2 DEF Answering, Queue, Served, Conns
<1>4. ASSUME Served, conn = conns
      PROVE  Reached("wait", answer'[conn], cgi', asked, size, faults')
  <2>1. answer[conn] \in Seq(Items) /\ ~left[conn] /\ asked.target \in {"prog", "bare"}
    BY <1>1, <1>4 DEF Texts, Queue, Known
  <2>2. Reached("wait", answer[conn], cgi, asked, size, faults)
    BY <1>1, <1>4 DEF Answering, Place, Total
  <2>3. cgi # "zombie" /\ answer[conn] = Begun /\ asked.method = "GET"
    BY <2>2 DEF ChildStep, ChildExecve, ChildRuns, Reached
  <2>4. CASE cgi' = "running"
    BY <2>3, <2>4 DEF ChildStep, ChildExecve, ChildRuns, Reached
  <2>5. answer \in [Conns -> Seq(Items)] /\ conn \in Conns
    BY <1>1 DEF Texts
  <2>6. CASE ChildExecve /\ cgi' = "zombie"
    <3>1. answer'[conn] = Begun \o (IF Buffered THEN <<<<"log", 0>>>> ELSE <<>>)
      BY <2>1, <2>3, <2>5, <2>6 DEF ChildExecve, ChildWrites
    <3>2. "exec" \in faults' /\ asked.target \in {"prog", "bare"}
      BY <2>1, <2>6 DEF ChildExecve, Fault
    <3>3. answer'[conn] \in Answers(asked, faults')
      BY <2>3, <3>1, <3>2, AnswerCases, SMTT(30)
    <3> QED BY <2>3, <2>6, <3>3 DEF Reached
  <2>7. CASE ChildRuns
    <3>1. answer'[conn] = Begun \o (IF asked.target = "prog" THEN <<<<"cgi", 0>>>> ELSE <<>>)
      BY <2>1, <2>3, <2>5, <2>7 DEF ChildRuns, ChildWrites
    <3>2. Begun \o <<>> = Begun
      BY Pieces
    <3>3. answer'[conn] \in Answers(asked, faults')
      <4>1. CASE asked.target = "prog"
        <5>1. answer'[conn] = Begun \o <<<<"cgi", 0>>>>
          BY <3>1, <4>1
        <5>2. Begun \o <<<<"cgi", 0>>>> \in Answers(asked, faults')
          BY <2>3, <4>1, AnswerCases
        <5> QED BY <5>1, <5>2
      <4>2. CASE asked.target = "bare"
        <5>1. answer'[conn] = Begun
          BY <3>1, <3>2, <4>2
        <5>2. Begun \in Answers(asked, faults')
          BY <2>3, <4>2, AnswerCases
        <5> QED BY <5>1, <5>2
      <4> QED BY <2>1, <4>1, <4>2
    <3>4. cgi' = "zombie"
      BY <2>7 DEF ChildRuns
    <3> QED BY <2>3, <3>3, <3>4 DEF Reached
  <2> QED BY <2>4, <2>6, <2>7 DEF ChildStep, ChildExecve
<1>5. Served' /\ conn' = conns' => cpc' # "connected" /\ asked' = req'
  BY <1>1 DEF Answering, Served
<1>6. Place' = "wait" /\ Total' = answer'[conn]
  BY <1>1 DEF Place, Total
<1> QED BY <1>1, <1>3, <1>4, <1>5, <1>6 DEF Answering, Served

LEMMA AnsweringBySteps ==
  ASSUME Resources, Queue, Known, Faultless, Texts, Fresh, Answering, [Next]_vars
  PROVE  Answering'
<1> USE SocketsAssumption
<1>1. CASE OpenStep
  <2>1. UNCHANGED <<answer, hung, conn, req, asked, size, wq, after, cgi>>
    BY <1>1 DEF OpenStep, localVars, clientVars, netVars
  <2>2. CASE ListenStep
    <3>1. conn = 0 /\ pc' # "wait" /\ UNCHANGED <<cpc, conns>> /\ faults \subseteq faults'
      BY <2>2 DEF ListenStep, ListenLookup, ListenSocket, ListenBind, ListenListen, unix_error,
           Fault, connectVars, Queue, Serving
    <3>2. \A r : Answers(r, faults) \subseteq Answers(r, faults')
      BY <3>1, AnswersGrow
    <3> QED BY <2>1, <3>1, <3>2 DEF Answering, Served, Queue
  <2>3. CASE ConnectStep
    <3>1. UNCHANGED pc /\ (Served' => conns' = conns + 1 /\ conns + 1 \in Conns)
      BY <2>3 DEF ConnectStep, ConnectLookup, ConnectSocket, ConnectConnect, Served, listenVars,
           Queue, Conns
    <3>2. Served' => ~hung[conns'] /\ conn # conns'
      BY <3>1 DEF Queue
    <3> QED BY <2>1, <3>1, <3>2 DEF Answering
  <2> QED BY <1>1, <2>2, <2>3 DEF OpenStep
<1>2. CASE AcceptConn
  BY <1>2 DEF AcceptConn, Answering, Served, clientVars, netVars
<1>3. CASE RequestEof \/ HeaderStale
  <2>1. /\ UNCHANGED <<cpc, conns, conn, req, answer, hung, faults>> /\ pc' # "wait"
        /\ left[conn]
    BY <1>3 DEF RequestEof, HeaderStale, AtEof, Goto, connectVars, localVars, clientVars, netVars
  <2>2. ~(Served /\ conn = conns)
    BY <2>1 DEF Queue
  <2> QED BY <2>1, <2>2 DEF Answering, Served
<1>4. CASE RequestLine
  BY <1>4, AnsweringByRequestLine
<1>5. CASE Stat \/ ServeStatic \/ MmapFile \/ ServeDynamic \/ Fork \/ Wait \/ Header
  BY <1>5, AnsweringByServing
<1>6. CASE OpenFile
  <2>1. /\ UNCHANGED <<cpc, conns, conn, req, answer, hung, faults, asked, size, cgi>>
        /\ pc = "open" /\ pc' \in {"open", "mmap"}
    BY <1>6 DEF OpenFile, unix_error, connectVars, localVars, clientVars, netVars
  <2> QED BY <2>1 DEF Answering, Served, Reached, Place, Total
<1>7. CASE Write
  BY <1>7, AnsweringByWriting
<1>8. CASE CloseConn
  <2>1. /\ UNCHANGED <<cpc, conns, req, answer, faults>> /\ pc = "close" /\ pc' = "accept"
        /\ conn \in Conns /\ conn' = 0 /\ hung' = [hung EXCEPT ![conn] = TRUE]
    BY <1>8 DEF CloseConn, connectVars, clientVars, Queue, Serving, Conns
  <2>2. Served /\ conn = conns => cpc # "connected" /\ answer[conns] \in Answers(req, faults)
    BY <2>1 DEF Answering, Reached, Place, Total
  <2>3. Served /\ conn # conns => hung'[conns] = hung[conns]
    <3>1. Served => conns \in Conns
      BY DEF Queue, Served, Conns
    <3> QED BY <2>1, <3>1 DEF Queue
  <2>4. Served => conns # 0
    BY DEF Queue
  <2> QED BY <2>1, <2>2, <2>3, <2>4 DEF Answering, Served
<1>9. CASE Breaks
  <2>1. UNCHANGED <<connectVars, localVars, clientVars, netVars, pc>> /\ faults \subseteq faults'
    BY <1>9 DEF Breaks, ReadReset, WriteBroken, WriteFault, WrapperFails, unix_error, Fault
  <2> QED BY <2>1, AnsweringUndisturbed DEF Served, connectVars, localVars, clientVars, netVars
<1>10. CASE ChildStep
  BY <1>10, AnsweringByChild
<1>11. CASE \E r \in Requests : ClientAsks(r)
  BY <1>11, AnsweringUndisturbed DEF ClientAsks, Served, listenVars, localVars, netVars
<1>12. CASE ClientSends \/ ClientDone \/ ClientGivesUp
  BY <1>12, AnsweringUndisturbed
     DEF ClientSends, ClientDone, ClientGivesUp, ClientCloses, Fault, Served, listenVars, localVars
<1>13. CASE FileChanges \/ UNCHANGED vars
  BY <1>13, AnsweringUndisturbed DEF FileChanges, Fault, Served, vars, listenVars, connectVars,
     localVars, clientVars, netVars
<1> QED BY <1>1, <1>2, <1>3, <1>4, <1>5, <1>6, <1>7, <1>8, <1>9, <1>10, <1>11, <1>12, <1>13
        DEF Next, Serve, Client

-----------------------------------------------------------------------------
(* The theorems.                                                           *)

IInv == Resources /\ Queue /\ Known /\ Faultless /\ Texts /\ Fresh /\ Answering

LEMMA IInvInit == Init => IInv
<1> SUFFICES ASSUME Init PROVE IInv
  OBVIOUS
<1> USE SocketsAssumption, TinyAssumption DEF Init, SocketsInit
<1>1. Resources
  BY DEF Resources, FdsAt, Starting, Serving, Clients, Up
<1>2. Queue
  BY DEF Queue, Conns, Serving, Served
<1>3. Known /\ Faultless
  BY DEF Known, Faultless, SurvivesRequests, Up, Sizes, NONE
<1>4. Texts
  BY DEF Texts, Conns, Served
<1>5. Fresh
  BY DEF Fresh, Unread, Conns, Served
<1>6. Answering
  BY DEF Answering, Served
<1> QED BY <1>1, <1>2, <1>3, <1>4, <1>5, <1>6 DEF IInv

\* The whole invariant, from which the theorems below follow.
THEOREM TinyInvariant == Spec => []IInv
<1>1. IInv /\ [Next]_vars => IInv'
  BY ResourcesBySteps, QueueBySteps, KnownBySteps, FaultlessBySteps, TextsBySteps, FreshBySteps,
     AnsweringBySteps DEF IInv
<1> QED BY IInvInit, <1>1, PTL DEF Spec

\* Between two connections the server keeps nothing open and no child, and a
\* client that could not connect keeps no socket (main and open_clientfd).
THEOREM NothingLeakedHolds == Spec => []NothingLeaked
<1>1. IInv => NothingLeaked
  BY DEF IInv, Resources, FdsAt, NothingLeaked, Serving
<1> QED BY TinyInvariant, <1>1, PTL

\* Nothing a request asks for ends the server but the empty file (doit, serve_static).
THEOREM SurvivesRequestsHolds == Spec => []SurvivesRequests
<1>1. IInv => SurvivesRequests
  BY DEF IInv, Faultless
<1> QED BY TinyInvariant, <1>1, PTL

\* A client that stays gets one answer, the one its request calls for, whole (doit,
\* serve_static, serve_dynamic).
THEOREM AnswersWholeHolds == Spec => []AnswersWhole
<1>1. IInv => AnswersWhole
  BY DEF IInv, Answering, AnswersWhole, Served
<1> QED BY TinyInvariant, <1>1, PTL
-----------------------------------------------------------------------------
(* Nobody waits for each other.  Of "the server comes back to accept" this *)
(* leaves out the fairness only: the server waits for a client that has    *)
(* still to write, or for its child, never for one that waits for it; and  *)
(* between two connections it takes a bounded number of steps.             *)

HeaderLines == {<<"line">>, <<"empty">>}

HeadersOnly(t) == \A i \in 1 .. Len(t) : t[i] \in HeaderLines

RequestFirst(t) ==
  /\ t # <<>> => \E r \in Requests : t[1] = <<"request", r>>
  /\ \A i \in 2 .. Len(t) : t[i] \in HeaderLines

EndsEmpty(t) == t # <<>> /\ t[Len(t)] = <<"empty">> /\ HeadersOnly(t)

LEMMA ScriptInOrder ==
  ASSUME NEW r \in Requests
  PROVE  RequestFirst(Script(r)) /\ EndsEmpty(Tail(Script(r)))
<1> DEFINE a == <<<<"request", r>>>>
           b == [i \in 1 .. r.headers |-> <<"line">>]
           c == <<<<"empty">>>>
           n == r.headers
<1>1. n \in Nat /\ Script(r) = (a \o b) \o c
  BY TinyAssumption DEF Script
<1>2. a \in Seq(Lines) /\ c \in Seq(Lines) /\ Len(a) = 1 /\ a[1] = <<"request", r>>
      /\ Len(c) = 1 /\ c[1] = <<"empty">>
  BY DEF Lines
<1>3. b \in Seq(Lines) /\ Len(b) = n /\ \A i \in 1 .. n : b[i] = <<"line">>
  <2>1. <<"line">> \in Lines
    BY DEF Lines
  <2>2. b \in [1 .. n -> Lines]
    BY <2>1
  <2>3. b \in Seq(Lines)
    BY <1>1, <2>2, SeqDef
  <2>4. \A i \in 1 .. n : b[i] = <<"line">>
    OBVIOUS
  <2>5. DOMAIN b = 1 .. n
    OBVIOUS
  <2> HIDE DEF b, n
  <2>6. Len(b) = n
    BY <1>1, <2>3, <2>5
  <2> QED BY <2>3, <2>4, <2>6
<1> HIDE DEF a, b, c, n
<1> DEFINE d == a \o b
           s == d \o c
           t == Tail(s)
<1>4. /\ d \in Seq(Lines) /\ Len(d) = 1 + n
      /\ \A i \in 1 .. 1 + n : d[i] = IF i <= 1 THEN a[i] ELSE b[i - 1]
  <2>1. /\ d \in Seq(Lines) /\ Len(d) = Len(a) + Len(b)
        /\ \A i \in 1 .. Len(a) + Len(b) : d[i] = IF i <= Len(a) THEN a[i] ELSE b[i - Len(a)]
    BY <1>2, <1>3, ConcatProperties
  <2> HIDE DEF d
  <2> QED BY <1>2, <1>3, <2>1
<1> HIDE DEF d
<1>5. /\ s \in Seq(Lines) /\ Len(s) = (1 + n) + 1
      /\ \A i \in 1 .. (1 + n) + 1 : s[i] = IF i <= 1 + n THEN d[i] ELSE c[i - (1 + n)]
  <2>1. /\ s \in Seq(Lines) /\ Len(s) = Len(d) + Len(c)
        /\ \A i \in 1 .. Len(d) + Len(c) : s[i] = IF i <= Len(d) THEN d[i] ELSE c[i - Len(d)]
    BY <1>2, <1>4, ConcatProperties
  <2> HIDE DEF s
  <2> QED BY <1>2, <1>4, <2>1
<1> HIDE DEF s
<1>6. s # <<>> /\ s[1] = <<"request", r>>
  BY <1>1, <1>2, <1>4, <1>5
<1>7. \A i \in 2 .. Len(s) : s[i] = (IF i <= 1 + n THEN <<"line">> ELSE <<"empty">>)
  <2>1. ASSUME NEW i \in 2 .. 1 + n PROVE s[i] = <<"line">>
    <3> DEFINE j == i - 1
    <3>1. i \in 1 .. (1 + n) + 1 /\ i \in 1 .. 1 + n /\ i <= 1 + n /\ ~(i <= 1) /\ j \in 1 .. n
      BY <1>1
    <3>2. s[i] = d[i] /\ d[i] = b[j]
      BY <1>4, <1>5, <3>1
    <3> HIDE DEF j
    <3> QED BY <1>3, <3>1, <3>2
  <2>2. s[(1 + n) + 1] = <<"empty">>
    BY <1>1, <1>2, <1>5
  <2>3. Len(s) = (1 + n) + 1
    BY <1>5
  <2>4. \A i \in 2 .. Len(s) : (i <= 1 + n => i \in 2 .. 1 + n) /\ (~(i <= 1 + n) => i = (1 + n) + 1)
    BY <1>1, <2>3
  <2> QED BY <2>1, <2>2, <2>4, Zenon
<1>8. t \in Seq(Lines) /\ Len(t) = 1 + n /\ \A i \in 1 .. 1 + n : t[i] = s[i + 1]
  BY <1>1, <1>5, <1>6, HeadTailProperties
<1> HIDE DEF t
<1>9. RequestFirst(s)
  BY <1>6, <1>7 DEF RequestFirst, HeaderLines
<1>10. EndsEmpty(t)
  <2>1. \A i \in 1 .. 1 + n : t[i] = (IF i <= n THEN <<"line">> ELSE <<"empty">>)
    BY <1>1, <1>5, <1>7, <1>8
  <2>2. t # <<>>
    BY <1>1, <1>8
  <2> QED BY <1>1, <1>8, <2>1, <2>2 DEF EndsEmpty, HeadersOnly, HeaderLines
<1> QED BY <1>1, <1>9, <1>10 DEF t, s, d

LEMMA TailConcat ==
  ASSUME NEW S, NEW s \in Seq(S), NEW t \in Seq(S), s # <<>>
  PROVE  Tail(s) \o t = Tail(s \o t) /\ s \o t # <<>> /\ (s \o t)[1] = s[1] /\ Head(s) = s[1]
<1> DEFINE u == s \o t
           v == Tail(s) \o t
           w == Tail(u)
<1>1. /\ Len(s) \in Nat \ {0} /\ Len(t) \in Nat /\ Head(s) = s[1]
      /\ Tail(s) \in Seq(S) /\ Len(Tail(s)) = Len(s) - 1
      /\ \A i \in 1 .. Len(s) - 1 : Tail(s)[i] = s[i + 1]
  BY HeadTailProperties
<1>2. /\ u \in Seq(S) /\ Len(u) = Len(s) + Len(t)
      /\ \A i \in 1 .. Len(s) + Len(t) : u[i] = IF i <= Len(s) THEN s[i] ELSE t[i - Len(s)]
  BY ConcatProperties
<1>3. /\ v \in Seq(S) /\ Len(v) = (Len(s) - 1) + Len(t)
      /\ \A i \in 1 .. (Len(s) - 1) + Len(t) :
           v[i] = IF i <= Len(s) - 1 THEN Tail(s)[i] ELSE t[i - (Len(s) - 1)]
  BY <1>1, ConcatProperties
<1> HIDE DEF u, v
<1>4. u # <<>> /\ u[1] = s[1]
  BY <1>1, <1>2
<1>5. w \in Seq(S) /\ Len(w) = Len(u) - 1 /\ \A i \in 1 .. Len(u) - 1 : w[i] = u[i + 1]
  BY <1>2, <1>4, HeadTailProperties
<1> HIDE DEF w
<1>6. \A i \in 1 .. Len(v) : v[i] = w[i]
  <2>1. ASSUME NEW i \in 1 .. Len(v) PROVE v[i] = w[i]
    <3>1. i + 1 \in 1 .. Len(s) + Len(t) /\ w[i] = u[i + 1]
      BY <1>1, <1>2, <1>3, <1>5
    <3>2. CASE i <= Len(s) - 1
      BY <1>1, <1>2, <1>3, <3>1, <3>2
    <3>3. CASE ~(i <= Len(s) - 1)
      <4>1. i - (Len(s) - 1) = (i + 1) - Len(s) /\ ~(i + 1 <= Len(s))
        BY <1>1, <3>3
      <4> QED BY <1>1, <1>2, <1>3, <3>1, <3>3, <4>1
    <3> QED BY <3>2, <3>3
  <2> QED BY <2>1
<1>7. v = w
  BY <1>1, <1>2, <1>3, <1>5, <1>6, SeqEqual
<1> QED BY <1>1, <1>4, <1>7 DEF u, v, w

\* The first part of lines that are in order.
LEMMA FirstPart ==
  ASSUME NEW S, NEW s \in Seq(S), NEW t \in Seq(S)
  PROVE  /\ RequestFirst(s \o t) => RequestFirst(s)
         /\ HeadersOnly(s \o t) => HeadersOnly(s)
<1> DEFINE u == s \o t
<1>1. /\ Len(u) = Len(s) + Len(t) /\ Len(s) \in Nat /\ Len(t) \in Nat /\ u \in Seq(S)
      /\ \A i \in 1 .. Len(s) : u[i] = s[i]
  BY ConcatProperties
<1> HIDE DEF u
<1>2. s # <<>> => u # <<>> /\ u[1] = s[1]
  BY <1>1
<1>3. RequestFirst(u) => RequestFirst(s)
  BY <1>1, <1>2 DEF RequestFirst
<1>4. HeadersOnly(u) => HeadersOnly(s)
  BY <1>1 DEF HeadersOnly
<1> QED BY <1>3, <1>4 DEF u

\* What is left when the first of them has been read.
LEMMA OneRead ==
  ASSUME NEW S, NEW t \in Seq(S), t # <<>>
  PROVE  /\ RequestFirst(t) \/ HeadersOnly(t) => HeadersOnly(Tail(t))
         /\ EndsEmpty(t) /\ t[1] # <<"empty">> => EndsEmpty(Tail(t))
<1> DEFINE u == Tail(t)
<1>1. /\ Len(t) \in Nat \ {0} /\ u \in Seq(S) /\ Len(u) = Len(t) - 1
      /\ \A i \in 1 .. Len(t) - 1 : u[i] = t[i + 1]
  BY HeadTailProperties
<1> HIDE DEF u
<1>2. RequestFirst(t) \/ HeadersOnly(t) => HeadersOnly(u)
  BY <1>1 DEF RequestFirst, HeadersOnly
<1>3. ASSUME EndsEmpty(t), t[1] # <<"empty">> PROVE EndsEmpty(u)
  <2>1. Len(t) # 1 /\ t[Len(t)] = <<"empty">> /\ HeadersOnly(t)
    BY <1>3 DEF EndsEmpty
  <2>2. u # <<>> /\ u[Len(u)] = t[Len(t)]
    BY <1>1, <2>1
  <2> QED BY <1>2, <2>1, <2>2 DEF EndsEmpty
<1> QED BY <1>2, <1>3 DEF u

\* The lines on each connection are a request's, as far as they have been read; the clients
\* but the last one have closed; and of the one that is served the server has still to
\* get the empty line.
InOrder ==
  /\ \A i \in 1 .. Len(backlog) : RequestFirst(input[backlog[i]])
  /\ pc = "request" => RequestFirst(input[conn])
  /\ pc \in {"header", "headers"} => HeadersOnly(input[conn])
  /\ \A c \in Conns : c <= conns => left[c] \/ (Served /\ c = conns)
  /\ cpc = "waiting" => script = <<>>
  /\ Served /\ conn = conns /\ pc \in {"header", "headers"} => EndsEmpty(input[conn] \o script)

\* A step that moves no line and closes nothing.
Aside ==
  /\ UNCHANGED <<conns, backlog, input, left, script>>
  /\ Served' <=> Served
  /\ cpc' = "waiting" => cpc = "waiting"
  /\ pc' \in {"request", "header", "headers"} =>
       conn' = conn /\ (pc' = pc \/ (pc' # "request" /\ pc = "header"))

LEMMA InOrderAside == ASSUME InOrder, Aside PROVE InOrder'
BY DEF InOrder, Aside

LEMMA InOrderBySteps ==
  ASSUME IInv, IInv', InOrder, [Next]_vars PROVE InOrder'
<1> USE SocketsAssumption
<1>0. /\ conns \in Nat /\ conn \in 0 .. conns /\ (conn # 0 => conn \in Conns)
      /\ \A i \in 1 .. Len(backlog) : backlog[i] \in Conns /\ backlog[i] # conn
      /\ Served => conns \in Conns
      /\ left \in [Conns -> BOOLEAN] /\ input \in [Conns -> Seq(Lines)] /\ script \in Seq(Lines)
  <2>1. Queue /\ Texts
    BY DEF IInv
  <2>2. \A i \in 1 .. Len(backlog) : backlog[i] \in 1 .. conns
    BY <2>1 DEF Queue
  <2>3. /\ conns \in 0 .. ConnBound /\ conn \in 0 .. conns /\ (Served => conns # 0)
        /\ \A i \in 1 .. Len(backlog) : conn < backlog[i]
    BY <2>1 DEF Queue
  <2>4. left \in [Conns -> BOOLEAN] /\ input \in [Conns -> Seq(Lines)] /\ script \in Seq(Lines)
    BY <2>1 DEF Queue, Texts
  <2>5. \A i \in 1 .. Len(backlog) : backlog[i] \in Conns /\ backlog[i] # conn
    BY <2>2, <2>3 DEF Conns
  <2> QED BY <2>3, <2>4, <2>5 DEF Conns
<1>1. CASE RequestEof \/ HeaderStale \/ Stat \/ ServeStatic \/ OpenFile \/ MmapFile
           \/ ServeDynamic \/ Fork \/ Wait \/ CloseConn
  <2>1. Aside
    BY <1>1 DEF Aside, Served, RequestEof, HeaderStale, Stat, ServeStatic, OpenFile, MmapFile,
       ServeDynamic, Fork, Wait, CloseConn, Send, Goto, unix_error, connectVars, clientVars,
       localVars, netVars
  <2> QED BY <2>1, InOrderAside
<1>2. CASE Write \/ Breaks \/ ChildStep \/ FileChanges \/ UNCHANGED vars
  <2>1. Aside
    BY <1>2 DEF Aside, Served, Write, Breaks, ReadReset, WriteBroken, WriteFault, WrapperFails,
       ChildStep, ChildExecve, ChildRuns, FileChanges, Goto, unix_error, vars, listenVars,
       connectVars, clientVars, localVars, netVars, IInv, Resources
  <2> QED BY <2>1, InOrderAside
<1>3. CASE OpenStep /\ (ListenStep \/ ConnectLookup \/ ConnectSocket
                        \/ (ConnectConnect /\ UNCHANGED <<conns, backlog>>))
  <2>1. Aside
    BY <1>3 DEF Aside, Served, OpenStep, ListenStep, ListenLookup, ListenSocket, ListenBind,
       ListenListen, ConnectLookup, ConnectSocket, ConnectConnect, Listening, unix_error,
       listenVars, connectVars, clientVars, localVars, netVars
  <2> QED BY <2>1, InOrderAside
<1>4. CASE OpenStep /\ ConnectConnect /\ conns' = conns + 1 /\ backlog' = Append(backlog, conns + 1)
  <2>1. UNCHANGED <<pc, conn, input, left, script>> /\ cpc = "connect" /\ cpc' = "connected"
    BY <1>0, <1>4 DEF OpenStep, ConnectConnect, listenVars, localVars, clientVars, netVars
  <2>2. conns + 1 \in Conns
    BY <1>4, <2>1 DEF IInv, Queue, Conns
  <2>3. /\ Len(backlog') = Len(backlog) + 1 /\ Len(backlog) \in Nat
        /\ \A i \in 1 .. Len(backlog) : backlog'[i] = backlog[i]
        /\ backlog'[Len(backlog) + 1] = conns + 1
    BY <1>4, AppendProperties DEF IInv, Queue
  <2>4. RequestFirst(input[conns + 1])
    BY <1>0, <2>2 DEF IInv, Fresh, RequestFirst
  <2>5. \A i \in 1 .. Len(backlog') : RequestFirst(input'[backlog'[i]])
    BY <2>1, <2>3, <2>4 DEF InOrder
  <2>6. conn' # conns'
    BY <1>0, <1>4, <2>1
  <2>7. \A c \in Conns : c <= conns' => left'[c] \/ c = conns'
    BY <1>0, <1>4, <2>1 DEF InOrder, Served, Conns
  <2> QED BY <2>1, <2>5, <2>6, <2>7 DEF InOrder, Served
<1>5. CASE AcceptConn
  <2>1. /\ Len(backlog) \in Nat \ {0} /\ conn' = backlog[1] /\ pc' = "request"
        /\ backlog \in Seq(1 .. conns)
        /\ UNCHANGED <<cpc, conns, input, left, script>>
    BY <1>5 DEF AcceptConn, IInv, Queue, clientVars, netVars
  <2>2. /\ Len(backlog') = Len(backlog) - 1
        /\ \A i \in 1 .. Len(backlog') : backlog'[i] = backlog[i + 1]
    BY <1>5, <2>1, HeadTailProperties DEF AcceptConn
  <2> QED BY <2>1, <2>2 DEF InOrder, Served
<1>6. CASE RequestLine
  <2>1. PICK r \in Requests :
          /\ input[conn] # <<>> /\ Head(input[conn]) = <<"request", r>>
          /\ input' = [input EXCEPT ![conn] = Tail(@)]
    BY <1>6 DEF RequestLine, ReadLine
  <2>2. /\ pc = "request" /\ pc' \in {"header", "write"} /\ conn \in Conns /\ conn' = conn
        /\ UNCHANGED <<left, cpc, conns, backlog, script, req>>
    BY <1>0, <1>6 DEF RequestLine, ReadLine, Goto, Send, connectVars, clientVars, IInv, Queue, Serving
  <2>3. input'[conn] = Tail(input[conn]) /\ \A c \in Conns : c # conn => input'[c] = input[c]
    BY <1>0, <2>1, <2>2
  <2>4. HeadersOnly(input'[conn])
    BY <1>0, <2>1, <2>2, <2>3, OneRead DEF InOrder
  <2>5. \A i \in 1 .. Len(backlog) : RequestFirst(input'[backlog[i]])
    BY <1>0, <2>3 DEF InOrder
  <2>6. ASSUME Served, conn = conns PROVE EndsEmpty(input'[conn] \o script)
    <3>1. Unread
      BY <2>2, <2>6 DEF Unread
    <3>2. cpc # "connected" /\ input[conn] \o script = Script(req)
      BY <2>1, <2>6, <3>1 DEF IInv, Fresh
    <3>3. req \in Requests
      BY <2>6, <3>2 DEF IInv, Texts
    <3> DEFINE s == input[conn]
    <3>4. s \in Seq(Lines) /\ s # <<>> /\ s \o script = Script(req)
      BY <1>0, <2>1, <2>2, <2>6, <3>2
    <3> HIDE DEF s
    <3>5. script \in Seq(Lines)
      BY <1>0
    <3>6. Tail(s) \o script = Tail(s \o script)
      BY <3>4, <3>5, TailConcat
    <3> QED BY <2>3, <3>3, <3>4, <3>6, ScriptInOrder DEF s
  <2> QED BY <2>2, <2>4, <2>5, <2>6 DEF InOrder, Served
<1>7. CASE Header
  <2>1. PICK l \in HeaderLines :
          /\ input[conn] # <<>> /\ Head(input[conn]) = l
          /\ input' = [input EXCEPT ![conn] = Tail(@)]
          /\ pc' = (IF l = <<"line">> THEN "headers" ELSE "stat")
    BY <1>7 DEF Header, ReadLine, Goto, HeaderLines
  <2>2. /\ pc \in {"header", "headers"} /\ conn \in Conns /\ conn' = conn
        /\ UNCHANGED <<left, cpc, conns, backlog, script>>
    BY <1>0, <1>7 DEF Header, ReadLine, Goto, connectVars, localVars, clientVars, IInv, Queue, Serving
  <2>3. input'[conn] = Tail(input[conn]) /\ \A c \in Conns : c # conn => input'[c] = input[c]
    BY <1>0, <2>1, <2>2
  <2>4. HeadersOnly(input'[conn])
    BY <1>0, <2>1, <2>2, <2>3, OneRead DEF InOrder
  <2>5. \A i \in 1 .. Len(backlog) : RequestFirst(input'[backlog[i]])
    BY <1>0, <2>3 DEF InOrder
  <2>6. ASSUME Served, conn = conns, l = <<"line">> PROVE EndsEmpty(input'[conn] \o script)
    <3> DEFINE s == input[conn]
               u == s \o script
    <3>1. s \in Seq(Lines) /\ s # <<>> /\ s[1] = <<"line">> /\ EndsEmpty(u) /\ u \in Seq(Lines)
      BY <1>0, <2>1, <2>2, <2>6, ConcatProperties DEF InOrder
    <3> HIDE DEF s
    <3>2. Tail(s) \o script = Tail(u) /\ u # <<>> /\ u[1] = <<"line">>
      BY <1>0, <3>1, TailConcat
    <3> HIDE DEF u
    <3>3. EndsEmpty(Tail(u))
      BY <3>1, <3>2, OneRead
    <3> QED BY <2>3, <3>2, <3>3 DEF s
  <2> QED BY <2>1, <2>2, <2>4, <2>5, <2>6 DEF InOrder, Served
<1>8. ASSUME NEW r \in Requests, ClientAsks(r) PROVE InOrder'
  <2>1. /\ UNCHANGED <<conns, backlog, pc, conn, input, left>>
        /\ cpc = "connected" /\ cpc' = "sending"
    BY <1>8 DEF ClientAsks, listenVars, localVars, netVars
  <2>2. ~(conn = conns /\ pc \in {"header", "headers"})
    BY <2>1 DEF IInv, Answering, Served
  <2> QED BY <2>1, <2>2 DEF InOrder, Served
<1>9. CASE ClientSends
  <2>1. UNCHANGED <<conns, backlog, pc, conn, left, req>> /\ cpc = "sending"
    BY <1>9 DEF ClientSends, listenVars, localVars
  <2>2. CASE script = <<>>
    BY <1>9, <2>1, <2>2 DEF ClientSends, InOrder, Served
  <2>3. CASE script # <<>>
    <3>1. /\ cpc' = cpc /\ script' = Tail(script)
          /\ input' = [input EXCEPT ![conns] = Append(@, Head(script))]
      BY <1>9, <2>3 DEF ClientSends
    <3>2. conns \in Conns /\ input[conns] \in Seq(Lines)
      BY <1>0, <2>1 DEF Served
    <3>3. /\ input'[conns] \o script' = input[conns] \o script
          /\ input'[conns] \in Seq(Lines) /\ script' \in Seq(Lines)
      <4> DEFINE s == input[conns]
      <4>1. s \in Seq(Lines) /\ input'[conns] = Append(s, Head(script)) /\ script' = Tail(script)
        BY <1>0, <3>1, <3>2
      <4> HIDE DEF s
      <4>2. /\ Append(s, Head(script)) \o Tail(script) = s \o script
            /\ Append(s, Head(script)) \in Seq(Lines) /\ Tail(script) \in Seq(Lines)
        BY <1>0, <2>3, <4>1, MoveHead
      <4> QED BY <4>1, <4>2 DEF s
    <3>4. \A c \in Conns : c # conns => input'[c] = input[c]
      BY <1>0, <3>1, <3>2
    <3>5. Unread' => RequestFirst(input'[conns])
      <4>1. Fresh' /\ Texts'
        BY DEF IInv
      <4>2. ASSUME Unread' PROVE input'[conns] \o script' = Script(req) /\ req \in Requests
        BY <2>1, <3>1, <4>1, <4>2 DEF Fresh, Texts, Served
      <4> QED BY <3>3, <4>2, ScriptInOrder, FirstPart
    <3>6. ASSUME NEW i \in 1 .. Len(backlog) PROVE RequestFirst(input'[backlog[i]])
      <4>1. CASE backlog[i] = conns
        BY <2>1, <3>1, <3>5, <4>1 DEF Unread, Served
      <4>2. CASE backlog[i] # conns
        BY <1>0, <3>4, <4>2 DEF InOrder
      <4> QED BY <4>1, <4>2
    <3>7. pc = "request" => RequestFirst(input'[conn])
      <4> SUFFICES ASSUME pc = "request" PROVE RequestFirst(input'[conn])
        OBVIOUS
      <4>1. conn \in Conns
        BY <1>0 DEF IInv, Queue, Serving
      <4>2. CASE conn = conns
        BY <2>1, <3>1, <3>5, <4>2 DEF Unread, Served
      <4>3. CASE conn # conns
        BY <3>4, <4>1, <4>3 DEF InOrder
      <4> QED BY <4>2, <4>3
    <3>8. ASSUME pc \in {"header", "headers"}
          PROVE  /\ HeadersOnly(input'[conn])
                 /\ conn = conns => EndsEmpty(input'[conn] \o script')
      <4>1. conn \in Conns
        BY <1>0, <3>8 DEF IInv, Queue, Serving
      <4>2. CASE conn = conns
        <5>1. EndsEmpty(input'[conn] \o script')
          BY <2>1, <3>3, <3>8, <4>2 DEF InOrder, Served
        <5>2. HeadersOnly(input'[conn])
          BY <3>3, <4>2, <5>1, FirstPart DEF EndsEmpty
        <5> QED BY <5>1, <5>2
      <4>3. CASE conn # conns
        BY <3>4, <3>8, <4>1, <4>3 DEF InOrder
      <4> QED BY <4>2, <4>3
    <3> QED BY <2>1, <3>1, <3>6, <3>7, <3>8 DEF InOrder, Served
  <2> QED BY <2>2, <2>3
<1>10. CASE ClientDone \/ ClientGivesUp
  <2>1. /\ cpc \in {"connected", "sending", "waiting"} /\ cpc' = "idle"
        /\ left' = [left EXCEPT ![conns] = TRUE]
        /\ UNCHANGED <<conns, backlog, pc, conn, input>>
    BY <1>10 DEF ClientDone, ClientGivesUp, ClientCloses, listenVars, localVars
  <2>2. \A c \in Conns : c <= conns => left'[c]
    BY <1>0, <2>1 DEF InOrder
  <2> QED BY <2>1, <2>2 DEF InOrder, Served
<1> QED BY <1>1, <1>2, <1>3, <1>4, <1>5, <1>6, <1>7, <1>8, <1>9, <1>10
        DEF Next, Serve, Client, OpenStep, ConnectStep, ConnectConnect

LEMMA InOrderHolds == Spec => [](IInv /\ InOrder)
<1>1. Init => InOrder
  BY SocketsAssumption DEF Init, SocketsInit, InOrder, Served, Conns
<1>2. InOrder /\ IInv /\ IInv' /\ [Next]_vars => InOrder'
  BY InOrderBySteps
<1> QED BY TinyInvariant, <1>1, <1>2, PTL DEF Spec

\* While the server is at a connection, one of these can move: the server, because of
\* where it is, or of a line of the kind it expects, or of the end of the file; its
\* child; or the client, which has still to send what the server reads.
SomebodyMoves ==
  conn # 0 /\ Up =>
    \/ pc \in {"stat", "serve_static", "serve_dynamic", "open", "mmap", "fork", "close"}
    \/ pc = "write" /\ wq # <<>>
    \/ pc = "wait" /\ cgi \in {"forked", "running", "zombie"}
    \/ pc = "request" /\ input[conn] # <<>>
         /\ \E r \in Requests : Head(input[conn]) = <<"request", r>>
    \/ pc \in {"header", "headers"} /\ input[conn] # <<>> /\ Head(input[conn]) \in HeaderLines
    \/ pc \in {"request", "header", "headers"} /\ AtEof
    \/ /\ pc \in {"request", "header", "headers"} /\ conn = conns /\ ~left[conn]
       /\ cpc = "connected" \/ (cpc = "sending" /\ script # <<>>)

\* The server and a client never wait for each other (doit, read_requesthdrs,
\* serve_dynamic).
THEOREM SomebodyMovesHolds == Spec => []SomebodyMoves
<1>1. IInv /\ InOrder => SomebodyMoves
  <2> SUFFICES ASSUME IInv, InOrder, conn # 0, Up
               PROVE  SomebodyMoves
    BY DEF SomebodyMoves
  <2>1. pc \in Serving
    BY DEF IInv, Queue
  <2>2. CASE pc \notin {"request", "header", "headers"}
    BY <2>1, <2>2 DEF IInv, Texts, Answering, SomebodyMoves, Serving
  <2>3. CASE pc \in {"request", "header", "headers"}
    <3>1. conn \in Conns /\ conn \in 0 .. conns /\ conns \in Nat /\ input[conn] \in Seq(Lines)
          /\ script \in Seq(Lines)
      BY SocketsAssumption DEF IInv, Queue, Texts, Conns
    <3>2. CASE input[conn] # <<>>
      <4>1. Len(input[conn]) \in Nat \ {0} /\ Head(input[conn]) = input[conn][1]
        BY <3>1, <3>2
      <4>2. pc = "request" => \E r \in Requests : Head(input[conn]) = <<"request", r>>
        BY <3>2, <4>1 DEF InOrder, RequestFirst
      <4>3. pc # "request" => Head(input[conn]) \in HeaderLines
        BY <2>3, <4>1 DEF InOrder, HeadersOnly
      <4> QED BY <2>3, <3>2, <4>2, <4>3 DEF SomebodyMoves
    <3>3. CASE input[conn] = <<>> /\ left[conn]
      BY <2>3, <3>3 DEF SomebodyMoves, AtEof
    <3>4. CASE input[conn] = <<>> /\ ~left[conn]
      <4>1. Served /\ conn = conns
        BY <3>1, <3>4 DEF InOrder
      <4>2. cpc # "connected" => script # <<>>
        <5>1. CASE pc = "request"
          <6>1. Unread
            BY <4>1, <5>1 DEF Unread
          <6>2. ASSUME cpc # "connected", script = <<>> PROVE FALSE
            <7>1. Script(req) = <<>> /\ req \in Requests
              BY <3>4, <4>1, <6>1, <6>2, ConcatEmptySeq DEF IInv, Fresh, Texts
            <7> QED BY <7>1, ScriptLines
          <6> QED BY <6>2
        <5>2. CASE pc # "request"
          <6>1. EndsEmpty(input[conn] \o script)
            BY <2>3, <4>1, <5>2 DEF InOrder
          <6> QED BY <3>1, <3>4, <6>1, ConcatEmptySeq DEF EndsEmpty
        <5> QED BY <5>1, <5>2
      <4>3. cpc # "waiting" \/ script = <<>>
        BY DEF InOrder
      <4> QED BY <2>3, <3>4, <4>1, <4>2, <4>3 DEF SomebodyMoves, Served
    <3> QED BY <3>2, <3>3, <3>4
  <2> QED BY <2>2, <2>3
<1> QED BY InOrderHolds, <1>1, PTL

\* How far the server is with a connection; a is where it goes after a write.
Stage(p, a) ==
  CASE p = "request" -> 0 [] p = "header" -> 1 [] p = "headers" -> 2 [] p = "stat" -> 3
    [] p \in {"serve_static", "serve_dynamic"} -> 4
    [] p = "write" /\ a # "close" -> 5
    [] p \in {"open", "fork"} -> 6 [] p \in {"mmap", "wait"} -> 7
    [] p = "write" /\ a = "close" -> 8
    [] OTHER -> 9

\* A step that changes where the server is with a connection brings it to a later place, or
\* writes one of the pieces it is at, or reads one of the headers, or ends it.
GetsOn ==
  conn # 0 =>
    \/ conn' = 0 \/ ~Up'
    \/ UNCHANGED <<conn, pc, wq, after>>
    \/ conn' = conn /\ Stage(pc', after') > Stage(pc, after)
    \/ /\ conn' = conn /\ pc = "write" /\ pc' = pc /\ after' = after
       /\ wq # <<>> /\ wq' = Tail(wq)
    \/ /\ conn' = conn /\ pc = "headers" /\ pc' = pc
       /\ input[conn] # <<>> /\ input'[conn] = Tail(input[conn])

ServerGetsOn == [][GetsOn]_vars

\* No step of the server is taken back while it is at a connection (doit,
\* read_requesthdrs, serve_static, serve_dynamic).
THEOREM ServerGetsOnHolds == Spec => ServerGetsOn
<1>1. IInv /\ [Next]_vars => [GetsOn]_vars
  <2> SUFFICES ASSUME IInv, Next, conn # 0 PROVE GetsOn
    BY Zenon DEF GetsOn
  <2>1. CASE CloseConn \/ Breaks
    BY <2>1 DEF GetsOn, CloseConn, Breaks, ReadReset, WriteBroken, WriteFault, WrapperFails,
       unix_error, Up
  <2>2. CASE Client \/ ClientGivesUp \/ ChildStep \/ FileChanges \/ OpenStep
    <3>1. CASE Client \/ ClientGivesUp \/ ChildStep \/ FileChanges
      BY <3>1 DEF GetsOn, Client, ClientAsks, ClientSends, ClientDone, ClientGivesUp, ClientCloses,
         ChildStep, ChildExecve, ChildRuns, FileChanges, listenVars, localVars
    <3>2. CASE OpenStep
      <4>1. pc \in Serving
        BY DEF IInv, Queue
      <4>2. ~ListenStep
        BY <4>1 DEF Serving, ListenStep, ListenLookup, ListenSocket, ListenBind, ListenListen
      <4> QED BY <3>2, <4>2 DEF OpenStep, ConnectStep, ConnectLookup, ConnectSocket, ConnectConnect,
                 GetsOn, listenVars, localVars
    <3> QED BY <2>2, <3>1, <3>2
  <2>3. CASE RequestEof \/ RequestLine \/ HeaderStale \/ Stat \/ ServeStatic \/ OpenFile
    <3>1. /\ conn' = conn
          /\ \/ ~Up'
             \/ pc = "request" /\ pc' = "close"
             \/ pc = "request" /\ pc' = "header"
             \/ pc = "request" /\ pc' = "write" /\ after' = "close"
             \/ pc = "header" /\ pc' = "stat"
             \/ pc = "stat" /\ pc' = "write" /\ after' = "close"
             \/ pc = "stat" /\ pc' \in {"serve_static", "serve_dynamic"}
             \/ pc = "serve_static" /\ pc' = "write" /\ after' = "open"
             \/ pc = "open" /\ pc' = "mmap"
      BY <2>3 DEF RequestEof, RequestLine, HeaderStale, Stat, ServeStatic, OpenFile, Goto, Send,
         unix_error, Up, localVars
    <3> QED BY <3>1 DEF GetsOn, Stage
  <2>4. CASE MmapFile \/ ServeDynamic \/ Fork \/ Wait
    <3>1. /\ conn' = conn
          /\ \/ ~Up'
             \/ pc = "mmap" /\ pc' = "write" /\ after' = "close"
             \/ pc = "serve_dynamic" /\ pc' = "write" /\ after' = "fork"
             \/ pc = "fork" /\ pc' = "wait"
             \/ pc = "wait" /\ pc' = "close"
      BY <2>4 DEF MmapFile, ServeDynamic, Fork, Wait, Goto, Send, unix_error, Up, localVars
    <3> QED BY <3>1 DEF GetsOn, Stage
  <2>5. CASE Header
    <3>1. /\ conn' = conn /\ input[conn] # <<>> /\ input' = [input EXCEPT ![conn] = Tail(@)]
          /\ pc \in {"header", "headers"} /\ pc' \in {"headers", "stat"}
      BY <2>5 DEF Header, ReadLine, Goto, localVars
    <3>2. conn \in Conns /\ input \in [Conns -> Seq(Lines)]
      BY SocketsAssumption DEF IInv, Queue, Texts, Conns
    <3>3. input'[conn] = Tail(input[conn])
      BY <3>1, <3>2
    <3> QED BY <3>1, <3>3 DEF GetsOn, Stage
  <2>6. CASE Write
    <3>1. /\ pc = "write" /\ wq # <<>> /\ wq' = Tail(wq) /\ conn' = conn /\ after' = after
          /\ pc' = after \/ pc' = pc
          /\ after \in {"close", "open", "fork"}
      BY <2>6 DEF Write, Goto, IInv, Texts, Resources
    <3> QED BY <3>1 DEF GetsOn, Stage
  <2>7. CASE AcceptConn
    BY <2>7 DEF AcceptConn, IInv, Queue, Serving
  <2> QED BY <2>1, <2>2, <2>3, <2>4, <2>5, <2>6, <2>7 DEF Next, Serve
<1> QED BY <1>1, TinyInvariant, PTL DEF Spec, ServerGetsOn
=============================================================================
