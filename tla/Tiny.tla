-------------------------------- MODULE Tiny --------------------------------
(***************************************************************************)
(* The Tiny web server (proxylab-handout/tiny/tiny.c): one process that    *)
(* serves one connection after another, the clients that connect to it,    *)
(* the files it serves and the CGI programs it forks.                      *)
(*                                                                         *)
(* What travels on a connection are lines: Rio.tla is about the bytes, and *)
(* shows that rio_readlineb and rio_writen lose and repeat none.           *)
(***************************************************************************)
EXTENDS Sockets

CONSTANTS
  Requests,    \* the requests of this instance: [method, target, headers]
  Buffered     \* the server's stdout is a file or a pipe

\* "page" is a text file that may be rewritten or removed while the server runs,
\* "empty" one without bytes, "private" one that may not be read; "prog" is a CGI
\* program, called with two numbers or ("bare") without arguments.
Targets == {"page", "empty", "private", "missing", "prog", "bare"}
Sizes == 0 .. 2
NONE == -1     \* no such file

ASSUME TinyAssumption ==
  /\ Requests \subseteq [method : {"GET", "POST"}, target : Targets, headers : Nat]
  /\ Buffered \in BOOLEAN

VARIABLES
  conn,        \* the connection in fd, 0 when there is none
  asked,       \* the request line doit read, as the request it came from
  size,        \* sbuf.st_size
  wq, after,   \* what is still to be written, and where the server goes then
  cgi,         \* the CGI child: "none", "forked", "running", "zombie"
  page,        \* the size of the file "page", or NONE
  script,      \* lines the client has still to send
  req,         \* the client's request
  input,       \* per connection: lines sent and not yet read
  left,        \* per connection: the client has closed its end
  answer,      \* per connection: what the server and its child have written
  hung         \* per connection: the server has closed its end

localVars == <<conn, asked, size, wq, after, cgi>>
clientVars == <<script, req>>
netVars == <<input, left, answer, hung>>
vars == <<listenVars, connectVars, faults, localVars, page, clientVars, netVars>>

NoRequest == [method |-> "none", target |-> "missing", headers |-> 0]
Conns == 1 .. ConnBound

Init ==
  /\ SocketsInit
  /\ conn = 0 /\ asked = NoRequest /\ size = NONE
  /\ wq = <<>> /\ after = "close" /\ cgi = "none"
  /\ page = 2
  /\ script = <<>> /\ req = NoRequest
  /\ input = [c \in Conns |-> <<>>]
  /\ left = [c \in Conns |-> FALSE]
  /\ answer = [c \in Conns |-> <<>>]
  /\ hung = [c \in Conns |-> FALSE]

-----------------------------------------------------------------------------
(* Reading and writing the connection.                                     *)

Goto(p) == pc' = p /\ UNCHANGED <<laddr, fds, status>>

\* Rio_readlineb takes the next line ...
ReadLine(line) ==
  /\ input[conn] # <<>> /\ line = Head(input[conn])
  /\ input' = [input EXCEPT ![conn] = Tail(@)]
  /\ UNCHANGED <<left, answer, hung, faults>>

\* ... or returns 0 at the end of the file ...
AtEof == input[conn] = <<>> /\ left[conn]

\* ... or fails, when the client's end was reset, and takes the server with it.
ReadReset ==
  /\ Up /\ pc \in {"request", "header", "headers"}
  /\ AtEof
  /\ unix_error
  /\ UNCHANGED <<faults, connectVars, localVars, page, clientVars, netVars>>

\* The writes that follow one another until the server does something else.
Send(items, next) ==
  /\ wq' = items /\ after' = next
  /\ Goto("write")

\* Rio_writen.  A client that has gone takes the first of them in silence; after
\* that they fail, by SIGPIPE for want of a handler.
Write ==
  /\ Up /\ pc = "write"
  /\ wq' = Tail(wq)
  /\ answer' = [answer EXCEPT ![conn] = IF left[conn] THEN @ ELSE Append(@, Head(wq))]
  /\ IF Len(wq) = 1 THEN Goto(after) ELSE UNCHANGED <<pc, laddr, fds, status>>
  /\ UNCHANGED <<faults, connectVars, conn, asked, size, after, cgi, page, clientVars,
                 input, left, hung>>

WriteBroken ==
  /\ Up /\ pc = "write" /\ left[conn]
  /\ status' = "killed" /\ fds' = {}
  /\ UNCHANGED <<pc, laddr, faults, connectVars, localVars, page, clientVars, netVars>>

\* The mapped file has become shorter than what is to be written from it.
WriteFault ==
  /\ Up /\ pc = "write" /\ Head(wq) = <<"body", size>>
  /\ asked.target = "page" /\ page # NONE /\ page < size
  /\ unix_error
  /\ UNCHANGED <<faults, connectVars, localVars, page, clientVars, netVars>>

-----------------------------------------------------------------------------
(* main and doit.                                                          *)

AcceptConn ==
  /\ Up /\ pc = "accept" /\ backlog # <<>>
  /\ conn' = Head(backlog) /\ backlog' = Tail(backlog)
  /\ fds' = fds \cup {"conn"} /\ pc' = "request"
  /\ UNCHANGED <<laddr, status, faults, cpc, caddr, csocks, conns, asked, size, wq, after,
                 cgi, page, clientVars, netVars>>

\* Without a request line doit returns.
RequestEof ==
  /\ Up /\ pc = "request" /\ AtEof
  /\ Goto("close")
  /\ UNCHANGED <<faults, connectVars, localVars, page, clientVars, netVars>>

Error(code) == <<<<"status", code>>, <<"type", 0>>, <<"length", 0>>, <<"text", 0>>>>

\* Mutant: no return after the 501.
RequestLine_NoReturn ==
  /\ Up /\ pc = "request"
  /\ \E r \in Requests :
       /\ ReadLine(<<"request", r>>)
       /\ asked' = r
       /\ IF r.method = "GET"
          THEN Goto("header") /\ UNCHANGED <<wq, after>>
          ELSE Send(Error(501), "header")
  /\ UNCHANGED <<connectVars, conn, size, cgi, page, clientVars>>

\* The request line, and the refusal of any method but GET.
RequestLine ==
  /\ Up /\ pc = "request"
  /\ \E r \in Requests :
       /\ ReadLine(<<"request", r>>)
       /\ asked' = r
       /\ IF r.method = "GET"
          THEN Goto("header") /\ UNCHANGED <<wq, after>>
          ELSE Send(Error(501), "close")
  /\ UNCHANGED <<connectVars, conn, size, cgi, page, clientVars>>

\* Mutant: the headers are read until the client hangs up.
Header_UntilEof ==
  /\ Up /\ pc \in {"header", "headers"}
  /\ \/ \E l \in {"line", "empty"} : ReadLine(<<l>>) /\ Goto("headers")
     \/ AtEof /\ Goto("stat") /\ UNCHANGED <<netVars, faults>>
  /\ UNCHANGED <<connectVars, localVars, page, clientVars>>

\* read_requesthdrs, up to the empty line.  At the end of the file buf keeps the
\* line before, which is not the empty one, and the loop goes on for ever.
Header ==
  /\ Up /\ pc \in {"header", "headers"}
  /\ \/ ReadLine(<<"line">>) /\ Goto("headers")
     \/ ReadLine(<<"empty">>) /\ Goto("stat")
  /\ UNCHANGED <<connectVars, localVars, page, clientVars>>

\* Before the first header buf is what the stack held: the end of an earlier
\* request's headers, it may be.
HeaderStale ==
  /\ Up /\ pc = "header" /\ AtEof
  /\ \E c \in 1 .. conn - 1 : hung[c]
  /\ Goto("stat")
  /\ UNCHANGED <<faults, connectVars, localVars, page, clientVars, netVars>>

\* parse_uri: what has "cgi-bin" in it is a program.
parse_uri(t) == IF t \in {"prog", "bare"} THEN "dynamic" ELSE "static"

\* stat of the file.
StatSize(t) ==
  IF t = "page" THEN page ELSE IF t = "missing" THEN NONE ELSE IF t = "empty" THEN 0 ELSE 1

Readable(t) == t # "private"

\* Mutant: the Stat wrapper instead of stat.
Stat_Wrapper ==
  /\ Up /\ pc = "stat"
  /\ size' = StatSize(asked.target)
  /\ IF StatSize(asked.target) = NONE THEN unix_error /\ UNCHANGED <<wq, after>>
     ELSE IF ~Readable(asked.target) THEN Send(Error(403), "close")
     ELSE Goto(IF parse_uri(asked.target) = "static" THEN "serve_static" ELSE "serve_dynamic")
          /\ UNCHANGED <<wq, after>>
  /\ UNCHANGED <<faults, connectVars, conn, asked, cgi, page, clientVars, netVars>>

\* stat and the tests of the mode.
Stat ==
  /\ Up /\ pc = "stat"
  /\ size' = StatSize(asked.target)
  /\ IF StatSize(asked.target) = NONE THEN Send(Error(404), "close")
     ELSE IF ~Readable(asked.target) THEN Send(Error(403), "close")
     ELSE Goto(IF parse_uri(asked.target) = "static" THEN "serve_static" ELSE "serve_dynamic")
          /\ UNCHANGED <<wq, after>>
  /\ UNCHANGED <<faults, connectVars, conn, asked, cgi, page, clientVars, netVars>>

CloseConn ==
  /\ Up /\ pc = "close"
  /\ fds' = fds \ {"conn"} /\ pc' = "accept"
  /\ hung' = [hung EXCEPT ![conn] = TRUE]
  /\ conn' = 0 /\ asked' = NoRequest /\ size' = NONE
  /\ UNCHANGED <<laddr, status, faults, connectVars, wq, after, cgi, page, clientVars,
                 input, left, answer>>

-----------------------------------------------------------------------------
(* serve_static and serve_dynamic.                                         *)

ServeStatic ==
  /\ Up /\ pc = "serve_static"
  /\ Send(<<<<"head", size>>>>, "open")
  /\ UNCHANGED <<faults, connectVars, conn, asked, size, cgi, page, clientVars, netVars>>

\* Open: the file may have gone since the stat.
OpenFile ==
  /\ Up /\ pc = "open"
  /\ IF StatSize(asked.target) = NONE THEN unix_error
     ELSE fds' = fds \cup {"file"} /\ pc' = "mmap" /\ UNCHANGED <<laddr, status>>
  /\ UNCHANGED <<faults, connectVars, localVars, page, clientVars, netVars>>

\* Mutant: the file stays open.
MmapFile_NoClose ==
  /\ Up /\ pc = "mmap"
  /\ IF size = 0 THEN unix_error /\ UNCHANGED <<wq, after>>
     ELSE Send(<<<<"body", size>>>>, "close")
  /\ UNCHANGED <<faults, connectVars, conn, asked, size, cgi, page, clientVars, netVars>>

\* Mmap, which takes no length of zero, Close(srcfd), the body and Munmap.
MmapFile ==
  /\ Up /\ pc = "mmap"
  /\ IF size = 0 THEN unix_error /\ UNCHANGED <<wq, after>>
     ELSE /\ wq' = <<<<"body", size>>>> /\ after' = "close"
          /\ fds' = fds \ {"file"} /\ pc' = "write"
          /\ UNCHANGED <<laddr, status>>
  /\ UNCHANGED <<faults, connectVars, conn, asked, size, cgi, page, clientVars, netVars>>

ServeDynamic ==
  /\ Up /\ pc = "serve_dynamic"
  /\ Send(<<<<"status", 200>>, <<"server", 0>>>>, "fork")
  /\ UNCHANGED <<faults, connectVars, conn, asked, size, cgi, page, clientVars, netVars>>

Fork ==
  /\ Up /\ pc = "fork"
  /\ cgi' = "forked" /\ Goto("wait")
  /\ UNCHANGED <<faults, connectVars, conn, asked, size, wq, after, page, clientVars, netVars>>

Wait ==
  /\ Up /\ pc = "wait" /\ cgi = "zombie"
  /\ cgi' = "none" /\ Goto("close")
  /\ UNCHANGED <<faults, connectVars, conn, asked, size, wq, after, page, clientVars, netVars>>

\* The child writes to the connection that Dup2 made its stdout.
ChildWrites(items) ==
  answer' = [answer EXCEPT ![conn] = IF left[conn] THEN @ ELSE @ \o items]

\* Execve; when it fails unix_error exits, and exit writes out what the server's
\* printfs had left in the buffer of stdout.
ChildExecve ==
  /\ cgi = "forked"
  /\ \/ cgi' = "running" /\ UNCHANGED <<answer, faults>>
     \/ /\ cgi' = "zombie" /\ Fault("exec")
        /\ ChildWrites(IF Buffered THEN <<<<"log", 0>>>> ELSE <<>>)
  /\ UNCHANGED <<listenVars, connectVars, conn, asked, size, wq, after, page, clientVars,
                 input, left, hung>>

\* adder.c writes its answer and exits; without a '&' in QUERY_STRING it dies of
\* the NULL that strchr returned before it has written anything.
ChildRuns ==
  /\ cgi = "running"
  /\ cgi' = "zombie"
  /\ ChildWrites(IF asked.target = "prog" THEN <<<<"cgi", 0>>>> ELSE <<>>)
  /\ UNCHANGED <<listenVars, connectVars, faults, conn, asked, size, wq, after, page,
                 clientVars, input, left, hung>>

\* Any other call whose wrapper ends the server: Accept, Getnameinfo, Open, Mmap,
\* Fork for want of memory, descriptors or processes.
WrapperFails ==
  /\ Up /\ pc \in {"accept", "request", "open", "mmap", "fork"}
  /\ pc = "accept" => backlog # <<>>
  /\ unix_error /\ Fault("sys")
  /\ UNCHANGED <<connectVars, localVars, page, clientVars, netVars>>

-----------------------------------------------------------------------------
(* The clients, one after another, and the files.                          *)

Script(r) == <<<<"request", r>>>> \o [i \in 1 .. r.headers |-> <<"line">>] \o <<<<"empty">>>>

ClientAsks(r) ==
  /\ cpc = "connected" /\ r \in Requests
  /\ cpc' = "sending" /\ req' = r /\ script' = Script(r)
  /\ UNCHANGED <<listenVars, caddr, csocks, conns, backlog, faults, localVars, page, netVars>>

ClientSends ==
  /\ cpc = "sending"
  /\ IF script = <<>> THEN cpc' = "waiting" /\ UNCHANGED <<script, input>>
     ELSE /\ input' = [input EXCEPT ![conns] = Append(@, Head(script))]
          /\ script' = Tail(script) /\ UNCHANGED cpc
  /\ UNCHANGED <<listenVars, caddr, csocks, conns, backlog, faults, localVars, page, req,
                 left, answer, hung>>

ClientCloses ==
  /\ cpc' = "idle" /\ csocks' = csocks - 1
  /\ left' = [left EXCEPT ![conns] = TRUE]
  /\ script' = <<>> /\ req' = NoRequest
  /\ UNCHANGED <<listenVars, caddr, conns, backlog, localVars, page, input, answer, hung>>

\* The server, or the end of its process, has closed the other end.
ClientDone ==
  /\ \/ cpc = "waiting" /\ hung[conns]
     \/ cpc \in {"sending", "waiting"} /\ ~Up /\ cgi \in {"none", "zombie"}
  /\ ClientCloses /\ UNCHANGED faults

\* The user closes the page at any time.
ClientGivesUp ==
  /\ cpc \in {"connected", "sending", "waiting"} /\ ~hung[conns]
  /\ ClientCloses /\ Fault("left")

\* Somebody writes or removes the file "page", once.
FileChanges ==
  /\ "file" \notin faults
  /\ \E s \in (Sizes \ {0}) \cup {NONE} : s # page /\ page' = s
  /\ Fault("file")
  /\ UNCHANGED <<listenVars, connectVars, localVars, clientVars, netVars>>

-----------------------------------------------------------------------------
(* The next-state relation.                                                *)

OpenStep ==
  /\ ListenStep \/ ConnectStep
  /\ UNCHANGED <<localVars, page, clientVars, netVars>>

Serve ==
  \/ AcceptConn \/ RequestEof \/ RequestLine \/ Header \/ HeaderStale \/ Stat
  \/ ServeStatic \/ OpenFile \/ MmapFile \/ ServeDynamic \/ Fork \/ Wait
  \/ Write \/ CloseConn

Breaks == ReadReset \/ WriteBroken \/ WriteFault \/ WrapperFails

ChildStep == ChildExecve \/ ChildRuns

Client == (\E r \in Requests : ClientAsks(r)) \/ ClientSends \/ ClientDone

Next == OpenStep \/ Serve \/ Breaks \/ ChildStep \/ Client \/ ClientGivesUp \/ FileChanges

Spec == Init /\ [][Next]_vars

\* The server, its child and a client that has connected keep going; nothing makes
\* a client connect, give up or stay.
FairSpec == Spec /\ WF_vars(Serve) /\ WF_vars(ChildStep) /\ WF_vars(Client)

-----------------------------------------------------------------------------
(* Properties.                                                             *)

\* Between two connections the server has its listening socket open and nothing
\* else, and no child; a client whose open_clientfd failed has no socket, however
\* many addresses refused.
NothingLeaked ==
  /\ Up /\ pc = "accept" => fds = {"listen"} /\ cgi = "none"
  /\ csocks = IF cpc \in {"idle", "socket"} THEN 0 ELSE 1

\* What a client may read for each request before the server closes,
\* after the faults of f.
Answers(r, f) ==
  IF r.method # "GET" THEN {Error(501)}
  ELSE IF r.target = "missing" THEN {Error(404)}
  ELSE IF r.target = "private" THEN {Error(403)}
  ELSE IF r.target = "page" THEN
    {<<<<"head", n>>, <<"body", n>>>> : n \in Sizes} \cup (IF "file" \in f THEN {Error(404)} ELSE {})
  ELSE IF r.target = "empty" THEN {}
  ELSE LET start == <<<<"status", 200>>, <<"server", 0>>>>
       IN  (IF r.target = "prog" THEN {start \o <<<<"cgi", 0>>>>} ELSE {start})
             \cup (IF "exec" \in f
                   THEN {start \o (IF Buffered THEN <<<<"log", 0>>>> ELSE <<>>)} ELSE {})

\* A client that waits for its answer gets the one its request calls for, whole: as
\* many bytes as the header announced, never two answers and never a mixture, also
\* when the file changes between stat, Open and the write.
AnswersWhole == cpc = "waiting" /\ hung[conns] => answer[conns] \in Answers(req, faults)

\* Nothing a request asks for ends the server: without a client that leaves early,
\* a file that changes or a system call that fails it goes on, unless the file
\* is empty (mmap takes no length of 0).
SurvivesRequests == ~Up => faults # {} \/ (pc = "mmap" /\ size = 0)

\* The server comes back to accept, unless it ends or the client leaves in the
\* middle of the headers (tiny.c:105).
ComesBack == conn # 0 ~> conn = 0 \/ ~Up \/ (pc \in {"header", "headers"} /\ AtEof)
=============================================================================
