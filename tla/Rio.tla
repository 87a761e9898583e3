-------------------------------- MODULE Rio ---------------------------------
(***************************************************************************)
(* The Rio package (proxylab-handout/csapp.c): a caller that reads one     *)
(* descriptor with rio_readn, or with rio_readnb and rio_readlineb through *)
(* a rio_t, and writes what it got to another with rio_writen, as the Tiny *)
(* and proxy exercises do.  read and write may be interrupted, come short  *)
(* or fail.                                                                *)
(*                                                                         *)
(* A byte is its place in the stream, 1 .. Total, so that a byte that is   *)
(* lost, repeated or out of order can be told from the one expected.       *)
(***************************************************************************)
EXTENDS Integers

CONSTANTS
  Total,    \* bytes the descriptor will ever deliver
  BUFSIZE,  \* RIO_BUFSIZE
  Texts,    \* where the newlines are, in the streams of this instance
  MAXLINE,  \* size of the caller's buffer
  Sizes     \* the n or maxlen the caller passes, never above the size of its buffer

ASSUME RioAssumption ==
  /\ Total \in Nat
  /\ Texts \subseteq SUBSET (1 .. Total)
  /\ BUFSIZE \in Nat \ {0}
  /\ MAXLINE \in Nat \ {0}
  /\ Sizes \subseteq 1 .. MAXLINE

VARIABLES
  newlines,        \* the places that hold '\n'
  off,             \* kernel: bytes read from the descriptor so far
  cnt, ptr, buf,   \* rio_cnt, rio_bufptr as an index, rio_buf
  errno,
  usr,             \* the caller's buffer
  op, want, done,  \* call in progress, its n or maxlen, bytes transferred so far
  ret,             \* result of the last call
  status,          \* "running" or "exited"
  base,            \* history: bytes of the stream consumed by finished reads
  lost,            \* history: bytes consumed by calls that failed before passing them on
  out, nout        \* the peer: bytes rio_writen has delivered, and how many

rioVars == <<cnt, ptr, buf>>
callVars == <<op, want, done, ret>>
outVars == <<out, nout>>
histVars == <<base, lost>>
vars == <<newlines, off, rioVars, errno, usr, callVars, status, histVars, outVars>>

NUL  == 0
JUNK == -1
Cell == -1 .. Total

Reads    == {"readn", "readnb", "readlineb"}
Buffered == {"readnb", "readlineb"}

Least(a, b) == IF a < b THEN a ELSE b

Init ==
  /\ newlines \in Texts
  /\ off = 0
  /\ cnt \in {-1, BUFSIZE} /\ ptr = 0 /\ buf = [i \in 0 .. BUFSIZE - 1 |-> JUNK]
  /\ errno = "none"
  /\ usr = [i \in 0 .. MAXLINE - 1 |-> JUNK]
  /\ op = "uninit" /\ want = 0 /\ done = 0 /\ ret = 0
  /\ status = "running"
  /\ base = 0 /\ lost = 0
  /\ out = [i \in 1 .. Total |-> JUNK] /\ nout = 0

\* Mutant: rio_cnt keeps whatever the stack held.
rio_readinitb_KeepsCount ==
  /\ status = "running" /\ op = "uninit"
  /\ cnt' = cnt /\ ptr' = 0
  /\ op' = "idle"
  /\ UNCHANGED <<newlines, off, buf, errno, usr, want, done, ret, status, histVars, outVars>>

rio_readinitb ==
  /\ status = "running" /\ op = "uninit"
  /\ cnt' = 0 /\ ptr' = 0
  /\ op' = "idle"
  /\ UNCHANGED <<newlines, off, buf, errno, usr, want, done, ret, status, histVars, outVars>>

-----------------------------------------------------------------------------
(* Calls and returns.                                                      *)

\* A caller that has used the buffered calls does not pass the descriptor to
\* rio_readn while the rio_t holds bytes; it writes what it got before it reads on.
Call(o, n) ==
  /\ status = "running" /\ op = "idle" /\ ret <= 0
  /\ o = "readn" => cnt <= 0
  /\ op' = o /\ want' = n /\ done' = 0 /\ ret' = 0
  /\ UNCHANGED <<newlines, off, rioVars, errno, usr, status, histVars, outVars>>

CallWriten ==
  /\ status = "running" /\ op = "idle" /\ ret > 0
  /\ op' = "writen" /\ want' = ret /\ done' = 0 /\ ret' = 0
  /\ UNCHANGED <<newlines, off, rioVars, errno, usr, status, histVars, outVars>>

\* The locals of a call die with it.
Return(r) == op' = "idle" /\ want' = 0 /\ done' = 0 /\ ret' = r /\ UNCHANGED status

\* A read ends having consumed the k bytes it returns.
ReturnRead(k) == Return(k) /\ base' = base + k /\ UNCHANGED lost

\* The error return.
ReturnError(consumed, dropped) ==
  /\ op' = "idle" /\ want' = 0 /\ done' = 0 /\ ret' = -1
  /\ base' = base + consumed /\ lost' = lost + dropped
  /\ UNCHANGED status

\* The Rio_ wrappers answer a -1 with unix_error, which ends the program.
UnixError ==
  /\ status = "running" /\ op = "idle" /\ ret = -1
  /\ status' = "exited"
  /\ UNCHANGED <<newlines, off, rioVars, errno, usr, callVars, histVars, outVars>>

\* The '\0' rio_readlineb puts after the k bytes of a line.
Terminate(u, k) == [u EXCEPT ![k] = NUL]

InCall(o) == status = "running" /\ op = o

-----------------------------------------------------------------------------
(* rio_readn: read goes straight to the caller's buffer.                   *)

ReadnSome ==
  /\ InCall("readn") /\ done < want
  /\ \E k \in 1 .. Least(want - done, Total - off) :
       /\ usr' = [i \in 0 .. MAXLINE - 1 |->
                    IF i \in done .. done + k - 1 THEN off + 1 + i - done ELSE usr[i]]
       /\ off' = off + k
       /\ done' = done + k
  /\ UNCHANGED <<newlines, rioVars, errno, op, want, ret, status, histVars, outVars>>

ReadnInterrupted ==
  /\ InCall("readn") /\ done < want
  /\ errno' = "EINTR"
  /\ UNCHANGED <<newlines, off, rioVars, usr, callVars, status, histVars, outVars>>

ReadnError ==
  /\ InCall("readn") /\ done < want
  /\ errno' = "EIO"
  /\ ReturnError(done, done)
  /\ UNCHANGED <<newlines, off, rioVars, usr, outVars>>

\* n bytes, or the end of the stream.
ReadnReturn ==
  /\ InCall("readn")
  /\ done = want \/ off = Total
  /\ ReturnRead(done)
  /\ UNCHANGED <<newlines, off, rioVars, errno, usr, outVars>>

-----------------------------------------------------------------------------
(* rio_read, which rio_readnb and rio_readlineb call in their loops.       *)

\* Mutant: rio_readlineb leaves no room for the '\0' (n <= maxlen).
Wanting_NoRoom ==
  /\ op \in Buffered /\ status = "running"
  /\ IF op = "readnb" THEN done < want ELSE done + 1 <= want

\* The loop of rio_readnb or rio_readlineb goes round again.
Wanting ==
  /\ op \in Buffered /\ status = "running"
  /\ IF op = "readnb" THEN done < want ELSE done + 1 < want

RefillSome ==
  /\ Wanting /\ cnt <= 0
  /\ \E k \in 1 .. Least(BUFSIZE, Total - off) :
       /\ buf' = [i \in 0 .. BUFSIZE - 1 |-> IF i < k THEN off + 1 + i ELSE buf[i]]
       /\ off' = off + k
       /\ cnt' = k
       /\ ptr' = 0
  /\ UNCHANGED <<newlines, errno, usr, callVars, status, histVars, outVars>>

RefillInterrupted ==
  /\ Wanting /\ cnt <= 0
  /\ cnt' = -1 /\ errno' = "EINTR"
  /\ UNCHANGED <<newlines, off, ptr, buf, usr, callVars, status, histVars, outVars>>

\* The bytes already copied for this call are not handed over.
RefillError ==
  /\ Wanting /\ cnt <= 0
  /\ cnt' = -1 /\ errno' = "EIO"
  /\ ReturnError(done, done)
  /\ UNCHANGED <<newlines, off, ptr, buf, usr, outVars>>

\* Mutant: rio_read takes the end of the file for an interrupted call.
RefillEof_Retries ==
  /\ Wanting /\ cnt <= 0 /\ off = Total
  /\ cnt' = 0
  /\ UNCHANGED <<newlines, off, ptr, buf, errno, usr, callVars, status, histVars, outVars>>

\* End of file: rio_readlineb terminates a line only if it has part of one.
RefillEof ==
  /\ Wanting /\ cnt <= 0 /\ off = Total
  /\ cnt' = 0
  /\ usr' = IF op = "readlineb" /\ done > 0 THEN Terminate(usr, done) ELSE usr
  /\ ReturnRead(done)
  /\ UNCHANGED <<newlines, off, ptr, buf, errno, outVars>>

\* rio_read copies min(n, rio_cnt) bytes for rio_readnb ...
CopyMany ==
  /\ InCall("readnb") /\ Wanting /\ cnt > 0
  /\ LET k == Least(want - done, cnt) IN
       /\ usr' = [i \in 0 .. MAXLINE - 1 |->
                    IF i \in done .. done + k - 1 THEN buf[ptr + i - done] ELSE usr[i]]
       /\ ptr' = ptr + k
       /\ cnt' = cnt - k
       /\ done' = done + k
  /\ UNCHANGED <<newlines, off, buf, errno, op, want, ret, status, histVars, outVars>>

\* Mutant: the newline that ends a line is not stored.
CopyByte_StripsNewline ==
  /\ InCall("readlineb") /\ Wanting /\ cnt > 0
  /\ ptr' = ptr + 1 /\ cnt' = cnt - 1
  /\ IF buf[ptr] \in newlines
     THEN /\ usr' = Terminate(usr, done)
          /\ ReturnRead(done)
     ELSE /\ usr' = [usr EXCEPT ![done] = buf[ptr]]
          /\ done' = done + 1
          /\ UNCHANGED <<op, want, ret, status, histVars>>
  /\ UNCHANGED <<newlines, off, buf, errno, outVars>>

\* ... and one for rio_readlineb, whose loop ends at a newline.
CopyByte ==
  /\ InCall("readlineb") /\ Wanting /\ cnt > 0
  /\ ptr' = ptr + 1 /\ cnt' = cnt - 1
  /\ IF buf[ptr] \in newlines
     THEN /\ usr' = Terminate([usr EXCEPT ![done] = buf[ptr]], done + 1)
          /\ ReturnRead(done + 1)
     ELSE /\ usr' = [usr EXCEPT ![done] = buf[ptr]]
          /\ done' = done + 1
          /\ UNCHANGED <<op, want, ret, status, histVars>>
  /\ UNCHANGED <<newlines, off, buf, errno, outVars>>

\* rio_readnb has its n bytes, or rio_readlineb has filled maxlen - 1.
BufferedReturn ==
  /\ op \in Buffered /\ status = "running" /\ ~Wanting
  /\ usr' = IF op = "readlineb" THEN Terminate(usr, done) ELSE usr
  /\ ReturnRead(done)
  /\ UNCHANGED <<newlines, off, rioVars, errno, outVars>>

-----------------------------------------------------------------------------
(* rio_writen.                                                             *)

\* Mutant: a short write is not added to bufp.
WriteSome_FromStart ==
  /\ InCall("writen") /\ done < want
  /\ \E k \in 1 .. want - done :
       /\ out' = [i \in 1 .. Total |->
                    IF i \in nout + 1 .. nout + k THEN usr[i - nout - 1] ELSE out[i]]
       /\ nout' = nout + k
       /\ done' = done + k
  /\ UNCHANGED <<newlines, off, rioVars, errno, usr, op, want, ret, status, histVars>>

WriteSome ==
  /\ InCall("writen") /\ done < want
  /\ \E k \in 1 .. want - done :
       /\ out' = [i \in 1 .. Total |->
                    IF i \in nout + 1 .. nout + k THEN usr[done + i - nout - 1] ELSE out[i]]
       /\ nout' = nout + k
       /\ done' = done + k
  /\ UNCHANGED <<newlines, off, rioVars, errno, usr, op, want, ret, status, histVars>>

WriteInterrupted ==
  /\ InCall("writen") /\ done < want
  /\ errno' = "EINTR"
  /\ UNCHANGED <<newlines, off, rioVars, usr, callVars, status, histVars, outVars>>

WriteError ==
  /\ InCall("writen") /\ done < want
  /\ errno' = "EIO"
  /\ ReturnError(0, want - done)
  /\ UNCHANGED <<newlines, off, rioVars, usr, outVars>>

\* write took nothing and set no errno: the code asks errno all the same, and an
\* EINTR left there by an earlier call makes it try again.
WriteNothing ==
  /\ InCall("writen") /\ done < want
  /\ errno # "EINTR"
  /\ ReturnError(0, want - done)
  /\ UNCHANGED <<newlines, off, rioVars, errno, usr, outVars>>

\* The echo is done: the caller goes back to reading.
WritenReturn ==
  /\ InCall("writen") /\ done = want
  /\ Return(0)
  /\ UNCHANGED <<newlines, off, rioVars, errno, usr, histVars, outVars>>

-----------------------------------------------------------------------------
Read ==
  \/ ReadnSome \/ ReadnInterrupted \/ ReadnError \/ ReadnReturn
  \/ RefillSome \/ RefillInterrupted \/ RefillError \/ RefillEof
  \/ CopyMany \/ CopyByte \/ BufferedReturn

Write ==
  WriteSome \/ WriteInterrupted \/ WriteError \/ WriteNothing \/ WritenReturn

Next ==
  \/ rio_readinitb
  \/ \E o \in Reads, n \in Sizes : Call(o, n)
  \/ CallWriten \/ UnixError
  \/ Read \/ Write

Spec == Init /\ [][Next]_vars

\* A call keeps running, and the kernel does not interrupt every one of its
\* reads and writes for ever.
Fairness ==
  /\ WF_vars(ReadnReturn \/ RefillEof \/ CopyMany \/ CopyByte \/ BufferedReturn \/ WritenReturn)
  /\ WF_vars(ReadnSome \/ RefillSome \/ WriteSome)

FairSpec == Spec /\ Fairness
-----------------------------------------------------------------------------
(* Properties.                                                             *)

\* Type of the whole state.
TypeOK ==
  /\ newlines \in Texts
  /\ off \in 0 .. Total
  /\ cnt \in -1 .. BUFSIZE /\ ptr \in 0 .. BUFSIZE
  /\ buf \in [0 .. BUFSIZE - 1 -> Cell]
  /\ errno \in {"none", "EINTR", "EIO"}
  /\ usr \in [0 .. MAXLINE - 1 -> Cell]
  /\ op \in Reads \cup {"uninit", "idle", "writen"}
  /\ want \in 0 .. MAXLINE /\ done \in 0 .. want /\ ret \in -1 .. MAXLINE
  /\ status \in {"running", "exited"}
  /\ base \in 0 .. Total /\ lost \in 0 .. Total
  /\ out \in [1 .. Total -> Cell] /\ nout \in 0 .. Total

Unread == IF cnt > 0 THEN cnt ELSE 0

\* The k bytes from the start of the caller's buffer are those after the first t.
Holds(t, k) == \A i \in 0 .. k - 1 : usr[i] = t + 1 + i

\* What the kernel has handed over is what the calls have consumed, what the
\* current call has copied, and what the rio_t still holds, in this order and
\* with nothing lost or repeated, whatever read cut short or a signal interrupted.
StreamKept ==
  op # "uninit" =>
    /\ \A i \in 0 .. Unread - 1 : buf[ptr + i] = off - Unread + 1 + i
    /\ off = base + (IF op \in Reads THEN done ELSE 0) + Unread
    /\ op \in Reads => Holds(base, done)
    /\ op = "idle" => Holds(base - ret, ret)
    /\ op = "writen" => Holds(base - want, want)

\* Bytes the last read returned and rio_writen has not delivered yet.
Pending == IF op = "writen" THEN want - done ELSE IF ret > 0 THEN ret ELSE 0

\* Every byte consumed reached the peer once and in order, is about to, or was
\* dropped by a call that returned -1; without such a call the peer has exactly
\* the beginning of the stream.
EchoAccounted ==
  /\ base = nout + lost + Pending
  /\ \A i \in 1 .. nout : i <= out[i] /\ out[i] <= base - Pending
  /\ \A i, k \in 1 .. nout : i < k => out[i] < out[k]
  /\ lost = 0 => \A i \in 1 .. nout : out[i] = i

\* A read never writes at or above the size it was given, and a line it returns
\* ends in '\0' (with maxlen = 1 and at the end of the file there is no line).
LineFits ==
  [][ /\ op \in Reads => \A i \in want .. MAXLINE - 1 : usr'[i] = usr[i]
      /\ op = "readlineb" /\ op' = "idle" /\ ret' > 0 => ret' < want /\ usr'[ret'] = NUL ]_vars

\* The calls take from the stream what the abstract calls take.
AbsCall == IF op \in Reads THEN [op |-> op, n |-> want] ELSE [op |-> "idle", n |-> 0]

AbsData ==
  IF op = "writen" THEN [i \in 0 .. want - 1 |-> usr[i]]
  ELSE IF op = "idle" THEN [i \in 0 .. ret - 1 |-> usr[i]]
  ELSE [i \in {} |-> 0]

Stream == INSTANCE ByteStream WITH taken <- base, call <- AbsCall, data <- AbsData

ImplementsStream == Stream!Spec

\* Every call returns, also at the end of the file and however often it is
\* interrupted in between.
CallsReturn == op \notin {"uninit", "idle"} ~> op = "idle"
=============================================================================
