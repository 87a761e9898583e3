----------------------------- MODULE RioProofs ------------------------------
(***************************************************************************)
(* Proofs about Rio.tla: no byte is lost, repeated or put out of order     *)
(* between the kernel, the rio_t, the caller and the peer, and the calls   *)
(* implement the abstract byte stream, for every stream, buffer and size.  *)
(***************************************************************************)
EXTENDS Rio, TLAPS

\* What the control state says about the other registers of a call.
Control ==
  /\ op \in Reads => want >= 1
  /\ op \in {"uninit", "idle"} => want = 0 /\ done = 0
  /\ op # "idle" => ret = 0
  /\ op = "uninit" => off = 0 /\ base = 0 /\ lost = 0 /\ nout = 0
  /\ op # "uninit" => ptr + Unread <= BUFSIZE
  /\ op = "readn" => Unread = 0
  /\ ret <= base /\ (op = "writen" => want <= base)

\* A line in progress has room for its '\0' and has met no newline.
LineInProgress ==
  op = "readlineb" => done < want /\ \A i \in 1 .. done : base + i \notin newlines

IInv == TypeOK /\ Control /\ StreamKept /\ EchoAccounted /\ LineInProgress

USE DEF NUL, JUNK, Cell, Reads, Buffered, Least, Unread, Pending, Holds

LEMMA SetCell ==
  ASSUME NEW u \in [0 .. MAXLINE - 1 -> Cell], NEW i \in 0 .. MAXLINE - 1, NEW v \in Cell
  PROVE  /\ [u EXCEPT ![i] = v] \in [0 .. MAXLINE - 1 -> Cell]
         /\ [u EXCEPT ![i] = v][i] = v
         /\ \A j \in 0 .. MAXLINE - 1 : j # i => [u EXCEPT ![i] = v][j] = u[j]
<1> HIDE DEF Cell
<1> QED OBVIOUS

LEMMA InitIInv == Init => IInv
  BY RioAssumption, SMT DEF Init, IInv, TypeOK, Control, StreamKept, EchoAccounted, LineInProgress

LEMMA Steprio_readinitb ==
  ASSUME IInv, rio_readinitb
  PROVE  IInv'
<1> USE RioAssumption DEF IInv, TypeOK, Control, StreamKept, rio_readinitb, rioVars, histVars, outVars
<1>1. TypeOK'
  BY SMTT(40) DEF EchoAccounted, LineInProgress
<1>2. Control'
  BY SMTT(40) DEF LineInProgress
<1>3. StreamKept'
  BY SMTT(40)
<1>4. EchoAccounted'
  BY SMTT(40) DEF EchoAccounted
<1>5. LineInProgress'
  BY SMTT(40) DEF LineInProgress
<1> QED
  BY <1>1, <1>2, <1>3, <1>4, <1>5

LEMMA StepCall ==
  ASSUME IInv, NEW o \in Reads, NEW n \in Sizes, Call(o, n)
  PROVE  IInv'
<1> USE RioAssumption DEF IInv, TypeOK, Control, StreamKept, Call, rioVars, histVars, outVars
<1>1. TypeOK'
  BY SMTT(40) DEF EchoAccounted, LineInProgress
<1>2. Control'
  BY SMTT(40) DEF LineInProgress
<1>3. StreamKept'
  BY SMTT(40)
<1>4. EchoAccounted'
  BY SMTT(40) DEF EchoAccounted
<1>5. LineInProgress'
  BY SMTT(40) DEF LineInProgress
<1> QED
  BY <1>1, <1>2, <1>3, <1>4, <1>5

LEMMA StepCallWriten ==
  ASSUME IInv, CallWriten
  PROVE  IInv'
<1> USE RioAssumption DEF IInv, TypeOK, Control, StreamKept, CallWriten, rioVars, histVars, outVars
<1>1. TypeOK'
  BY SMTT(40) DEF EchoAccounted, LineInProgress
<1>2. Control'
  BY SMTT(40) DEF LineInProgress
<1>3. StreamKept'
  BY SMTT(40)
<1>4. EchoAccounted'
  BY SMTT(40) DEF EchoAccounted
<1>5. LineInProgress'
  BY SMTT(40) DEF LineInProgress
<1> QED
  BY <1>1, <1>2, <1>3, <1>4, <1>5

LEMMA StepUnixError ==
  ASSUME IInv, UnixError
  PROVE  IInv'
<1> USE RioAssumption DEF IInv, TypeOK, Control, StreamKept, UnixError, callVars, rioVars, histVars, outVars
<1>1. TypeOK'
  BY SMTT(40) DEF EchoAccounted, LineInProgress
<1>2. Control'
  BY SMTT(40) DEF LineInProgress
<1>3. StreamKept'
  BY SMTT(40)
<1>4. EchoAccounted'
  BY SMTT(40) DEF EchoAccounted
<1>5. LineInProgress'
  BY SMTT(40) DEF LineInProgress
<1> QED
  BY <1>1, <1>2, <1>3, <1>4, <1>5

LEMMA StepReadnSome ==
  ASSUME IInv, ReadnSome
  PROVE  IInv'
<1> USE RioAssumption DEF IInv, TypeOK, Control, StreamKept, ReadnSome, InCall, rioVars, histVars, outVars
<1>1. TypeOK'
  BY SMTT(40) DEF EchoAccounted, LineInProgress
<1>2. Control'
  BY SMTT(40) DEF LineInProgress
<1>3. StreamKept'
  BY SMTT(40)
<1>4. EchoAccounted'
  BY SMTT(40) DEF EchoAccounted
<1>5. LineInProgress'
  BY SMTT(40) DEF LineInProgress
<1> QED
  BY <1>1, <1>2, <1>3, <1>4, <1>5

LEMMA StepReadnInterrupted ==
  ASSUME IInv, ReadnInterrupted
  PROVE  IInv'
<1> USE RioAssumption DEF IInv, TypeOK, Control, StreamKept, ReadnInterrupted, InCall, callVars, rioVars, histVars, outVars
<1>1. TypeOK'
  BY SMTT(40) DEF EchoAccounted, LineInProgress
<1>2. Control'
  BY SMTT(40) DEF LineInProgress
<1>3. StreamKept'
  BY SMTT(40)
<1>4. EchoAccounted'
  BY SMTT(40) DEF EchoAccounted
<1>5. LineInProgress'
  BY SMTT(40) DEF LineInProgress
<1> QED
  BY <1>1, <1>2, <1>3, <1>4, <1>5

LEMMA StepReadnError ==
  ASSUME IInv, ReadnError
  PROVE  IInv'
<1> USE RioAssumption DEF IInv, TypeOK, Control, StreamKept, ReadnError, InCall, ReturnError, rioVars, histVars, outVars
<1>1. TypeOK'
  BY SMTT(40) DEF EchoAccounted, LineInProgress
<1>2. Control'
  BY SMTT(40) DEF LineInProgress
<1>3. StreamKept'
  BY SMTT(40)
<1>4. EchoAccounted'
  BY SMTT(40) DEF EchoAccounted
<1>5. LineInProgress'
  BY SMTT(40) DEF LineInProgress
<1> QED
  BY <1>1, <1>2, <1>3, <1>4, <1>5

LEMMA StepReadnReturn ==
  ASSUME IInv, ReadnReturn
  PROVE  IInv'
<1> USE RioAssumption DEF IInv, TypeOK, Control, StreamKept, ReadnReturn, InCall, ReturnRead, Return, rioVars, histVars, outVars
<1>1. TypeOK'
  BY SMTT(40) DEF EchoAccounted, LineInProgress
<1>2. Control'
  BY SMTT(40) DEF LineInProgress
<1>3. StreamKept'
  BY SMTT(40)
<1>4. EchoAccounted'
  BY SMTT(40) DEF EchoAccounted
<1>5. LineInProgress'
  BY SMTT(40) DEF LineInProgress
<1> QED
  BY <1>1, <1>2, <1>3, <1>4, <1>5

LEMMA StepRefillSome ==
  ASSUME IInv, RefillSome
  PROVE  IInv'
<1> USE RioAssumption DEF IInv, TypeOK, Control, StreamKept, RefillSome, Wanting, callVars, rioVars, histVars, outVars
<1>1. TypeOK'
  BY SMTT(40) DEF EchoAccounted, LineInProgress
<1>2. Control'
  BY SMTT(40) DEF LineInProgress
<1>3. StreamKept'
  <2>1. PICK k \in 1 .. Least(BUFSIZE, Total - off) :
           /\ buf' = [i \in 0 .. BUFSIZE - 1 |-> IF i < k THEN off + 1 + i ELSE buf[i]]
           /\ off' = off + k /\ cnt' = k /\ ptr' = 0
    OBVIOUS
  <2>2. k \in Nat \ {0} /\ k <= BUFSIZE /\ Unread = 0 /\ Unread' = k
    BY <2>1, SMT
  <2>3. \A i \in 0 .. k - 1 : buf'[i] = off + 1 + i
    BY <2>1, <2>2, SMT
  <2>4. off' = base' + (IF op' \in Reads THEN done' ELSE 0) + Unread'
    BY <2>1, <2>2, SMT DEF callVars
  <2>5. (op' \in Reads => Holds(base, done)') /\ op' \notin {"idle", "writen"}
    BY SMT DEF callVars
  <2> QED BY <2>1, <2>2, <2>3, <2>4, <2>5, SMT
<1>4. EchoAccounted'
  BY SMTT(40) DEF EchoAccounted
<1>5. LineInProgress'
  BY SMTT(40) DEF LineInProgress
<1> QED
  BY <1>1, <1>2, <1>3, <1>4, <1>5

LEMMA StepRefillInterrupted ==
  ASSUME IInv, RefillInterrupted
  PROVE  IInv'
<1> USE RioAssumption DEF IInv, TypeOK, Control, StreamKept, RefillInterrupted, Wanting, callVars, rioVars, histVars, outVars
<1>1. TypeOK'
  BY SMTT(40) DEF EchoAccounted, LineInProgress
<1>2. Control'
  BY SMTT(40) DEF LineInProgress
<1>3. StreamKept'
  BY SMTT(40)
<1>4. EchoAccounted'
  BY SMTT(40) DEF EchoAccounted
<1>5. LineInProgress'
  BY SMTT(40) DEF LineInProgress
<1> QED
  BY <1>1, <1>2, <1>3, <1>4, <1>5

LEMMA StepRefillError ==
  ASSUME IInv, RefillError
  PROVE  IInv'
<1> USE RioAssumption DEF IInv, TypeOK, Control, StreamKept, RefillError, Wanting, ReturnError, rioVars, histVars, outVars
<1>1. TypeOK'
  BY SMTT(40) DEF EchoAccounted, LineInProgress
<1>2. Control'
  BY SMTT(40) DEF LineInProgress
<1>3. StreamKept'
  BY SMTT(40)
<1>4. EchoAccounted'
  BY SMTT(40) DEF EchoAccounted
<1>5. LineInProgress'
  BY SMTT(40) DEF LineInProgress
<1> QED
  BY <1>1, <1>2, <1>3, <1>4, <1>5

LEMMA StepRefillEof ==
  ASSUME IInv, RefillEof
  PROVE  IInv'
<1> USE RioAssumption DEF IInv, TypeOK, Control, StreamKept, RefillEof, Wanting, ReturnRead, Return, Terminate, rioVars, histVars, outVars
<1>1. TypeOK'
  BY SMTT(40) DEF EchoAccounted, LineInProgress
<1>2. Control'
  BY SMTT(40) DEF LineInProgress
<1>3. StreamKept'
  BY SMTT(40)
<1>4. EchoAccounted'
  BY SMTT(40) DEF EchoAccounted
<1>5. LineInProgress'
  BY SMTT(40) DEF LineInProgress
<1> QED
  BY <1>1, <1>2, <1>3, <1>4, <1>5

LEMMA StepCopyMany ==
  ASSUME IInv, CopyMany
  PROVE  IInv'
<1> DEFINE c == Least(want - done, cnt)
<1>1. TypeOK /\ Control /\ StreamKept /\ EchoAccounted /\ LineInProgress
  BY DEF IInv
<1>2. /\ op = "readnb" /\ cnt > 0 /\ done < want
      /\ usr' = [i \in 0 .. MAXLINE - 1 |->
                   IF i \in done .. done + c - 1 THEN buf[ptr + i - done] ELSE usr[i]]
      /\ ptr' = ptr + c /\ cnt' = cnt - c /\ done' = done + c
      /\ UNCHANGED <<newlines, off, buf, errno, op, want, ret, status, base, lost, out, nout>>
  BY DEF CopyMany, Wanting, InCall, histVars, outVars
<1>3. /\ cnt \in Int /\ ptr \in Nat /\ done \in Nat /\ want \in 0 .. MAXLINE
      /\ off \in 0 .. Total /\ base \in 0 .. Total
  BY <1>1, RioAssumption, SMT DEF TypeOK
<1>4. c \in Nat \ {0} /\ c <= cnt /\ c <= want - done /\ Unread = cnt /\ Unread' = cnt - c
  <2>1. Unread = cnt
    BY <1>2
  <2>2. c \in Nat \ {0} /\ c <= cnt /\ c <= want - done
    BY <1>2, <1>3, SMT
  <2>3. Unread' = cnt - c
    BY <1>2, <1>3, <2>2, SMT
  <2> QED BY <2>1, <2>2, <2>3
<1> HIDE DEF c
<1>5. ptr + cnt <= BUFSIZE
  BY <1>1, <1>2, <1>4, SMT DEF Control
<1>6. /\ \A i \in 0 .. cnt - 1 : buf[ptr + i] = off - cnt + 1 + i
      /\ off = base + done + cnt
      /\ \A i \in 0 .. done - 1 : usr[i] = base + 1 + i
  BY <1>1, <1>2, <1>4, SMT DEF StreamKept
<1>7. ASSUME NEW i \in 0 .. done + c - 1 PROVE i \in 0 .. MAXLINE - 1 /\ usr'[i] = base + 1 + i
  <2>1. i \in 0 .. MAXLINE - 1
    BY <1>3, <1>4, RioAssumption, SMT
  <2>2. CASE i < done
    BY <1>2, <1>3, <1>4, <1>6, <2>1, <2>2, SMT
  <2>3. CASE i >= done
    <3>1. i - done \in 0 .. cnt - 1 /\ ptr + (i - done) = ptr + i - done /\ i \in done .. done + c - 1
      BY <1>3, <1>4, <2>3, SMT
    <3>2. buf[ptr + i - done] = off - cnt + 1 + (i - done)
      BY <1>6, <3>1
    <3> QED BY <1>2, <1>3, <1>6, <2>1, <3>1, <3>2, SMT
  <2> QED BY <1>3, <1>4, <2>1, <2>2, <2>3, SMT
<1>8. usr' \in [0 .. MAXLINE - 1 -> Cell]
  <2>1. \A i \in 0 .. done + c - 1 : usr'[i] \in Cell
    BY <1>3, <1>4, <1>6, <1>7, RioAssumption, SMT
  <2>2. usr \in [0 .. MAXLINE - 1 -> Cell]
    BY <1>1 DEF TypeOK
  <2>3. \A i \in 0 .. MAXLINE - 1 : i \notin done .. done + c - 1 => usr'[i] = usr[i]
    BY <1>2
  <2>4. \A i \in 0 .. MAXLINE - 1 : i \in done .. done + c - 1 => i \in 0 .. done + c - 1
    BY <1>3, <1>4, SMT
  <2> HIDE DEF Cell
  <2>5. \A i \in 0 .. MAXLINE - 1 : usr'[i] \in Cell
    BY <2>1, <2>2, <2>3, <2>4
  <2> QED BY <1>2, <2>5
<1>9. TypeOK'
  BY <1>1, <1>2, <1>3, <1>4, <1>5, <1>8, RioAssumption, SMT DEF TypeOK
<1>10. Control'
  BY <1>1, <1>2, <1>3, <1>4, <1>5, SMT DEF Control
<1>11. StreamKept'
  <2>1. ASSUME NEW i \in 0 .. cnt - c - 1 PROVE buf'[ptr' + i] = off' - (cnt - c) + 1 + i
    <3>1. i + c \in 0 .. cnt - 1 /\ ptr' + i = ptr + (i + c)
      BY <1>2, <1>3, <1>4, SMT
    <3>2. buf[ptr + (i + c)] = off - cnt + 1 + (i + c)
      BY <1>6, <3>1
    <3> QED BY <1>2, <1>3, <1>4, <3>1, <3>2, SMT
  <2>2. off' = base' + done' + Unread' /\ op' = "readnb"
    BY <1>2, <1>3, <1>4, <1>6, SMT
  <2>3. Holds(base, done)'
    <3>1. done' = done + c /\ base' = base
      BY <1>2
    <3>2. \A i \in 0 .. done + c - 1 : usr'[i] = base + 1 + i
      BY <1>7
    <3> QED BY <1>3, <1>4, <3>1, <3>2, SMT
  <2> QED BY <1>4, <2>1, <2>2, <2>3 DEF StreamKept
<1>12. EchoAccounted' /\ LineInProgress'
  BY <1>1, <1>2 DEF EchoAccounted, LineInProgress, Control
<1> QED BY <1>9, <1>10, <1>11, <1>12 DEF IInv

LEMMA StepCopyByte ==
  ASSUME IInv, CopyByte
  PROVE  IInv'
<1>1. TypeOK /\ Control /\ StreamKept /\ EchoAccounted /\ LineInProgress
  BY DEF IInv
<1>2. /\ op = "readlineb" /\ cnt > 0 /\ done + 1 < want
      /\ ptr' = ptr + 1 /\ cnt' = cnt - 1
      /\ UNCHANGED <<newlines, off, buf, errno, out, nout, lost, status>>
      /\ ret = 0
  BY <1>1 DEF CopyByte, Wanting, InCall, histVars, outVars, Control, ReturnRead, Return
<1>3. /\ cnt \in Int /\ ptr \in Nat /\ done \in Nat /\ want \in 0 .. MAXLINE
      /\ off \in 0 .. Total /\ base \in 0 .. Total /\ lost \in Nat /\ nout \in Nat
      /\ usr \in [0 .. MAXLINE - 1 -> Cell]
  BY <1>1, RioAssumption, SMT DEF TypeOK
<1>4. Unread = cnt /\ Unread' = cnt - 1
  BY <1>2, <1>3, SMT
<1>5. /\ \A i \in 0 .. cnt - 1 : buf[ptr + i] = off - cnt + 1 + i
      /\ off = base + done + cnt
      /\ \A i \in 0 .. done - 1 : usr[i] = base + 1 + i
  BY <1>1, <1>2, <1>4, SMT DEF StreamKept
<1>6. ptr + cnt <= BUFSIZE
  BY <1>1, <1>2, <1>4, SMT DEF Control
<1>7. buf[ptr] = base + done + 1
  <2>1. 0 \in 0 .. cnt - 1 /\ ptr + 0 = ptr
    BY <1>2, <1>3, SMT
  <2>2. buf[ptr + 0] = off - cnt + 1 + 0
    BY <1>5, <2>1
  <2> QED BY <1>3, <1>5, <2>1, <2>2, SMT
<1>8. \A i \in 0 .. Unread' - 1 : buf'[ptr' + i] = off' - Unread' + 1 + i
  <2> SUFFICES ASSUME NEW i \in 0 .. cnt - 2 PROVE buf'[ptr' + i] = off' - (cnt - 1) + 1 + i
    BY <1>3, <1>4, SMT
  <2>1. i + 1 \in 0 .. cnt - 1 /\ ptr' + i = ptr + (i + 1)
    BY <1>2, <1>3, SMT
  <2>2. buf[ptr + (i + 1)] = off - cnt + 1 + (i + 1)
    BY <1>5, <2>1
  <2> QED BY <1>2, <1>3, <2>1, <2>2, SMT
<1>9. base + done + 1 \in Cell /\ NUL \in Cell /\ done \in 0 .. MAXLINE - 1 /\ done + 1 \in 0 .. MAXLINE - 1
  BY <1>2, <1>3, <1>5, RioAssumption, SMT
<1> DEFINE u == [usr EXCEPT ![done] = base + done + 1]
<1>u. /\ u \in [0 .. MAXLINE - 1 -> Cell] /\ u[done] = base + done + 1
      /\ \A j \in 0 .. MAXLINE - 1 : j # done => u[j] = usr[j]
  BY <1>3, <1>9, SetCell
<1> HIDE DEF u
<1>v. \A i \in 0 .. done : i \in 0 .. MAXLINE - 1 /\ i # done + 1 /\ u[i] = base + 1 + i
  <2> TAKE i \in 0 .. done
  <2>1. i \in 0 .. MAXLINE - 1 /\ i # done + 1
    BY <1>3, <1>9, RioAssumption, SMT
  <2>2. CASE i = done
    BY <1>3, <1>u, <2>2, <2>1, SMT
  <2>3. CASE i # done
    <3>1. i \in 0 .. done - 1
      BY <1>3, <2>3, SMT
    <3> QED BY <1>5, <1>u, <2>1, <2>3, <3>1
  <2> QED BY <2>1, <2>2, <2>3
<1>10. CASE buf[ptr] \in newlines
  <2>1. /\ usr' = [u EXCEPT ![done + 1] = NUL]
        /\ op' = "idle" /\ want' = 0 /\ done' = 0 /\ ret' = done + 1 /\ base' = base + (done + 1)
    BY <1>7, <1>10 DEF CopyByte, ReturnRead, Return, Terminate, u
  <2>2. usr' \in [0 .. MAXLINE - 1 -> Cell]
    BY <1>9, <1>u, <2>1, SetCell
  <2>3. \A i \in 0 .. done : usr'[i] = base + 1 + i
    BY <1>9, <1>u, <1>v, <2>1, SetCell
  <2>4. TypeOK'
    BY <1>1, <1>2, <1>3, <1>5, <1>6, <1>9, <2>1, <2>2, RioAssumption, SMTT(30) DEF TypeOK
  <2>5. Control'
    BY <1>1, <1>2, <1>3, <1>4, <1>6, <2>1, SMT DEF Control
  <2>6. StreamKept'
    <3>1. off' = base' + Unread'
      BY <1>2, <1>3, <1>4, <1>5, <2>1, SMT
    <3>2. Holds(base - ret, ret)'
      <4>1. base' - ret' = base /\ ret' - 1 = done
        BY <1>3, <2>1, SMT
      <4> QED BY <2>3, <4>1
    <3>3. op' = "idle" /\ base' + 0 = base'
      BY <1>3, <2>1, SMT
    <3> QED BY <1>8, <3>1, <3>2, <3>3 DEF StreamKept
  <2>7. EchoAccounted'
    BY <1>1, <1>2, <1>3, <2>1, SMT DEF EchoAccounted
  <2> QED BY <2>1, <2>4, <2>5, <2>6, <2>7 DEF IInv, LineInProgress
<1>11. CASE buf[ptr] \notin newlines
  <2>1. /\ usr' = u
        /\ done' = done + 1 /\ UNCHANGED <<op, want, ret, base>>
    BY <1>7, <1>11 DEF CopyByte, histVars, u
  <2>2. usr' \in [0 .. MAXLINE - 1 -> Cell]
    BY <1>u, <2>1
  <2>3. \A i \in 0 .. done : usr'[i] = base + 1 + i
    BY <1>v, <2>1
  <2>4. TypeOK'
    BY <1>1, <1>2, <1>3, <1>5, <1>6, <2>1, <2>2, RioAssumption, SMTT(30) DEF TypeOK
  <2>5. Control'
    BY <1>1, <1>2, <1>3, <1>4, <1>6, <2>1, SMT DEF Control
  <2>6. StreamKept'
    <3>1. off' = base' + done' + Unread'
      BY <1>2, <1>3, <1>4, <1>5, <2>1, SMT
    <3>2. Holds(base, done)'
      BY <1>3, <2>1, <2>3, SMT
    <3> QED BY <1>2, <1>8, <2>1, <3>1, <3>2 DEF StreamKept
  <2>7. EchoAccounted'
    BY <1>1, <1>2, <1>3, <2>1, SMT DEF EchoAccounted
  <2>8. LineInProgress'
    <3>1. \A i \in 1 .. done + 1 : base + i \notin newlines
      BY <1>1, <1>2, <1>3, <1>7, <1>11, SMT DEF LineInProgress
    <3> QED BY <1>2, <1>3, <2>1, <3>1, SMT DEF LineInProgress
  <2> QED BY <2>4, <2>5, <2>6, <2>7, <2>8 DEF IInv
<1> QED BY <1>10, <1>11

LEMMA StepBufferedReturn ==
  ASSUME IInv, BufferedReturn
  PROVE  IInv'
<1> USE RioAssumption DEF IInv, TypeOK, Control, StreamKept, BufferedReturn, Wanting, ReturnRead, Return, Terminate, rioVars, histVars, outVars
<1>a. /\ op \in Buffered /\ Unread' = Unread /\ buf' = buf /\ ptr' = ptr /\ off' = off
      /\ op' = "idle" /\ ret' = done /\ base' = base + done
      /\ off = base + done + Unread
  BY SMTT(30)
<1>b. /\ want' = 0 /\ done' = 0 /\ UNCHANGED <<newlines, off, cnt, ptr, buf, errno, lost, out, nout, status>>
  BY Zenon
<1>c. usr' \in [0 .. MAXLINE - 1 -> Cell]
  <2>1. NUL \in Cell
    BY DEF NUL, Cell
  <2>2. CASE op = "readlineb"
    <3>1. done \in 0 .. MAXLINE - 1
      BY <2>2, SMTT(30) DEF LineInProgress
    <3> QED BY <2>1, <2>2, <3>1, SetCell
  <2>3. CASE op = "readnb"
    BY <2>3, SMTT(30)
  <2> QED BY <1>a, <2>2, <2>3 DEF Buffered
<1>d. base' \in 0 .. Total /\ ret' \in 0 .. MAXLINE
  BY <1>a, SMTT(30)
<1>1. TypeOK'
  BY <1>a, <1>b, <1>c, <1>d, SMTT(30)
<1>2. Control'
  BY SMTT(40) DEF LineInProgress
<1>3. StreamKept'
  <2>1. Holds(base, done)
    BY <1>a, SMTT(30)
  <2>2. \A i \in 0 .. done - 1 : usr'[i] = usr[i]
    BY SMTT(30)
  <2>3. Holds(base - ret, ret)'
    BY <1>a, <2>1, <2>2, SMTT(30)
  <2> QED BY <1>a, <2>3, SMTT(30)
<1>4. EchoAccounted'
  BY SMTT(40) DEF EchoAccounted
<1>5. LineInProgress'
  BY SMTT(40) DEF LineInProgress
<1> QED
  BY <1>1, <1>2, <1>3, <1>4, <1>5

LEMMA StepWriteInterrupted ==
  ASSUME IInv, WriteInterrupted
  PROVE  IInv'
<1> USE RioAssumption DEF IInv, TypeOK, Control, StreamKept, WriteInterrupted, InCall, callVars, rioVars, histVars, outVars
<1>1. TypeOK'
  BY SMTT(40) DEF EchoAccounted, LineInProgress
<1>2. Control'
  BY SMTT(40) DEF LineInProgress
<1>3. StreamKept'
  BY SMTT(40)
<1>4. EchoAccounted'
  BY SMTT(40) DEF EchoAccounted
<1>5. LineInProgress'
  BY SMTT(40) DEF LineInProgress
<1> QED
  BY <1>1, <1>2, <1>3, <1>4, <1>5

LEMMA StepWriteError ==
  ASSUME IInv, WriteError
  PROVE  IInv'
<1> USE RioAssumption DEF IInv, TypeOK, Control, StreamKept, WriteError, InCall, ReturnError, rioVars, histVars, outVars
<1>1. TypeOK'
  BY SMTT(40) DEF EchoAccounted, LineInProgress
<1>2. Control'
  BY SMTT(40) DEF LineInProgress
<1>3. StreamKept'
  BY SMTT(40)
<1>4. EchoAccounted'
  BY SMTT(40) DEF EchoAccounted
<1>5. LineInProgress'
  BY SMTT(40) DEF LineInProgress
<1> QED
  BY <1>1, <1>2, <1>3, <1>4, <1>5

LEMMA StepWriteNothing ==
  ASSUME IInv, WriteNothing
  PROVE  IInv'
<1> USE RioAssumption DEF IInv, TypeOK, Control, StreamKept, WriteNothing, InCall, ReturnError, rioVars, histVars, outVars
<1>1. TypeOK'
  BY SMTT(40) DEF EchoAccounted, LineInProgress
<1>2. Control'
  BY SMTT(40) DEF LineInProgress
<1>3. StreamKept'
  BY SMTT(40)
<1>4. EchoAccounted'
  BY SMTT(40) DEF EchoAccounted
<1>5. LineInProgress'
  BY SMTT(40) DEF LineInProgress
<1> QED
  BY <1>1, <1>2, <1>3, <1>4, <1>5

LEMMA StepWritenReturn ==
  ASSUME IInv, WritenReturn
  PROVE  IInv'
<1> USE RioAssumption DEF IInv, TypeOK, Control, StreamKept, WritenReturn, InCall, Return, rioVars, histVars, outVars
<1>1. TypeOK'
  BY SMTT(40) DEF EchoAccounted, LineInProgress
<1>2. Control'
  BY SMTT(40) DEF LineInProgress
<1>3. StreamKept'
  BY SMTT(40)
<1>4. EchoAccounted'
  BY SMTT(40) DEF EchoAccounted
<1>5. LineInProgress'
  BY SMTT(40) DEF LineInProgress
<1> QED
  BY <1>1, <1>2, <1>3, <1>4, <1>5

LEMMA StepWriteSome ==
  ASSUME IInv, WriteSome
  PROVE  IInv'
<1>1. TypeOK /\ Control /\ StreamKept /\ EchoAccounted /\ LineInProgress
  BY DEF IInv
<1>2. PICK c \in 1 .. want - done :
        /\ out' = [i \in 1 .. Total |->
                     IF i \in nout + 1 .. nout + c THEN usr[done + i - nout - 1] ELSE out[i]]
        /\ nout' = nout + c /\ done' = done + c
  BY DEF WriteSome
<1>3. /\ op = "writen" /\ done < want /\ ret = 0
      /\ UNCHANGED <<newlines, off, cnt, ptr, buf, errno, usr, op, want, ret, status, base, lost>>
  BY <1>1 DEF WriteSome, InCall, rioVars, histVars, Control
<1>4. /\ done \in Nat /\ want \in 0 .. MAXLINE /\ base \in 0 .. Total /\ lost \in Nat
      /\ nout \in Nat /\ c \in Nat \ {0} /\ done + c <= want
  BY <1>1, <1>2, <1>3, RioAssumption, SMT DEF TypeOK
<1>5. base = nout + lost + (want - done) /\ Pending = want - done /\ Pending' = want - done - c
  <2>1. Pending = want - done
    BY <1>3
  <2>2. Pending' = want - (done + c)
    BY <1>2, <1>3
  <2>3. base = nout + lost + Pending
    BY <1>1 DEF EchoAccounted
  <2>4. want - (done + c) = want - done - c
    BY <1>4, SMT
  <2> HIDE DEF Pending
  <2> QED BY <2>1, <2>2, <2>3, <2>4
<1>6. \A i \in 0 .. want - 1 : usr[i] = base - want + 1 + i
  BY <1>1, <1>3 DEF StreamKept
<1>7. \A i \in 1 .. nout' : /\ i \in 1 .. Total
                            /\ i > nout => out'[i] = lost + i
                            /\ i <= nout => out'[i] = out[i]
  <2> TAKE i \in 1 .. nout'
  <2>1. i \in 1 .. Total /\ i <= nout + c
    BY <1>2, <1>4, <1>5, RioAssumption, SMT
  <2>2. CASE i <= nout
    <3>1. i \notin nout + 1 .. nout + c /\ ~(i > nout)
      BY <1>4, <2>1, <2>2, SMT
    <3> QED BY <1>2, <2>1, <3>1
  <2>3. CASE i > nout
    <3>1. i \in nout + 1 .. nout + c
      BY <1>4, <2>1, <2>3, SMT
    <3>2. out'[i] = usr[done + i - nout - 1]
      BY <1>2, <2>1, <3>1
    <3>3. done + i - nout - 1 \in 0 .. want - 1
      BY <1>4, <2>1, <2>3, SMT
    <3>4. usr[done + i - nout - 1] = base - want + 1 + (done + i - nout - 1)
      BY <1>6, <3>3
    <3>5. base - want + 1 + (done + i - nout - 1) = lost + i
      BY <1>4, <1>5, <2>1, SMT
    <3>6. ~(i <= nout)
      BY <1>4, <2>1, <2>3, SMT
    <3> QED BY <2>1, <3>2, <3>4, <3>5, <3>6
  <2>4. i <= nout \/ i > nout
    BY <1>2, <1>4, SMT
  <2> QED BY <2>2, <2>3, <2>4
<1>8. out' \in [1 .. Total -> Cell]
  <2>1. \A i \in 1 .. Total : i \in nout + 1 .. nout + c => i > nout /\ i \in 1 .. nout' /\ lost + i \in Cell
    <3> TAKE i \in 1 .. Total
    <3> HAVE i \in nout + 1 .. nout + c
    <3>1. Total \in Nat /\ i \in Int /\ nout + 1 <= i /\ i <= nout + c
      BY <1>4, RioAssumption, SMT
    <3>2. lost + i <= base
      BY <1>4, <1>5, <3>1, SMT
    <3> QED BY <1>2, <1>4, <3>1, <3>2, SMT
  <2>2. out \in [1 .. Total -> Cell]
    BY <1>1 DEF TypeOK
  <2>3. \A i \in 1 .. Total : out'[i] = IF i \in nout + 1 .. nout + c THEN usr[done + i - nout - 1] ELSE out[i]
    BY <1>2
  <2> HIDE DEF Cell
  <2>4. \A i \in 1 .. Total : out'[i] \in Cell
    BY <1>7, <2>1, <2>2, <2>3
  <2> QED BY <1>2, <2>4
<1>9. TypeOK'
  BY <1>1, <1>2, <1>3, <1>4, <1>5, <1>8, RioAssumption, SMT DEF TypeOK
<1>10. Control'
  BY <1>1, <1>2, <1>3 DEF Control
<1>11. StreamKept'
  BY <1>1, <1>2, <1>3, SMT DEF StreamKept
<1>12. EchoAccounted'
  <2>1. base' - Pending' = nout' + lost /\ base - Pending = nout + lost
    BY <1>2, <1>3, <1>4, <1>5, SMT
  <2>2. \A i \in 1 .. nout : i <= out[i] /\ out[i] <= nout + lost /\ out[i] \in Int
    <3>1. nout <= Total /\ out \in [1 .. Total -> Int]
      BY <1>1, RioAssumption, SMT DEF TypeOK
    <3>2. \A i \in 1 .. nout : i <= out[i] /\ out[i] <= base - Pending
      BY <1>1 DEF EchoAccounted
    <3>3. \A i \in 1 .. nout : i \in 1 .. Total
      BY <1>4, <3>1, RioAssumption, SMT
    <3> QED BY <2>1, <3>1, <3>2, <3>3
  <2>3. \A i \in 1 .. nout' : i <= out'[i] /\ out'[i] <= base' - Pending'
    <3> TAKE i \in 1 .. nout'
    <3>1. CASE i <= nout
      <4>1. i \in 1 .. nout /\ out'[i] = out[i]
        BY <1>2, <1>4, <1>7, <3>1, SMT
      <4>2. i <= out[i] /\ out[i] <= nout + lost /\ out[i] \in Int
        BY <2>2, <4>1
      <4> QED BY <1>2, <1>4, <2>1, <4>1, <4>2, SMT
    <3>2. CASE i > nout
      <4>1. out'[i] = lost + i
        BY <1>7, <3>2
      <4> QED BY <1>2, <1>4, <2>1, <4>1, SMT
    <3> QED BY <1>2, <1>4, <3>1, <3>2, SMT
  <2>4. \A i, k \in 1 .. nout' : i < k => out'[i] < out'[k]
    <3> TAKE i, k \in 1 .. nout'
    <3> HAVE i < k
    <3>1. CASE k <= nout
      <4>1. i \in 1 .. nout /\ k \in 1 .. nout
        BY <1>2, <1>4, <3>1, SMT
      <4>2. out[i] < out[k]
        BY <1>1, <4>1 DEF EchoAccounted
      <4>3. i <= nout
        BY <1>4, <4>1, SMT
      <4> QED BY <1>7, <3>1, <4>2, <4>3
    <3>2. CASE k > nout
      <4>1. out'[k] = lost + k
        BY <1>7, <3>2
      <4>2. CASE i <= nout
        <5>1. i \in 1 .. nout /\ out'[i] = out[i]
          BY <1>2, <1>4, <1>7, <4>2, SMT
        <5>2. out[i] <= nout + lost /\ out[i] \in Int
          BY <2>2, <5>1
        <5> QED BY <1>2, <1>4, <3>2, <4>1, <5>1, <5>2, SMT
      <4>3. CASE i > nout
        <5>1. out'[i] = lost + i
          BY <1>7, <4>3
        <5> QED BY <1>2, <1>4, <4>1, <5>1, SMT
      <4> QED BY <1>2, <1>4, <4>2, <4>3, SMT
    <3> QED BY <1>2, <1>4, <3>1, <3>2, SMT
  <2>5. lost' = 0 => \A i \in 1 .. nout' : out'[i] = i
    BY <1>1, <1>2, <1>3, <1>4, <1>7, SMT DEF EchoAccounted
  <2>6. base' = nout' + lost' + Pending'
    BY <1>2, <1>3, <1>4, <1>5, SMT
  <2> QED BY <2>3, <2>4, <2>5, <2>6 DEF EchoAccounted
<1> QED BY <1>3, <1>9, <1>10, <1>11, <1>12 DEF IInv, LineInProgress

LEMMA Stutter ==
  ASSUME IInv, UNCHANGED vars
  PROVE  IInv'
BY DEF IInv, TypeOK, Control, StreamKept, EchoAccounted, LineInProgress,
       vars, rioVars, callVars, histVars, outVars

LEMMA StepIInv == IInv /\ [Next]_vars => IInv'
<1> SUFFICES ASSUME IInv, [Next]_vars PROVE IInv'
  OBVIOUS
<1>1. CASE rio_readinitb BY <1>1, Steprio_readinitb
<1>2. ASSUME NEW o \in Reads, NEW n \in Sizes, Call(o, n) PROVE IInv'
  BY <1>2, StepCall
<1>3. CASE CallWriten BY <1>3, StepCallWriten
<1>4. CASE UnixError BY <1>4, StepUnixError
<1>5. CASE Read
  BY <1>5, StepReadnSome, StepReadnInterrupted, StepReadnError, StepReadnReturn,
     StepRefillSome, StepRefillInterrupted, StepRefillError, StepRefillEof,
     StepCopyMany, StepCopyByte, StepBufferedReturn DEF Read
<1>6. CASE Write
  BY <1>6, StepWriteSome, StepWriteInterrupted, StepWriteError, StepWriteNothing,
     StepWritenReturn DEF Write
<1>7. CASE UNCHANGED vars BY <1>7, Stutter
<1> QED BY <1>1, <1>2, <1>3, <1>4, <1>5, <1>6, <1>7 DEF Next

LEMMA Inductive == Spec => []IInv
<1> QED BY InitIInv, StepIInv, PTL DEF Spec

\* The types hold in every reachable state, for every stream and every size of
\* the buffers: no index of rio_buf or of the caller's buffer leaves them.
THEOREM RioTypes == Spec => []TypeOK
<1>1. IInv => TypeOK
  BY DEF IInv
<1> QED BY <1>1, Inductive, PTL

\* What the kernel delivered is what the calls consumed, the current call copied
\* and rio_buf still holds, in order: nothing is lost or repeated.
THEOREM RioKeepsStream == Spec => []StreamKept
<1>1. IInv => StreamKept
  BY DEF IInv
<1> QED BY <1>1, Inductive, PTL

\* rio_writen passes on every byte once and in order, except what a call that
\* returned -1 dropped.
THEOREM RioEchoes == Spec => []EchoAccounted
<1>1. IInv => EchoAccounted
  BY DEF IInv
<1> QED BY <1>1, Inductive, PTL

-----------------------------------------------------------------------------
(* What a single step may do.                                              *)

FitsStep ==
  /\ op \in Reads => \A i \in want .. MAXLINE - 1 : usr'[i] = usr[i]
  /\ op = "readlineb" /\ op' = "idle" /\ ret' > 0 => ret' < want /\ usr'[ret'] = NUL

LEMMA StepFits == IInv /\ [Next]_vars => FitsStep
<1> SUFFICES ASSUME IInv, [Next]_vars, op \in Reads PROVE FitsStep
  BY DEF FitsStep
<1>1. /\ done \in 0 .. want /\ want \in 1 .. MAXLINE /\ usr \in [0 .. MAXLINE - 1 -> Cell]
      /\ op = "readlineb" => done < want
      /\ cnt \in Int /\ off \in Int /\ ret = 0
  BY RioAssumption, SMT DEF IInv, TypeOK, Control, LineInProgress
<1>0. /\ \A i \in want .. MAXLINE - 1 : i \in 0 .. MAXLINE - 1 /\ i # done - 1 /\ i >= want
      /\ op = "readlineb" => done \in 0 .. MAXLINE - 1 /\ \A i \in want .. MAXLINE - 1 : i # done
  BY <1>1, RioAssumption, SMT
<1>2. CASE ReadnSome
  <2>1. op = "readn"
    BY <1>2 DEF ReadnSome, InCall
  <2>2. PICK k \in 1 .. Least(want - done, Total - off) :
          usr' = [i \in 0 .. MAXLINE - 1 |->
                    IF i \in done .. done + k - 1 THEN off + 1 + i - done ELSE usr[i]]
    BY <1>2 DEF ReadnSome
  <2>3. \A i \in want .. MAXLINE - 1 : i \notin done .. done + k - 1
    BY <1>1, <2>2, RioAssumption, SMT
  <2> QED BY <1>0, <2>1, <2>2, <2>3 DEF FitsStep
<1>3. CASE ReadnInterrupted \/ ReadnError \/ ReadnReturn
  BY <1>3, SMT DEF ReadnInterrupted, ReadnError, ReadnReturn, InCall, FitsStep
<1>4. CASE RefillSome \/ RefillInterrupted \/ RefillError
  <2>1. usr' = usr /\ (op' = op \/ ret' = -1)
    BY <1>4 DEF RefillSome, RefillInterrupted, RefillError, ReturnError, callVars
  <2> QED BY <2>1, SMT DEF FitsStep
<1>5. CASE RefillEof
  <2>1. /\ usr' = IF op = "readlineb" /\ done > 0 THEN [usr EXCEPT ![done] = NUL] ELSE usr
        /\ ret' = done
    BY <1>5 DEF RefillEof, Terminate, ReturnRead, Return
  <2>2. CASE op = "readlineb" /\ done > 0
    BY <1>0, <1>1, <2>1, <2>2 DEF FitsStep
  <2>3. CASE ~(op = "readlineb" /\ done > 0)
    BY <1>1, <2>1, <2>3, SMT DEF FitsStep
  <2> QED BY <2>2, <2>3
<1>6. CASE CopyMany
  BY <1>1, <1>6, SMT DEF CopyMany, InCall, FitsStep, Wanting
<1>7. CASE CopyByte
  <2>1. done + 1 < want /\ op = "readlineb"
    BY <1>7 DEF CopyByte, Wanting, InCall
  <2>2. CASE buf[ptr] \in newlines
    <3>1. /\ usr' = [[usr EXCEPT ![done] = buf[ptr]] EXCEPT ![done + 1] = NUL]
          /\ ret' = done + 1
      BY <1>7, <2>2 DEF CopyByte, Terminate, ReturnRead, Return
    <3>2. \A i \in want .. MAXLINE - 1 : i # done /\ i # done + 1 /\ i \in 0 .. MAXLINE - 1
      BY <1>1, <2>1, RioAssumption, SMT
    <3>3. \A i \in want .. MAXLINE - 1 : usr'[i] = usr[i]
      BY <1>1, <3>1, <3>2
    <3>4. done + 1 \in 0 .. MAXLINE - 1
      BY <1>1, <2>1, RioAssumption, SMT
    <3> QED BY <1>1, <2>1, <3>1, <3>3, <3>4 DEF FitsStep
  <2>3. CASE buf[ptr] \notin newlines
    <3>1. usr' = [usr EXCEPT ![done] = buf[ptr]] /\ op' = op
      BY <1>7, <2>3 DEF CopyByte
    <3>2. \A i \in want .. MAXLINE - 1 : i # done /\ i \in 0 .. MAXLINE - 1
      BY <1>0, <2>1
    <3> QED BY <1>1, <2>1, <3>1, <3>2 DEF FitsStep
  <2> QED BY <2>2, <2>3
<1>8. CASE BufferedReturn
  <2>1. usr' = (IF op = "readlineb" THEN [usr EXCEPT ![done] = NUL] ELSE usr) /\ ret' = done
    BY <1>8 DEF BufferedReturn, Terminate, ReturnRead, Return
  <2> QED BY <1>0, <1>1, <2>1 DEF FitsStep
<1>9. CASE UNCHANGED vars
  BY <1>9 DEF vars, callVars, FitsStep
<1>10. Read \/ UNCHANGED vars
  BY DEF Next, rio_readinitb, Call, CallWriten, UnixError, Write, WriteSome, WriteInterrupted,
         WriteError, WriteNothing, WritenReturn, InCall
<1> QED
  BY <1>2, <1>3, <1>4, <1>5, <1>6, <1>7, <1>8, <1>9, <1>10 DEF Read

\* No read writes at or above the size it was given, and every line it returns is
\* terminated within that size.
THEOREM RioLineFits == Spec => LineFits
<1>1. IInv /\ [Next]_vars => [FitsStep]_vars
  BY StepFits
<1>2. [][FitsStep]_vars => LineFits
  BY PTL DEF FitsStep, LineFits
<1> QED BY <1>1, <1>2, Inductive, PTL DEF Spec

-----------------------------------------------------------------------------
(* The refinement: a call asks, works in steps the stream does not see, and *)
(* answers or fails.                                                       *)

\* Where neither the call nor what it handed over changes, the stream stands still.
LEMMA StillSteps ==
  ASSUME UNCHANGED <<newlines, base, AbsCall, AbsData>>
  PROVE  [Stream!Next]_(Stream!streamVars)
BY DEF Stream!streamVars

LEMMA EmptyData ==
  ASSUME NEW k \in Int, k <= 0
  PROVE  [i \in 0 .. k - 1 |-> usr[i]] = [i \in {} |-> 0]
<1>1. 0 .. k - 1 = {}
  BY SMT
<1> QED BY <1>1

\* A read that ends with a line or with its count answers for the abstract call.
LEMMA AnswerSteps ==
  ASSUME IInv, IInv', op \in Reads,
         op' = "idle", ret' = done, base' = base + done, newlines' = newlines,
         base + done <= Total,
         IF op = "readlineb" THEN Stream!Lined(base, want, done)
                             ELSE Stream!Counted(base, want, done)
  PROVE  Stream!Answer(done)
<1>1. AbsCall = [op |-> op, n |-> want] /\ AbsCall' = [op |-> "idle", n |-> 0]
  BY DEF AbsCall
<1>2. AbsData' = [i \in 0 .. done - 1 |-> usr'[i]]
  BY DEF AbsData
<1>3. base \in Int /\ done \in Nat
  BY RioAssumption, SMT DEF IInv, TypeOK
<1>4. \A i \in 0 .. done - 1 : usr'[i] = base + 1 + i
  <2>1. Holds(base - ret, ret)'
    BY DEF IInv, StreamKept
  <2>2. base' - ret' = base
    BY <1>3, SMT
  <2> QED BY <2>1, <2>2
<1>5. AbsData' = Stream!Bytes(base, done)
  BY <1>2, <1>4 DEF Stream!Bytes
<1> QED BY <1>1, <1>5 DEF Stream!Answer, Stream!Ops, Stream!Idle

LEMMA FailSteps ==
  ASSUME IInv, op \in Reads, done < want,
         op' = "idle", ret' = -1, base' = base + done, newlines' = newlines,
         base + done <= Total
  PROVE  Stream!Fail(done)
<1>1. AbsCall = [op |-> op, n |-> want] /\ AbsCall' = [op |-> "idle", n |-> 0]
  BY DEF AbsCall
<1>2. AbsData' = [i \in {} |-> 0]
  <2>1. 0 .. ret' - 1 = {}
    BY SMT
  <2> QED BY <2>1 DEF AbsData
<1> QED BY <1>1, <1>2 DEF Stream!Fail, Stream!Ops, Stream!Idle, Stream!Nothing

LEMMA StepRefines == IInv /\ IInv' /\ [Next]_vars => [Stream!Next]_(Stream!streamVars)
<1> SUFFICES ASSUME IInv, IInv', [Next]_vars PROVE [Stream!Next]_(Stream!streamVars)
  OBVIOUS
<1>1. /\ done \in 0 .. want /\ want \in 0 .. MAXLINE /\ base \in 0 .. Total /\ ret \in Int
      /\ off \in 0 .. Total /\ Total \in Nat /\ Unread \in Nat /\ cnt \in Int
      /\ op # "idle" => ret = 0
      /\ op # "uninit" => off = base + (IF op \in Reads THEN done ELSE 0) + Unread
      /\ op = "readlineb" => done < want /\ \A i \in 1 .. done : base + i \notin newlines
  <2>1. /\ done \in 0 .. want /\ want \in 0 .. MAXLINE /\ base \in 0 .. Total /\ ret \in Int
        /\ off \in 0 .. Total /\ Total \in Nat /\ cnt \in Int
    BY RioAssumption, SMT DEF IInv, TypeOK
  <2>2. Unread \in Nat
    BY <2>1, SMT
  <2> QED BY <2>1, <2>2 DEF IInv, Control, StreamKept, LineInProgress
<1>2. op \in Reads => base + done <= Total /\ done \in 0 .. Total
  BY <1>1, SMT
<1>3. ASSUME NEW k \in 0 .. Total, Stream!Answer(k) \/ Stream!Fail(k) PROVE Stream!Next
  BY <1>3 DEF Stream!Next
<1>4. CASE rio_readinitb
  <2>1. 0 .. ret - 1 = {} /\ ret' = ret
    BY <1>1, <1>4, SMT DEF rio_readinitb
  <2>2. UNCHANGED <<newlines, base, AbsCall, AbsData>>
    BY <1>4, <2>1 DEF rio_readinitb, AbsCall, AbsData, histVars
  <2> QED BY <2>2, StillSteps
<1>5. ASSUME NEW o \in Reads, NEW n \in Sizes, Call(o, n) PROVE Stream!Next
  <2>1. op = "idle" /\ ret <= 0 /\ op' = o /\ want' = n /\ UNCHANGED <<newlines, base>>
    BY <1>5 DEF Call, histVars
  <2>2. AbsCall = [op |-> "idle", n |-> 0] /\ AbsCall' = [op |-> o, n |-> n]
    BY <2>1 DEF AbsCall
  <2>3. AbsData' = [i \in {} |-> 0]
    BY <2>1 DEF AbsData
  <2>4. Stream!Ask(o, n)
    BY <2>1, <2>2, <2>3 DEF Stream!Ask, Stream!Idle, Stream!Nothing
  <2> QED BY <2>4 DEF Stream!Next, Stream!Ops
<1>6. CASE CallWriten
  BY <1>6, StillSteps DEF CallWriten, AbsCall, AbsData, histVars
<1>7. CASE UnixError
  BY <1>7, StillSteps DEF UnixError, AbsCall, AbsData, callVars, histVars
<1>8. CASE ReadnSome \/ ReadnInterrupted \/ RefillSome \/ RefillInterrupted \/ CopyMany
  <2>1. op \in Reads /\ UNCHANGED <<newlines, base, op, want>>
    BY <1>8 DEF ReadnSome, ReadnInterrupted, RefillSome, RefillInterrupted, CopyMany,
                Wanting, InCall, callVars, histVars
  <2>2. UNCHANGED <<newlines, base, AbsCall, AbsData>>
    BY <2>1 DEF AbsCall, AbsData
  <2> QED BY <2>2, StillSteps
<1>9. CASE ReadnError \/ RefillError
  <2>1. /\ op \in Reads /\ done < want
        /\ op' = "idle" /\ ret' = -1 /\ base' = base + done /\ newlines' = newlines
    <3>1. CASE ReadnError
      BY <3>1 DEF ReadnError, InCall, ReturnError
    <3>2. CASE RefillError
      BY <1>1, <3>2 DEF RefillError, Wanting, ReturnError
    <3> QED BY <1>9, <3>1, <3>2
  <2> QED BY <1>2, <1>3, <2>1, FailSteps
<1>10. CASE ReadnReturn
  <2>1. /\ op = "readn"
        /\ done = want \/ off = Total
        /\ op' = "idle" /\ ret' = done /\ base' = base + done /\ newlines' = newlines
    BY <1>10 DEF ReadnReturn, InCall, ReturnRead, Return
  <2>2. Unread = 0
    BY <2>1 DEF IInv, Control
  <2> HIDE DEF Unread
  <2>3. Stream!Counted(base, want, done)
    BY <1>1, <1>2, <2>1, <2>2, SMT DEF Stream!Counted
  <2> QED BY <1>2, <1>3, <2>1, <2>3, AnswerSteps
<1>11. CASE RefillEof
  <2>1. /\ op \in Buffered /\ off = Total /\ cnt <= 0
        /\ op' = "idle" /\ ret' = done /\ base' = base + done /\ newlines' = newlines
    BY <1>11 DEF RefillEof, Wanting, ReturnRead, Return
  <2>2. base + done = Total
    BY <1>1, <2>1, SMT
  <2>3. CASE op = "readlineb"
    <3>1. Stream!Lined(base, want, done)
      BY <1>1, <2>2, <2>3, SMT DEF Stream!Lined
    <3> QED BY <1>2, <1>3, <2>1, <2>3, <3>1, AnswerSteps
  <2>4. CASE op = "readnb"
    <3>1. Stream!Counted(base, want, done)
      BY <1>1, <2>2, <2>4, SMT DEF Stream!Counted
    <3> QED BY <1>2, <1>3, <2>1, <2>4, <3>1, AnswerSteps
  <2> QED BY <2>1, <2>3, <2>4
<1>12. CASE CopyByte
  <2>1. op = "readlineb" /\ done + 1 < want /\ cnt > 0
    BY <1>12 DEF CopyByte, Wanting, InCall
  <2>2. CASE buf[ptr] \notin newlines
    <3>1. UNCHANGED <<newlines, base, op, want>>
      BY <1>12, <2>2 DEF CopyByte, histVars
    <3>2. UNCHANGED <<newlines, base, AbsCall, AbsData>>
      BY <2>1, <3>1 DEF AbsCall, AbsData
    <3> QED BY <3>2, StillSteps
  <2>3. CASE buf[ptr] \in newlines
    <3>1. op' = "idle" /\ ret' = done + 1 /\ base' = base + (done + 1) /\ newlines' = newlines
      BY <1>12, <2>3 DEF CopyByte, ReturnRead, Return
    <3>2. buf[ptr] = base + done + 1
      <4>1. \A i \in 0 .. Unread - 1 : buf[ptr + i] = off - Unread + 1 + i
        BY <2>1 DEF IInv, StreamKept
      <4>2. Unread = cnt /\ 0 \in 0 .. Unread - 1 /\ ptr + 0 = ptr
        BY <1>1, <2>1, SMT DEF IInv, TypeOK
      <4>3. buf[ptr] = off - Unread + 1 + 0
        BY <4>1, <4>2
      <4> QED BY <1>1, <2>1, <4>2, <4>3, SMT
    <3>3. base + (done + 1) <= Total /\ done + 1 \in 0 .. Total
      BY <1>1, <2>1, SMT
    <3>4. Stream!Lined(base, want, done + 1)
      <4>1. base + (done + 1) \in newlines /\ done + 1 > 0 /\ done + 1 \in 0 .. want - 1
        BY <1>1, <2>1, <2>3, <3>2, SMT
      <4>2. \A i \in 1 .. (done + 1) - 1 : base + i \notin newlines
        BY <1>1, <2>1, SMT
      <4> QED BY <3>3, <4>1, <4>2 DEF Stream!Lined
    <3>5. AbsCall = [op |-> op, n |-> want] /\ AbsCall' = [op |-> "idle", n |-> 0]
      BY <2>1, <3>1 DEF AbsCall
    <3>6. AbsData' = Stream!Bytes(base, done + 1)
      <4>1. AbsData' = [i \in 0 .. (done + 1) - 1 |-> usr'[i]]
        BY <3>1 DEF AbsData
      <4>2. Holds(base - ret, ret)'
        BY <3>1 DEF IInv, StreamKept
      <4>3. base' - ret' = base
        BY <1>1, <3>1, SMT
      <4>4. \A i \in 0 .. (done + 1) - 1 : usr'[i] = base + 1 + i
        BY <3>1, <4>2, <4>3
      <4> QED BY <4>1, <4>4 DEF Stream!Bytes
    <3>7. Stream!Answer(done + 1)
      BY <2>1, <3>1, <3>4, <3>5, <3>6 DEF Stream!Answer, Stream!Ops, Stream!Idle
    <3> QED BY <1>3, <3>3, <3>7
  <2> QED BY <2>2, <2>3
<1>13. CASE BufferedReturn
  <2>1. /\ op \in Buffered
        /\ IF op = "readnb" THEN ~(done < want) ELSE ~(done + 1 < want)
        /\ op' = "idle" /\ ret' = done /\ base' = base + done /\ newlines' = newlines
    BY <1>13 DEF BufferedReturn, Wanting, ReturnRead, Return
  <2>2. CASE op = "readlineb"
    <3>1. done = want - 1
      BY <1>1, <2>1, <2>2, SMT
    <3>2. Stream!Lined(base, want, done)
      BY <1>1, <1>2, <2>2, <3>1, SMT DEF Stream!Lined
    <3> QED BY <1>2, <1>3, <2>1, <2>2, <3>2, AnswerSteps
  <2>3. CASE op = "readnb"
    <3>1. Stream!Counted(base, want, done)
      BY <1>1, <1>2, <2>1, <2>3, SMT DEF Stream!Counted
    <3> QED BY <1>2, <1>3, <2>1, <2>3, <3>1, AnswerSteps
  <2> QED BY <2>1, <2>2, <2>3
<1>14. CASE WriteSome \/ WriteInterrupted
  <2>1. op = "writen" /\ UNCHANGED <<newlines, base, op, want, usr>>
    BY <1>14 DEF WriteSome, WriteInterrupted, InCall, callVars, histVars
  <2>2. UNCHANGED <<newlines, base, AbsCall, AbsData>>
    BY <2>1 DEF AbsCall, AbsData
  <2> QED BY <2>2, StillSteps
<1>15. CASE WriteError \/ WriteNothing \/ WritenReturn
  <2>1. op = "writen" /\ op' = "idle" /\ ret' \in {-1, 0} /\ base' = base /\ newlines' = newlines
    <3>1. CASE WriteError \/ WriteNothing
      BY <1>1, <3>1, SMT DEF WriteError, WriteNothing, InCall, ReturnError
    <3>2. CASE WritenReturn
      BY <3>2 DEF WritenReturn, InCall, Return, histVars
    <3> QED BY <1>15, <3>1, <3>2
  <2>2. AbsCall = [op |-> "idle", n |-> 0] /\ AbsCall' = AbsCall
    BY <2>1 DEF AbsCall
  <2>3. 0 .. ret' - 1 = {}
    <3>1. \A r \in {-1, 0} : 0 .. r - 1 = {}
      BY SMT
    <3> QED BY <2>1, <3>1
  <2>4. AbsData' = [i \in {} |-> 0]
    BY <2>1, <2>3 DEF AbsData
  <2>5. Stream!Forget
    BY <2>1, <2>2, <2>4 DEF Stream!Forget, Stream!Idle, Stream!Nothing
  <2> QED BY <2>5 DEF Stream!Next
<1>16. CASE UNCHANGED vars
  BY <1>16, StillSteps DEF vars, callVars, histVars, AbsCall, AbsData
<1> QED
  BY <1>4, <1>5, <1>6, <1>7, <1>8, <1>9, <1>10, <1>11, <1>12, <1>13, <1>14, <1>15, <1>16
     DEF Next, Read, Write

LEMMA InitRefines == Init => Stream!Init
<1> SUFFICES ASSUME Init PROVE Stream!Init
  OBVIOUS
<1>1. AbsCall = [op |-> "idle", n |-> 0] /\ AbsData = [i \in {} |-> 0]
  BY DEF Init, AbsCall, AbsData
<1> QED BY <1>1 DEF Init, Stream!Init, Stream!Idle, Stream!Nothing

\* The calls take from the descriptor what the abstract stream's calls take: the
\* next n bytes, or the next line, whatever read did underneath.
THEOREM RioImplementsStream == Spec => ImplementsStream
<1>1. IInv /\ IInv' /\ [Next]_vars => [Stream!Next]_(Stream!streamVars)
  BY StepRefines
<1> QED BY <1>1, InitRefines, Inductive, PTL DEF Spec, ImplementsStream, Stream!Spec

-----------------------------------------------------------------------------
(* No call goes round for nothing: the safety half of CallsReturn.         *)

\* What a call has still to do: two steps for each byte, a refill and a copy, and one
\* for an empty rio_t.
Work == (want - done) + (want - done) + (IF cnt > 0 THEN 0 ELSE 1)

\* A step of a call that does not end it leaves less work, or is a read or write that
\* a signal interrupted, which moves no byte.
WorkFalls ==
  op \notin {"uninit", "idle"} /\ op' = op =>
    \/ Work' \in Nat /\ Work' < Work
    \/ Work' = Work /\ errno' = "EINTR" /\ UNCHANGED <<off, ptr, usr, done, outVars>>

CallsGetOn == [][WorkFalls]_vars

LEMMA StepWorkFalls == IInv /\ [Next]_vars => [WorkFalls]_vars
<1> SUFFICES ASSUME IInv, Next, op \notin {"uninit", "idle"}, op' = op
             PROVE  WorkFalls
  BY DEF WorkFalls
<1>0. /\ want \in Int /\ done \in 0 .. want /\ cnt \in Int /\ off \in 0 .. Total /\ ptr \in Int
      /\ BUFSIZE \in Nat /\ Total \in Nat
      /\ op = "readn" => ~(cnt > 0)
  BY RioAssumption, SMT DEF IInv, TypeOK, Control
<1> USE DEF WorkFalls, Work
<1>1. CASE ReadnSome
  <2>1. PICK k \in 1 .. Least(want - done, Total - off) : done' = done + k
    BY <1>1 DEF ReadnSome
  <2>2. UNCHANGED <<want, cnt>>
    BY <1>1 DEF ReadnSome, rioVars
  <2>3. k \in Int /\ 1 <= k /\ k <= want - done
    BY <1>0, <2>1, SMT
  <2> QED BY <1>0, <2>1, <2>2, <2>3, SMT
<1>2. CASE WriteSome
  <2>1. PICK k \in 1 .. want - done : done' = done + k
    BY <1>2 DEF WriteSome
  <2>2. UNCHANGED <<want, cnt>>
    BY <1>2 DEF WriteSome, rioVars
  <2> QED BY <1>0, <2>1, <2>2, SMT
<1>3. CASE RefillSome
  <2>1. PICK k \in 1 .. Least(BUFSIZE, Total - off) : cnt' = k
    BY <1>3 DEF RefillSome
  <2>2. UNCHANGED <<want, done>> /\ cnt <= 0
    BY <1>3 DEF RefillSome, callVars
  <2> QED BY <1>0, <2>1, <2>2, SMT
<1>4. CASE CopyMany
  <2>1. /\ done' = done + Least(want - done, cnt) /\ cnt' = cnt - Least(want - done, cnt)
        /\ want' = want /\ cnt > 0 /\ done < want
    BY <1>4 DEF CopyMany, Wanting, InCall
  <2> QED BY <1>0, <2>1, SMT
<1>5. CASE CopyByte
  <2>1. /\ done' = done + 1 /\ cnt' = cnt - 1 /\ want' = want /\ cnt > 0 /\ done + 1 < want
    BY <1>5 DEF CopyByte, Wanting, InCall, ReturnRead, Return
  <2> QED BY <1>0, <2>1, SMT
<1>6. CASE ReadnInterrupted \/ WriteInterrupted
  <2>1. errno' = "EINTR" /\ UNCHANGED <<off, ptr, usr, done, outVars, want, cnt>>
    BY <1>6 DEF ReadnInterrupted, WriteInterrupted, callVars, rioVars
  <2> QED BY <2>1
<1>7. CASE RefillInterrupted
  <2>1. errno' = "EINTR" /\ UNCHANGED <<off, ptr, usr, done, outVars, want>>
    BY <1>7 DEF RefillInterrupted, callVars
  <2>2. cnt <= 0 /\ cnt' = -1
    BY <1>7 DEF RefillInterrupted
  <2>3. ~(cnt > 0) /\ ~(cnt' > 0)
    BY <1>0, <2>2, SMT
  <2>4. Work' = Work
    BY <2>1, <2>3
  <2> QED BY <2>1, <2>4
<1>8. CASE ReadnError \/ ReadnReturn \/ RefillError \/ RefillEof \/ BufferedReturn \/ WriteError
           \/ WriteNothing \/ WritenReturn
  BY <1>8 DEF ReadnError, ReadnReturn, RefillError, RefillEof, BufferedReturn, WriteError, WriteNothing,
     WritenReturn, ReturnError, ReturnRead, Return
<1>9. CASE rio_readinitb \/ CallWriten \/ UnixError \/ \E o \in Reads, n \in Sizes : Call(o, n)
  BY <1>9 DEF rio_readinitb, CallWriten, UnixError, Call
<1> QED BY <1>1, <1>2, <1>3, <1>4, <1>5, <1>6, <1>7, <1>8, <1>9 DEF Next, Read, Write

\* The loops of rio_readn, rio_writen, rio_read and its two callers end: a call makes
\* at most two steps for each byte it was asked for and one more, beside those that a
\* signal interrupts, for every size, buffer and sequence of short counts.
THEOREM RioCallsGetOn == Spec => CallsGetOn
<1> QED BY StepWorkFalls, Inductive, PTL DEF Spec, CallsGetOn
=============================================================================
