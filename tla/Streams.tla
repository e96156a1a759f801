------------------------------ MODULE Streams ------------------------------
(***************************************************************************)
(* The data of one transfer: how a file is divided among N streams, and    *)
(* the loops of the two children, one at each end, that move the fragment  *)
(* of a stream over its connection.                                        *)
(*                                                                         *)
(*   kind     receiver                      sender                         *)
(*   "store"  bbftpd_storetransferfile      bbftp_retrtransferfile         *)
(*   "retr"   bbftp_storetransferfile       bbftpd_retrtransferfile        *)
(*                                                                         *)
(* The loops of the server and of the client are not the same: they differ *)
(* in the width of a variable, in what a read of nothing means and in what *)
(* is done about a failing close.                                          *)
(*                                                                         *)
(* Byte i of the source is the number i, so that file[i] = i says that the *)
(* byte has arrived at its place. A step moves one buffer; reads and       *)
(* writes of parts of a buffer are inside the step. What the fathers do    *)
(* about the children is in Transfer.                                      *)
(***************************************************************************)
EXTENDS Integers, Sequences, FiniteSets

CONSTANTS N,        \* requestedstreamnumber
          Sizes,    \* the file sizes considered
          Buf,      \* buffersizeperstream*1024, in bytes of the model
          IntLimit, \* INT_MAX + 1
          Cap,      \* how much a connection holds: it bounds the channel only
          Faults    \* what may go wrong, see below

ASSUME StreamsAssumption == /\ N \in Nat \ {0}
                            /\ Sizes \subseteq Nat \ {0}
                            /\ Buf \in Nat \ {0} /\ IntLimit \in Nat /\ Buf < IntLimit
                            /\ Cap \in Nat /\ Buf <= Cap

\* "open", "read", "write", "close": the call fails; "kill": a child is
\* killed; "stall": a select times out; "truncate": the source gets shorter
\* while it is being sent.
AllFaults == {"open", "read", "write", "close", "kill", "stall", "truncate"}

Kinds   == {"store", "retr"}
Streams == 1 .. N
Ended   == {"ok", "bad"}     \* how a child exits: with status 0, or not
Hole    == -1

VARIABLES kind, gzip, size,  \* of the transfer: direction, TROPT_GZIP, filesize
          srclen,            \* how long the source file is now
          file, exists,      \* the target: its bytes, and whether it has a name
          snd, nbread,       \* the senders: where they are and what they read
          rcv, nbget, wrote, \* the receivers: the same, and what they wrote
          net, ack,          \* in flight on the connection of each stream
          fault              \* something has gone wrong

vars == <<kind, gzip, size, srclen, file, exists, snd, nbread, rcv, nbget, wrote,
          net, ack, fault>>
transfer == <<kind, gzip, size>>
sender   == <<snd, nbread>>
receiver == <<rcv, nbget, wrote, file, exists>>

Least(a, b) == IF a <= b THEN a ELSE b

-----------------------------------------------------------------------------
(* The fragment of stream s of a file of sz bytes: every stream gets the   *)
(* same number of bytes, the last one the rest.                            *)
PerChild(sz)     == sz \div N
FragStart(sz, s) == (s - 1) * PerChild(sz)
FragLenEven(sz, s) == PerChild(sz)
FragLen(sz, s)   == IF s = N THEN sz - PerChild(sz) * (N - 1) ELSE PerChild(sz)

\* The value of an int that x was assigned to.
ToInt(x) == ((x + IntLimit) % (2 * IntLimit)) - IntLimit

\* How much a receiver asks for when left bytes are missing. The server assigns
\* the 64-bit difference to an int before it compares it with the buffer.
ServerWants(left) == Least(ToInt(left), Buf)
ClientWantsBuffer(left) == Buf
ClientWants(left) == Least(left, Buf)

\* With compression every buffer is announced by a header, and the receiver
\* takes what the header says; without, the connection carries single bytes.
Encode(bytes) == IF gzip THEN <<bytes>> ELSE bytes
Taken(q, k)   == IF gzip THEN Head(q) ELSE SubSeq(q, 1, k)

Wants(s) == LET left == FragLen(size, s) - nbget[s]
            IN  IF gzip THEN 1
                ELSE IF kind = "store" THEN ServerWants(left) ELSE ClientWants(left)

\* What a read of the source gives: less than asked for at the end of the file.
SourceAt(s)    == FragStart(size, s) + nbread[s]
Asked(s)       == Least(Buf, FragLen(size, s) - nbread[s])
BytesRead(s)   == [k \in 1 .. Least(Asked(s), srclen - SourceAt(s)) |-> SourceAt(s) + k - 1]
EndOfSource(s) == srclen <= SourceAt(s)

\* The receiver of s gives up: it removes the name of the target, if remove,
\* and exits. The others that have the file open go on.
RcvGivesUp(s, remove) ==
  /\ rcv' = [rcv EXCEPT ![s] = "bad"] /\ exists' = (exists /\ ~remove)
  /\ UNCHANGED <<transfer, srclen, sender, nbget, wrote, file, net, ack>>
SndGivesUp(s) ==
  /\ snd' = [snd EXCEPT ![s] = "bad"]
  /\ UNCHANGED <<transfer, srclen, nbread, receiver, net, ack>>

-----------------------------------------------------------------------------
Init ==
  /\ kind \in Kinds /\ gzip \in BOOLEAN /\ size \in Sizes
  /\ srclen = size
  /\ file = [p \in 0 .. size - 1 |-> Hole] /\ exists = TRUE
  /\ snd = [s \in Streams |-> "start"] /\ nbread = [s \in Streams |-> 0]
  /\ rcv = [s \in Streams |-> "start"] /\ nbget = [s \in Streams |-> 0]
  /\ wrote = [s \in Streams |-> 0]
  /\ net = [s \in Streams |-> <<>>] /\ ack = [s \in Streams |-> FALSE]
  /\ fault = FALSE

-----------------------------------------------------------------------------
(* The sender.                                                             *)
OpenSource(s) ==
  /\ snd[s] = "start"
  /\ snd' = [snd EXCEPT ![s] = "send"]
  /\ UNCHANGED <<transfer, srclen, nbread, receiver, net, ack, fault>>

OpenSourceFails(s) == "open" \in Faults /\ snd[s] = "start" /\ SndGivesUp(s)

Sending(s) == snd[s] = "send" /\ nbread[s] < FragLen(size, s)

\* One buffer is read and sent.
Send(s) ==
  /\ Sending(s) /\ ~EndOfSource(s) /\ rcv[s] \notin Ended
  /\ LET bytes == BytesRead(s)
     IN  /\ Len(net[s]) + Len(Encode(bytes)) <= Cap
         /\ nbread' = [nbread EXCEPT ![s] = @ + Len(bytes)]
         /\ net' = [net EXCEPT ![s] = @ \o Encode(bytes)]
  /\ UNCHANGED <<transfer, srclen, snd, receiver, ack, fault>>

\* The source has become shorter: read returns 0. The client takes this for an
\* error and exits with whatever errno holds, 0 included; the server adds 0
\* to what it has read and tries again, for ever (with compression it
\* sends an empty buffer each time, which is nothing to the receiver).
SendNothing(s) ==
  /\ Sending(s) /\ EndOfSource(s)
  /\ \/ /\ kind = "store"
        /\ \E status \in Ended : snd' = [snd EXCEPT ![s] = status]
     \/ kind = "retr" /\ UNCHANGED snd
  /\ UNCHANGED <<transfer, srclen, nbread, receiver, net, ack, fault>>

ReadFails(s) == "read" \in Faults /\ Sending(s) /\ SndGivesUp(s)

\* All was sent: the sender waits for the acknowledgement.
AllSent(s) ==
  /\ snd[s] = "send" /\ nbread[s] >= FragLen(size, s)
  /\ snd' = [snd EXCEPT ![s] = "wait"]
  /\ UNCHANGED <<transfer, srclen, nbread, receiver, net, ack, fault>>

Acknowledged(s) ==
  /\ snd[s] = "wait" /\ ack[s]
  /\ snd' = [snd EXCEPT ![s] = "ok"]
  /\ UNCHANGED <<transfer, srclen, nbread, receiver, net, ack, fault>>

SenderBrokenByEnd(s) ==
  /\ rcv[s] \in Ended
  /\ Sending(s) \/ snd[s] = "wait"
  /\ SndGivesUp(s) /\ UNCHANGED fault

\* The receiver has gone: a write fails, or the wait for the
\* acknowledgement ends with the connection.
SenderBroken(s) ==
  /\ rcv[s] \in Ended
  /\ \/ Sending(s) /\ (~EndOfSource(s) \/ (kind = "retr" /\ gzip))
     \/ snd[s] = "wait" /\ ~ack[s]
  /\ SndGivesUp(s) /\ UNCHANGED fault

\* select returns 0 after datato or ackto seconds.
SenderTimeout(s) ==
  /\ "stall" \in Faults
  /\ Sending(s) \/ (snd[s] = "wait" /\ ~ack[s])
  /\ SndGivesUp(s)

SenderKilled(s) == "kill" \in Faults /\ snd[s] \notin Ended /\ SndGivesUp(s)

Truncate ==
  /\ "truncate" \in Faults /\ srclen > 0
  /\ srclen' = srclen - 1 /\ fault' = TRUE
  /\ UNCHANGED <<transfer, sender, receiver, net, ack>>

-----------------------------------------------------------------------------
(* The receiver.                                                           *)
OpenTarget(s) ==
  /\ rcv[s] = "start" /\ exists
  /\ rcv' = [rcv EXCEPT ![s] = "recv"]
  /\ UNCHANGED <<transfer, srclen, sender, nbget, wrote, file, exists, net, ack, fault>>

\* "If the file does not exist that means that another child has detroyed it".
OpenTargetGone(s) ==
  rcv[s] = "start" /\ ~exists /\ RcvGivesUp(s, FALSE) /\ UNCHANGED fault

\* When open or lseek fails the server removes the file, the client does only
\* in the second case.
OpenTargetFails(s) ==
  /\ "open" \in Faults /\ rcv[s] = "start" /\ exists
  /\ \E remove \in {TRUE, kind = "store"} : RcvGivesUp(s, remove)

CompleteEarly(s) == nbget[s] + 1 >= FragLen(size, s)
Complete(s)  == nbget[s] >= FragLen(size, s)
Receiving(s) == rcv[s] = "recv" /\ ~Complete(s)
TargetUnseeked(s) == wrote[s]
\* Where the receiver writes: it has moved to the start of its fragment.
Target(s)    == FragStart(size, s) + wrote[s]

\* A buffer is received and written. Asking for nothing, or less, receives and
\* writes nothing, and what was asked for is counted all the same.
Receive(s) ==
  /\ Receiving(s)
  /\ LET w  == Wants(s)
         at == Target(s)
         q  == net[s]
     IN  \/ /\ w <= 0
            /\ nbget' = [nbget EXCEPT ![s] = @ + w]
            /\ UNCHANGED <<wrote, file, net>>
         \/ /\ w > 0 /\ Len(q) >= w
            /\ LET bytes == Taken(q, w)
               IN  /\ file' = [p \in DOMAIN file |->
                                IF p \in at .. at + Len(bytes) - 1
                                THEN bytes[p - at + 1] ELSE file[p]]
                   /\ wrote' = [wrote EXCEPT ![s] = @ + Len(bytes)]
                   /\ nbget' = [nbget EXCEPT ![s] = @ + Len(bytes)]
            /\ net' = [net EXCEPT ![s] = SubSeq(q, w + 1, Len(q))]
  /\ UNCHANGED <<transfer, srclen, sender, rcv, exists, ack, fault>>

\* The write of a buffer fails: the disk is full, a quota is exceeded, or the
\* data cannot be uncompressed.
WriteFails(s) ==
  /\ "write" \in Faults /\ Receiving(s) /\ net[s] # <<>> /\ RcvGivesUp(s, TRUE)

\* The sender has gone before all was there.
ReceiverBroken(s) ==
  /\ Receiving(s) /\ snd[s] \in Ended /\ Len(net[s]) < Wants(s)
  /\ RcvGivesUp(s, TRUE) /\ UNCHANGED fault

ReceiverTimeout(s) ==
  /\ "stall" \in Faults /\ Receiving(s) /\ Len(net[s]) < Wants(s)
  /\ RcvGivesUp(s, TRUE)

\* All was received and written: MSG_ACK is sent.
Acknowledge(s) ==
  /\ rcv[s] = "recv" /\ Complete(s)
  /\ rcv' = [rcv EXCEPT ![s] = "close"] /\ ack' = [ack EXCEPT ![s] = TRUE]
  /\ UNCHANGED <<transfer, srclen, sender, nbget, wrote, file, exists, net, fault>>

AcknowledgeFails(s) ==
  /\ rcv[s] = "recv" /\ Complete(s)
  /\ snd[s] \in Ended \/ "stall" \in Faults
  /\ RcvGivesUp(s, TRUE)

CloseTarget(s) ==
  /\ rcv[s] = "close"
  /\ rcv' = [rcv EXCEPT ![s] = "ok"]
  /\ UNCHANGED <<transfer, srclen, sender, nbget, wrote, file, exists, net, ack, fault>>

\* The client looks at the result of close, the server does not.
CloseFails(s) ==
  /\ "close" \in Faults /\ kind = "retr" /\ rcv[s] = "close"
  /\ RcvGivesUp(s, TRUE)

\* A killed child removes nothing.
ReceiverKilled(s) ==
  "kill" \in Faults /\ rcv[s] \notin Ended /\ RcvGivesUp(s, FALSE)

-----------------------------------------------------------------------------
SenderStep(s) ==
  \/ OpenSource(s) \/ Send(s) \/ SendNothing(s) \/ AllSent(s)
  \/ Acknowledged(s) \/ SenderBroken(s)
ReceiverStep(s) ==
  \/ OpenTarget(s) \/ OpenTargetGone(s) \/ Receive(s) \/ ReceiverBroken(s)
  \/ Acknowledge(s) \/ CloseTarget(s)
SenderFails(s) ==
  OpenSourceFails(s) \/ ReadFails(s) \/ SenderTimeout(s) \/ SenderKilled(s)
ReceiverFails(s) ==
  \/ OpenTargetFails(s) \/ WriteFails(s) \/ ReceiverTimeout(s)
  \/ AcknowledgeFails(s) \/ CloseFails(s) \/ ReceiverKilled(s)
\* What the environment does, not the other children.
Failure(s) == (SenderFails(s) \/ ReceiverFails(s)) /\ fault' = TRUE

AllEnded == \A s \in Streams : snd[s] \in Ended /\ rcv[s] \in Ended
\* The transfer is over.
Over == AllEnded /\ UNCHANGED vars

Next == \/ \E s \in Streams : SenderStep(s) \/ ReceiverStep(s) \/ Failure(s)
        \/ Truncate \/ Over

\* Both children go on as long as they can: this needs the two schedulers and
\* the network, and what is not delivered is the fault "stall".
Fairness == \A s \in Streams : WF_vars(SenderStep(s)) /\ WF_vars(ReceiverStep(s))
Spec == Init /\ [][Next]_vars /\ Fairness

-----------------------------------------------------------------------------
TypeOK ==
  /\ kind \in Kinds /\ gzip \in BOOLEAN /\ size \in Sizes
  /\ srclen \in 0 .. size
  /\ file \in [0 .. size - 1 -> Int] /\ exists \in BOOLEAN
  /\ snd \in [Streams -> Ended \cup {"start", "send", "wait"}]
  /\ rcv \in [Streams -> Ended \cup {"start", "recv", "close"}]
  /\ nbread \in [Streams -> 0 .. size] /\ nbget \in [Streams -> Int]
  /\ wrote \in [Streams -> Nat]
  /\ net \in [Streams -> IF gzip THEN Seq(Seq(Int)) ELSE Seq(Int)]
  /\ \A s \in Streams : Len(net[s]) <= Cap
  /\ ack \in [Streams -> BOOLEAN] /\ fault \in BOOLEAN

Fragment(s) == FragStart(size, s) .. FragStart(size, s) + FragLen(size, s) - 1

\* A stream writes only the bytes of its own fragment, each at its place, so
\* that the streams never overwrite each other: start points, the seek, what
\* the receiver counts and what the sender reads fit together.
NothingMisplaced == \A p \in DOMAIN file : file[p] \in {Hole, p}

\* MSG_ACK promises that the whole fragment is in the file.
AckMeansWritten ==
  \A s \in Streams : ack[s] => \A p \in Fragment(s) : file[p] = p

\* What the server concludes from the exit status of its own children.
Success == IF kind = "store" THEN \A s \in Streams : rcv[s] = "ok"
                             ELSE \A s \in Streams : snd[s] = "ok"

\* If the server's children all exit with 0 the file is complete, and it still
\* has its name, unless (get only) a child of the client failed after MSG_ACK.
SuccessIsComplete ==
  Success => /\ \A p \in 0 .. size - 1 : file[p] = p
             /\ exists \/ \E s \in Streams : rcv[s] = "bad"

\* A transfer fails only if something went wrong: the children of the two
\* sides do not disturb each other by the order in which they end.
NoFaultNoFailure == AllEnded /\ ~fault => Success /\ exists

\* Every child ends, whatever happens to the others; a child of the server that
\* sends a file needs that the file keeps its length.
EveryStreamEnds == [](kind = "store" \/ srclen = size) => <>AllEnded
=============================================================================
