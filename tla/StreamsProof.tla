---------------------------- MODULE StreamsProof ----------------------------
(***************************************************************************)
(* Theorems about Streams, for any number of streams, sizes, buffer, width *)
(* of an int and faults.                                                   *)
(***************************************************************************)
EXTENDS Streams, TLAPS

-----------------------------------------------------------------------------
(* The division of a file into fragments.                                  *)

\* What dividing by the number of streams means.
LEMMA PerChildBounds ==
  ASSUME NEW sz \in Nat
  PROVE  /\ PerChild(sz) \in Nat
         /\ PerChild(sz) * N <= sz
BY StreamsAssumption DEF PerChild

\* A multiple grows with its factor.
LEMMA Monotone ==
  ASSUME NEW a \in Nat, NEW b \in Nat, NEW q \in Nat, a <= b
  PROVE  a * q \in Nat /\ b * q \in Nat /\ a * q <= b * q
OBVIOUS

\* A fragment lies within the file, and the next one begins where it ends.
LEMMA FragmentBounds ==
  ASSUME NEW sz \in Nat, NEW s \in Streams
  PROVE  /\ FragStart(sz, s) \in Nat /\ FragLen(sz, s) \in Nat
         /\ FragStart(sz, s) + FragLen(sz, s) <= sz
         /\ s = N => FragStart(sz, s) + FragLen(sz, s) = sz
         /\ s # N => FragStart(sz, s) + FragLen(sz, s) = FragStart(sz, s + 1)
<1> DEFINE q == PerChild(sz)
<1>1. q \in Nat /\ q * N <= sz
  BY PerChildBounds
<1>2. N \in Nat \ {0} /\ s \in 1 .. N
  BY StreamsAssumption DEF Streams
<1> HIDE DEF q
<1>3. (s - 1) * q \in Nat /\ s * q = (s - 1) * q + q /\ s * q \in Nat
  BY <1>1, <1>2
<1>4. s * q <= N * q /\ N * q = q * N
  BY <1>1, <1>2, Monotone
<1>5. CASE s = N
  <2>1. (N - 1) * q = q * (N - 1)
    BY <1>1, <1>2
  <2> QED BY <1>1, <1>2, <1>3, <1>4, <1>5, <2>1 DEF FragStart, FragLen, q
<1>6. CASE s # N
  <2>1. (s + 1) - 1 = s
    BY <1>2
  <2>2. FragStart(sz, s) = (s - 1) * q /\ FragStart(sz, s + 1) = s * q /\ FragLen(sz, s) = q
    BY <1>6, <2>1 DEF FragStart, FragLen, q
  <2> QED BY <1>1, <1>2, <1>3, <1>4, <1>6, <2>2
<1> QED BY <1>5, <1>6

\* A later fragment begins after the end of an earlier one.
LEMMA FragmentsOrdered ==
  ASSUME NEW sz \in Nat, NEW s \in Streams, NEW t \in Streams, s < t
  PROVE  FragStart(sz, s) + FragLen(sz, s) <= FragStart(sz, t)
<1> DEFINE q == PerChild(sz)
<1>1. q \in Nat
  BY PerChildBounds
<1>2. N \in Nat \ {0} /\ s \in 1 .. N /\ t \in 1 .. N /\ s # N
  BY StreamsAssumption DEF Streams
<1>3. FragStart(sz, s) + FragLen(sz, s) = FragStart(sz, s + 1)
  BY <1>2, FragmentBounds
<1> HIDE DEF q
<1>4. s * q <= (t - 1) * q
  BY <1>1, <1>2, Monotone
<1>5. FragStart(sz, s + 1) = s * q /\ FragStart(sz, t) = (t - 1) * q
  <2>1. (s + 1) - 1 = s
    BY <1>2
  <2> QED BY <2>1 DEF FragStart, q
<1> QED BY <1>3, <1>4, <1>5

\* The quotient of p and q is the number of the fragment that p is in.
LEMMA Quotient ==
  ASSUME NEW p \in Nat, NEW q \in Nat, q > 0
  PROVE  /\ p \div q \in Nat
         /\ (p \div q) * q <= p /\ p < (p \div q) * q + q
OBVIOUS

\* Every byte of the file is in some fragment.
LEMMA FragmentsCover ==
  ASSUME NEW sz \in Nat, NEW p \in 0 .. sz - 1
  PROVE  \E s \in Streams : p \in FragStart(sz, s) .. FragStart(sz, s) + FragLen(sz, s) - 1
<1> DEFINE q == PerChild(sz)
<1>1. q \in Nat
  BY PerChildBounds
<1>2. N \in Nat \ {0} /\ N \in Streams
  BY StreamsAssumption DEF Streams
<1> HIDE DEF q
<1>3. CASE (N - 1) * q <= p
  <2>1. FragStart(sz, N) = (N - 1) * q /\ FragStart(sz, N) + FragLen(sz, N) = sz
    BY <1>2, FragmentBounds DEF FragStart, q
  <2>2. FragStart(sz, N) \in Nat /\ FragLen(sz, N) \in Nat
    BY <1>2, FragmentBounds
  <2>3. p \in FragStart(sz, N) .. FragStart(sz, N) + FragLen(sz, N) - 1
    BY <1>3, <2>1, <2>2
  <2> QED BY <1>2, <2>3
<1>4. CASE p < (N - 1) * q
  <2> DEFINE d == p \div q
  <2>1. q > 0
    BY <1>1, <1>2, <1>4
  <2>2. d \in Nat /\ d * q <= p /\ p < d * q + q
    BY <1>1, <2>1, Quotient
  <2> HIDE DEF d
  <2>3. d < N - 1
    <3>1. SUFFICES ASSUME N - 1 <= d PROVE FALSE
      BY <1>2, <2>2
    <3>2. (N - 1) * q <= d * q
      BY <1>1, <1>2, <2>2, <3>1, Monotone
    <3>3. (N - 1) * q \in Nat /\ d * q \in Nat
      BY <1>1, <1>2, <2>2
    <3> QED BY <1>4, <2>2, <3>2, <3>3
  <2>4. d + 1 \in Streams /\ d + 1 # N /\ (d + 1) - 1 = d
    BY <1>2, <2>2, <2>3 DEF Streams
  <2>5. FragStart(sz, d + 1) = d * q /\ FragLen(sz, d + 1) = q
    BY <2>4 DEF FragStart, FragLen, q
  <2>6. d * q \in Nat
    BY <1>1, <2>2
  <2> QED BY <1>1, <2>2, <2>4, <2>5, <2>6
<1> QED
  <2>1. (N - 1) * q \in Int
    BY <1>1, <1>2
  <2> QED BY <1>3, <1>4, <2>1

\* However many streams there are, the fragments (bbftpd_store.c:666-686) are a
\* partition of the file: each byte is in exactly one of them.
THEOREM FragmentsPartition ==
  ASSUME NEW sz \in Nat, NEW p \in 0 .. sz - 1
  PROVE  \E s \in Streams :
           \A t \in Streams :
             p \in FragStart(sz, t) .. FragStart(sz, t) + FragLen(sz, t) - 1 <=> t = s
<1>1. PICK s \in Streams : p \in FragStart(sz, s) .. FragStart(sz, s) + FragLen(sz, s) - 1
  BY FragmentsCover
<1>2. SUFFICES ASSUME NEW t \in Streams, t # s,
                      p \in FragStart(sz, t) .. FragStart(sz, t) + FragLen(sz, t) - 1
               PROVE  FALSE
  BY <1>1
<1>3. s < t \/ t < s
  BY <1>2, StreamsAssumption DEF Streams
<1> QED BY <1>1, <1>2, <1>3, FragmentsOrdered, FragmentBounds

-----------------------------------------------------------------------------
(* The inductive invariant of the two loops.                               *)

\* What is in flight begins where the receiver has stopped writing, ends where
\* the sender has stopped reading, and is in the order of the file.
InFlight(s) ==
  LET q     == net[s]
      start == FragStart(size, s)
  IN  IF gzip
      THEN /\ \A k \in 1 .. Len(q) :
                /\ Len(q[k]) > 0 /\ q[k][1] + Len(q[k]) <= start + nbread[s]
                /\ \A j \in 1 .. Len(q[k]) : q[k][j] = q[k][1] + j - 1
           /\ \A k \in 1 .. Len(q) - 1 : q[k + 1][1] = q[k][1] + Len(q[k])
           /\ Len(q) = 0 => wrote[s] = nbread[s]
           /\ Len(q) > 0 =>
                /\ q[1][1] = start + wrote[s]
                /\ q[Len(q)][1] + Len(q[Len(q)]) = start + nbread[s]
      ELSE /\ wrote[s] + Len(q) = nbread[s]
           /\ \A k \in 1 .. Len(q) : q[k] = start + wrote[s] + k - 1

\* The fragment does not fit in the variable its rest is assigned to.
TooLarge(s) == kind = "store" /\ ~gzip /\ FragLen(size, s) >= IntLimit

\* What the receiver counts is what it has written; but a fragment that is too
\* large is never counted down.
Counted(s) ==
  /\ wrote[s] <= nbread[s] /\ nbread[s] <= FragLen(size, s)
  /\ IF TooLarge(s) THEN FragLen(size, s) - nbget[s] >= IntLimit
                    ELSE nbget[s] = wrote[s]

\* What a receiver has written is in the file, and stays there.
Written(s) ==
  \A p \in FragStart(size, s) .. FragStart(size, s) + wrote[s] - 1 : file[p] = p

\* Only a fragment that was written to its end is acknowledged.
Acked(s) == ack[s] => ~TooLarge(s) /\ wrote[s] >= FragLen(size, s)

StreamInv(s) == InFlight(s) /\ Counted(s) /\ Written(s) /\ Acked(s)

IInv == TypeOK /\ NothingMisplaced /\ \A s \in Streams : StreamInv(s)

-----------------------------------------------------------------------------
(* Types.                                                                  *)

\* The buffer that is read consists of integers, and is not empty before the
\* end of the source.
LEMMA BytesReadProperties ==
  ASSUME TypeOK, NEW s \in Streams, Sending(s), ~EndOfSource(s)
  PROVE  /\ BytesRead(s) \in Seq(Int) /\ Len(BytesRead(s)) \in Nat \ {0}
         /\ nbread[s] + Len(BytesRead(s)) <= FragLen(size, s)
         /\ \A k \in 1 .. Len(BytesRead(s)) :
              BytesRead(s)[k] = FragStart(size, s) + nbread[s] + k - 1
<1> DEFINE m == Least(Asked(s), srclen - SourceAt(s))
           at == FragStart(size, s) + nbread[s]
<1>1. /\ size \in Nat /\ srclen \in Nat /\ nbread[s] \in Nat
      /\ nbread[s] < FragLen(size, s) /\ Buf \in Nat \ {0}
  BY StreamsAssumption DEF TypeOK, Sending
<1>2. FragStart(size, s) \in Nat /\ FragLen(size, s) \in Nat
  BY <1>1, FragmentBounds
<1>3. m \in Nat \ {0} /\ nbread[s] + m <= FragLen(size, s) /\ at \in Nat
  BY <1>1, <1>2 DEF EndOfSource, SourceAt, Asked, Least
<1>4. BytesRead(s) = [k \in 1 .. m |-> at + k - 1]
  BY DEF BytesRead, SourceAt
<1> HIDE DEF m, at
<1>5. BytesRead(s) \in Seq(Int) /\ Len(BytesRead(s)) = m
  BY <1>3, <1>4
<1>6. \A k \in 1 .. m : BytesRead(s)[k] = at + k - 1
  BY <1>4
<1> QED BY <1>3, <1>5, <1>6 DEF at

\* Cutting a sequence in two.
LEMMA Cut ==
  ASSUME NEW S, NEW q \in Seq(S), NEW w \in 0 .. Len(q)
  PROVE  /\ SubSeq(q, 1, w) \in Seq(S) /\ Len(SubSeq(q, 1, w)) = w
         /\ \A k \in 1 .. w : SubSeq(q, 1, w)[k] = q[k]
         /\ SubSeq(q, w + 1, Len(q)) \in Seq(S)
         /\ Len(SubSeq(q, w + 1, Len(q))) = Len(q) - w
         /\ \A k \in 1 .. Len(q) - w : SubSeq(q, w + 1, Len(q))[k] = q[k + w]
<1>1. Len(q) \in Nat /\ \A k \in 1 .. Len(q) : q[k] \in S
  OBVIOUS
<1>2. SubSeq(q, 1, w) = [k \in 1 .. w |-> q[k]]
  BY <1>1
<1>3. SubSeq(q, w + 1, Len(q)) = [k \in 1 .. Len(q) - w |-> q[k + w]]
  BY <1>1
<1> QED BY <1>1, <1>2, <1>3

\* What is taken from the connection and what stays on it.
LEMMA TakenProperties ==
  ASSUME TypeOK, NEW s \in Streams, NEW w \in Nat \ {0}, gzip => w = 1,
         Len(net[s]) >= w
  PROVE  /\ Taken(net[s], w) \in Seq(Int)
         /\ SubSeq(net[s], w + 1, Len(net[s])) \in
              IF gzip THEN Seq(Seq(Int)) ELSE Seq(Int)
         /\ Len(SubSeq(net[s], w + 1, Len(net[s]))) = Len(net[s]) - w
         /\ \A k \in 1 .. Len(net[s]) - w :
              SubSeq(net[s], w + 1, Len(net[s]))[k] = net[s][k + w]
         /\ gzip => Taken(net[s], w) = net[s][1]
         /\ ~gzip => /\ Len(Taken(net[s], w)) = w
                     /\ \A k \in 1 .. w : Taken(net[s], w)[k] = net[s][k]
<1>1. CASE gzip
  <2>1. net[s] \in Seq(Seq(Int)) /\ Len(net[s]) >= 1
    BY <1>1 DEF TypeOK
  <2>2. net[s][1] \in Seq(Int) /\ w = 1
    BY <1>1, <2>1
  <2> QED BY <1>1, <2>1, <2>2, Cut DEF Taken
<1>2. CASE ~gzip
  <2>1. net[s] \in Seq(Int) /\ w \in 0 .. Len(net[s])
    BY <1>2 DEF TypeOK
  <2> QED BY <1>2, <2>1, Cut DEF Taken
<1> QED BY <1>1, <1>2

\* How much a receiver asks for: with compression one buffer. Otherwise no more
\* than is missing, unless what is missing does not fit in an int:
\* then what the server gets wrong never brings it below INT_MAX.
LEMMA WantsProperties ==
  ASSUME TypeOK, NEW s \in Streams, Receiving(s)
  PROVE  /\ Wants(s) \in Int
         /\ gzip => Wants(s) = 1
         /\ ~gzip => LET left == FragLen(size, s) - nbget[s]
                     IN  /\ kind = "retr" \/ left < IntLimit =>
                              Wants(s) > 0 /\ Wants(s) <= left
                         /\ kind = "store" /\ left >= IntLimit =>
                              left - Wants(s) >= IntLimit
<1> DEFINE left == FragLen(size, s) - nbget[s]
<1>1. /\ size \in Nat /\ nbget[s] \in Int /\ FragLen(size, s) \in Nat
      /\ Buf \in Nat \ {0} /\ IntLimit \in Nat /\ Buf < IntLimit
  BY StreamsAssumption, FragmentBounds DEF TypeOK
<1>2. left \in Int /\ left > 0
  BY <1>1 DEF Receiving, Complete
<1>3. CASE gzip
  BY <1>3 DEF Wants
<1>4. CASE ~gzip /\ kind = "retr"
  BY <1>1, <1>2, <1>4 DEF Wants, ClientWants, Least
<1>5. CASE ~gzip /\ kind = "store"
  <2>1. Wants(s) = Least(ToInt(left), Buf)
    BY <1>5 DEF Wants, ServerWants
  <2> HIDE DEF left
  <2>2. ToInt(left) \in Int /\ ToInt(left) <= left
    BY <1>1, <1>2 DEF ToInt
  <2>3. CASE left < IntLimit
    <3>1. ToInt(left) = left
      BY <1>1, <1>2, <2>3 DEF ToInt
    <3> QED BY <1>1, <1>2, <1>5, <2>1, <2>3, <3>1 DEF Least, left
  <2>4. CASE left >= IntLimit
    <3>1. ToInt(left) <= left - 2 * IntLimit
      BY <1>1, <1>2, <2>4 DEF ToInt
    <3>2. left - Least(ToInt(left), Buf) >= IntLimit
      BY <1>1, <1>2, <2>2, <2>4, <3>1 DEF Least
    <3>3. Least(ToInt(left), Buf) \in Int
      BY <1>1, <2>2 DEF Least
    <3> QED BY <1>1, <1>2, <1>5, <2>1, <2>4, <3>2, <3>3 DEF left
  <2> QED BY <1>1, <1>2, <2>3, <2>4
<1> QED
  <2>1. kind \in Kinds
    BY DEF TypeOK
  <2> QED BY <1>3, <1>4, <1>5, <2>1 DEF Kinds

\* What a step of Send appends to the connection.
LEMMA Encoded ==
  ASSUME TypeOK, NEW bytes \in Seq(Int)
  PROVE  /\ Encode(bytes) \in IF gzip THEN Seq(Seq(Int)) ELSE Seq(Int)
         /\ gzip => Encode(bytes) = <<bytes>> /\ Len(Encode(bytes)) = 1
         /\ ~gzip => Encode(bytes) = bytes
<1>1. CASE gzip
  BY <1>1 DEF Encode
<1>2. CASE ~gzip
  BY <1>2 DEF Encode
<1> QED BY <1>1, <1>2

\* One buffer sent keeps the types: read bytes stay within the fragment.
LEMMA SendType ==
  ASSUME TypeOK, NEW s \in Streams, Send(s)
  PROVE  TypeOK'
<1> DEFINE bytes == BytesRead(s)
           Wire  == IF gzip THEN Seq(Seq(Int)) ELSE Seq(Int)
<1>1. /\ nbread' = [nbread EXCEPT ![s] = @ + Len(bytes)]
      /\ net' = [net EXCEPT ![s] = @ \o Encode(bytes)]
      /\ Len(net[s]) + Len(Encode(bytes)) <= Cap
      /\ UNCHANGED <<transfer, srclen, snd, receiver, ack, fault>>
  BY DEF Send
<1>2. /\ bytes \in Seq(Int) /\ Len(bytes) \in Nat
      /\ nbread[s] + Len(bytes) <= FragLen(size, s)
  BY BytesReadProperties DEF Send
<1> HIDE DEF bytes
<1>3. Encode(bytes) \in Wire /\ net[s] \in Wire
  BY <1>2, Encoded DEF TypeOK
<1>4. net[s] \o Encode(bytes) \in Wire /\ Len(net[s] \o Encode(bytes)) <= Cap
  <2>1. CASE gzip
    BY <1>1, <1>3, <2>1
  <2>2. CASE ~gzip
    BY <1>1, <1>3, <2>2
  <2> QED BY <2>1, <2>2
<1>5. net' \in [Streams -> Wire] /\ \A t \in Streams : Len(net'[t]) <= Cap
  BY <1>1, <1>4 DEF TypeOK
<1>6. nbread' \in [Streams -> 0 .. size]
  <2>1. size \in Nat /\ nbread[s] \in 0 .. size
    BY StreamsAssumption DEF TypeOK
  <2>2. nbread[s] + Len(bytes) \in 0 .. size
    <3>1. /\ FragStart(size, s) \in Nat /\ FragLen(size, s) \in Nat
          /\ FragStart(size, s) + FragLen(size, s) <= size
      BY <2>1, FragmentBounds
    <3> QED BY <1>2, <2>1, <3>1
  <2> QED BY <1>1, <2>2 DEF TypeOK
<1> QED BY <1>1, <1>5, <1>6 DEF TypeOK, transfer, receiver

\* One buffer received keeps the types: the file grows by what was taken.
LEMMA ReceiveType ==
  ASSUME TypeOK, NEW s \in Streams, Receive(s)
  PROVE  TypeOK'
<1> DEFINE w    == Wants(s)
           Wire == IF gzip THEN Seq(Seq(Int)) ELSE Seq(Int)
<1>1. w \in Int /\ (gzip => w = 1) /\ UNCHANGED <<transfer, srclen, sender, rcv, exists, ack, fault>>
  BY WantsProperties DEF Receive, Target
<1>2. CASE w <= 0
  <2>1. nbget' = [nbget EXCEPT ![s] = @ + w] /\ UNCHANGED <<wrote, file, net>>
    BY <1>1, <1>2 DEF Receive, Target
  <2> HIDE DEF w
  <2>2. nbget' \in [Streams -> Int]
    BY <1>1, <2>1 DEF TypeOK
  <2> QED BY <1>1, <2>1, <2>2 DEF TypeOK, transfer, sender
<1>3. CASE w > 0
  <2> DEFINE bytes == Taken(net[s], w)
             at    == FragStart(size, s) + wrote[s]
             rest  == SubSeq(net[s], w + 1, Len(net[s]))
  <2>1. /\ Len(net[s]) >= w
        /\ file' = [p \in DOMAIN file |-> IF p \in at .. at + Len(bytes) - 1
                                          THEN bytes[p - at + 1] ELSE file[p]]
        /\ wrote' = [wrote EXCEPT ![s] = @ + Len(bytes)]
        /\ nbget' = [nbget EXCEPT ![s] = @ + Len(bytes)]
        /\ net' = [net EXCEPT ![s] = rest]
    BY <1>1, <1>3 DEF Receive, Target
  <2>2. bytes \in Seq(Int) /\ rest \in Wire /\ Len(rest) = Len(net[s]) - w
    BY <1>1, <1>3, <2>1, TakenProperties
  <2> HIDE DEF w, bytes, rest
  <2>3. Len(net[s]) \in Nat /\ Len(net[s]) <= Cap
    <3>1. CASE gzip
      BY <3>1 DEF TypeOK
    <3>2. CASE ~gzip
      BY <3>2 DEF TypeOK
    <3> QED BY <3>1, <3>2
  <2>4. at \in Int
    <3>1. size \in Nat /\ wrote[s] \in Nat
      BY StreamsAssumption DEF TypeOK
    <3> QED BY <3>1, FragmentBounds
  <2> HIDE DEF at
  <2>5. file' \in [0 .. size - 1 -> Int]
    <3>1. file \in [0 .. size - 1 -> Int] /\ size \in Nat
      BY StreamsAssumption DEF TypeOK
    <3>2. ASSUME NEW p \in 0 .. size - 1, p \in at .. at + Len(bytes) - 1
          PROVE  bytes[p - at + 1] \in Int
      <4>1. p - at + 1 \in 1 .. Len(bytes)
        BY <2>2, <2>4, <3>1, <3>2
      <4> QED BY <2>2, <4>1
    <3> QED BY <2>1, <3>1, <3>2
  <2>6. wrote' \in [Streams -> Nat] /\ nbget' \in [Streams -> Int]
    BY <2>1, <2>2 DEF TypeOK
  <2>7. net' \in [Streams -> Wire] /\ \A t \in Streams : Len(net'[t]) <= Cap
    <3>1. Len(rest) <= Cap /\ rest \in Wire
      BY <1>1, <1>3, <2>2, <2>3, StreamsAssumption
    <3> HIDE DEF Wire
    <3>2. net \in [Streams -> Wire] /\ \A t \in Streams : Len(net[t]) <= Cap
      BY DEF TypeOK, Wire
    <3> QED BY <2>1, <3>1, <3>2
  <2> QED BY <1>1, <2>5, <2>6, <2>7 DEF TypeOK, transfer, sender
<1> QED BY <1>1, <1>2, <1>3

\* All other steps change neither the counters nor the data.
Quiet == UNCHANGED <<transfer, nbread, nbget, wrote, file, net>>

\* A sender that only changes its state moves no data.
LEMMA SenderMoves ==
  ASSUME TypeOK, NEW s \in Streams, NEW to \in Ended \cup {"start", "send", "wait"},
         snd' = [snd EXCEPT ![s] = to], fault' \in BOOLEAN,
         UNCHANGED <<transfer, srclen, nbread, receiver, net, ack>>
  PROVE  TypeOK' /\ Quiet /\ UNCHANGED ack
<1>1. snd' \in [Streams -> Ended \cup {"start", "send", "wait"}]
  BY DEF TypeOK
<1>2. UNCHANGED <<kind, gzip, size, srclen, nbread, rcv, nbget, wrote, file, exists, net, ack>>
  BY DEF transfer, receiver
<1> QED BY <1>1, <1>2 DEF TypeOK, Quiet, transfer

\* A receiver that only changes its state moves no data.
LEMMA ReceiverMoves ==
  ASSUME TypeOK, NEW s \in Streams, NEW to \in Ended \cup {"start", "recv", "close"},
         rcv' = [rcv EXCEPT ![s] = to], exists' \in BOOLEAN, fault' \in BOOLEAN,
         ack' \in [Streams -> BOOLEAN],
         UNCHANGED <<transfer, srclen, sender, nbget, wrote, file, net>>
  PROVE  TypeOK' /\ Quiet
<1>1. rcv' \in [Streams -> Ended \cup {"start", "recv", "close"}]
  BY DEF TypeOK
<1>2. UNCHANGED <<kind, gzip, size, srclen, snd, nbread, nbget, wrote, file, net>>
  BY DEF transfer, sender
<1> QED BY <1>1, <1>2 DEF TypeOK, Quiet, transfer

\* All steps of a sender but Send move no data.
LEMMA SenderQuiet ==
  ASSUME TypeOK, NEW s \in Streams,
         SenderStep(s) \/ (SenderFails(s) /\ fault' = TRUE)
  PROVE  Send(s) \/ (TypeOK' /\ Quiet /\ UNCHANGED ack)
<1> DEFINE At == Ended \cup {"start", "send", "wait"}
<1>1. fault \in BOOLEAN /\ "send" \in At /\ "wait" \in At /\ "ok" \in At /\ "bad" \in At
  BY DEF TypeOK, Ended
<1>2. CASE OpenSource(s)
  BY <1>1, <1>2, SenderMoves DEF OpenSource
<1>3. CASE AllSent(s)
  BY <1>1, <1>3, SenderMoves DEF AllSent
<1>4. CASE Acknowledged(s)
  BY <1>1, <1>4, SenderMoves DEF Acknowledged
<1>5. CASE SendNothing(s)
  <2>1. UNCHANGED <<transfer, srclen, nbread, receiver, net, ack, fault>>
    BY <1>5 DEF SendNothing
  <2>2. CASE \E status \in Ended : snd' = [snd EXCEPT ![s] = status]
    BY <1>1, <2>1, <2>2, SenderMoves
  <2>3. CASE UNCHANGED snd
    <3>1. UNCHANGED <<kind, gzip, size, srclen, snd, nbread, rcv, nbget, wrote, file,
                      exists, net, ack, fault>>
      BY <2>1, <2>3 DEF transfer, receiver
    <3> QED BY <3>1 DEF TypeOK, Quiet, transfer
  <2> QED BY <1>5, <2>2, <2>3 DEF SendNothing
<1>6. CASE SndGivesUp(s) /\ fault' \in BOOLEAN
  BY <1>1, <1>6, SenderMoves DEF SndGivesUp
<1>7. SenderBroken(s) => SndGivesUp(s) /\ fault' \in BOOLEAN
  BY <1>1 DEF SenderBroken
<1>8. SenderFails(s) => SndGivesUp(s)
  BY DEF SenderFails, OpenSourceFails, ReadFails, SenderTimeout, SenderKilled
<1> QED BY <1>2, <1>3, <1>4, <1>5, <1>6, <1>7, <1>8 DEF SenderStep

\* All steps of a receiver but Receive move no data.
LEMMA ReceiverQuiet ==
  ASSUME TypeOK, NEW s \in Streams,
         ReceiverStep(s) \/ (ReceiverFails(s) /\ fault' = TRUE)
  PROVE  Receive(s) \/ (TypeOK' /\ Quiet /\ (Acknowledge(s) \/ UNCHANGED ack))
<1> DEFINE At == Ended \cup {"start", "recv", "close"}
<1>1. /\ fault \in BOOLEAN /\ exists \in BOOLEAN /\ ack \in [Streams -> BOOLEAN]
      /\ "recv" \in At /\ "close" \in At /\ "ok" \in At /\ "bad" \in At
  BY DEF TypeOK, Ended
<1>2. CASE OpenTarget(s)
  BY <1>1, <1>2, ReceiverMoves DEF OpenTarget
<1>3. CASE CloseTarget(s)
  BY <1>1, <1>3, ReceiverMoves DEF CloseTarget
<1>4. CASE Acknowledge(s)
  <2>1. [ack EXCEPT ![s] = TRUE] \in [Streams -> BOOLEAN]
    BY <1>1
  <2> QED BY <1>1, <1>4, <2>1, ReceiverMoves DEF Acknowledge
<1>5. ASSUME NEW remove \in BOOLEAN, RcvGivesUp(s, remove), fault' \in BOOLEAN
      PROVE  TypeOK' /\ Quiet /\ UNCHANGED ack
  <2>1. exists' \in BOOLEAN /\ fault' \in BOOLEAN /\ ack' = ack
    BY <1>5 DEF RcvGivesUp
  <2> QED BY <1>1, <1>5, <2>1, ReceiverMoves DEF RcvGivesUp
<1>6. ReceiverFails(s) => \E remove \in BOOLEAN : RcvGivesUp(s, remove)
  <2>1. TRUE \in BOOLEAN /\ FALSE \in BOOLEAN /\ (kind = "store") \in BOOLEAN
    OBVIOUS
  <2>2. OpenTargetFails(s) => \E remove \in BOOLEAN : RcvGivesUp(s, remove)
    BY <2>1 DEF OpenTargetFails
  <2> QED BY <2>1, <2>2 DEF ReceiverFails, WriteFails, ReceiverTimeout, AcknowledgeFails,
             CloseFails, ReceiverKilled
<1>7. OpenTargetGone(s) \/ ReceiverBroken(s) =>
        fault' \in BOOLEAN /\ \E remove \in BOOLEAN : RcvGivesUp(s, remove)
  BY <1>1 DEF OpenTargetGone, ReceiverBroken
<1> QED BY <1>2, <1>3, <1>4, <1>5, <1>6, <1>7 DEF ReceiverStep

\* A source that gets shorter, and a stutter, move no data.
LEMMA TruncateQuiet ==
  ASSUME TypeOK, Truncate \/ Over \/ UNCHANGED vars
  PROVE  TypeOK' /\ Quiet /\ UNCHANGED ack
<1>1. CASE Truncate
  <2>1. size \in Nat /\ srclen \in 0 .. size /\ srclen' = srclen - 1 /\ srclen > 0
    BY <1>1, StreamsAssumption DEF Truncate, TypeOK
  <2>2. srclen' \in 0 .. size
    BY <2>1
  <2> QED BY <1>1, <2>2 DEF Truncate, TypeOK, Quiet, transfer, sender, receiver
<1>2. CASE UNCHANGED vars
  BY <1>2 DEF vars, TypeOK, Quiet, transfer
<1> QED BY <1>1, <1>2 DEF Over

\* A step sends a buffer, receives one, acknowledges, or is quiet.
LEMMA Steps ==
  ASSUME TypeOK, [Next]_vars
  PROVE  /\ TypeOK'
         /\ \/ \E s \in Streams : Send(s) \/ Receive(s)
            \/ Quiet /\ (UNCHANGED ack \/ \E s \in Streams : Acknowledge(s))
<1>1. CASE \E s \in Streams : Send(s)
  BY <1>1, SendType
<1>2. CASE \E s \in Streams : Receive(s)
  BY <1>2, ReceiveType
<1> QED BY <1>1, <1>2, SenderQuiet, ReceiverQuiet, TruncateQuiet DEF Next, Failure

\* The initial state is well typed.
LEMMA InitType == Init => TypeOK
<1> SUFFICES ASSUME Init PROVE TypeOK
  OBVIOUS
<1>1. size \in Nat \ {0} /\ Cap \in Nat
  BY StreamsAssumption DEF Init
<1>2. net \in [Streams -> IF gzip THEN Seq(Seq(Int)) ELSE Seq(Int)]
  BY DEF Init
<1>3. \A s \in Streams : Len(net[s]) <= Cap
  BY <1>1 DEF Init
<1>4. file \in [0 .. size - 1 -> Int] /\ srclen \in 0 .. size
  BY <1>1 DEF Init, Hole
<1>5. /\ snd \in [Streams -> Ended \cup {"start", "send", "wait"}]
      /\ rcv \in [Streams -> Ended \cup {"start", "recv", "close"}]
  BY DEF Init
<1>6. nbread \in [Streams -> 0 .. size] /\ nbget \in [Streams -> Int] /\ wrote \in [Streams -> Nat]
  BY <1>1 DEF Init
<1>7. exists \in BOOLEAN /\ fault \in BOOLEAN /\ ack \in [Streams -> BOOLEAN]
  BY DEF Init
<1>8. kind \in Kinds /\ gzip \in BOOLEAN /\ size \in Sizes
  BY DEF Init
<1> QED BY <1>2, <1>3, <1>4, <1>5, <1>6, <1>7, <1>8 DEF TypeOK

\* Counters and channels keep their types and bounds in every transfer.
THEOREM StreamsTypeCorrect == Spec => []TypeOK
<1>1. TypeOK /\ [Next]_vars => TypeOK'
  BY Steps
<1> QED BY InitType, <1>1, PTL DEF Spec

-----------------------------------------------------------------------------
(* The steps preserve the invariant.                                       *)

\* Facts about stream s that the invariant gives.
LEMMA Numbers ==
  ASSUME IInv, NEW s \in Streams
  PROVE  /\ size \in Nat /\ FragStart(size, s) \in Nat /\ FragLen(size, s) \in Nat
         /\ FragStart(size, s) + FragLen(size, s) <= size
         /\ nbread[s] \in Nat /\ wrote[s] \in Nat /\ nbget[s] \in Int
         /\ Len(net[s]) \in Nat /\ IntLimit \in Nat
         /\ wrote[s] <= nbread[s] /\ nbread[s] <= FragLen(size, s)
<1>1. size \in Nat /\ nbread[s] \in Nat /\ wrote[s] \in Nat /\ nbget[s] \in Int
  BY StreamsAssumption DEF IInv, TypeOK
<1>2. Len(net[s]) \in Nat
  <2>1. CASE gzip
    BY <2>1 DEF IInv, TypeOK
  <2>2. CASE ~gzip
    BY <2>2 DEF IInv, TypeOK
  <2> QED BY <2>1, <2>2
<1>3. wrote[s] <= nbread[s] /\ nbread[s] <= FragLen(size, s)
  BY DEF IInv, StreamInv, Counted
<1> QED BY <1>1, <1>2, <1>3, FragmentBounds, StreamsAssumption

\* Nothing that the invariant of a stream speaks of changes: only
\* MSG_ACK may have been sent.
LEMMA QuietInv ==
  ASSUME IInv, TypeOK', Quiet, UNCHANGED ack \/ \E s \in Streams : Acknowledge(s)
  PROVE  IInv'
<1>1. UNCHANGED <<kind, gzip, size, nbread, nbget, wrote, file, net>>
  BY DEF Quiet, transfer
<1>2. NothingMisplaced'
  BY <1>1 DEF IInv, NothingMisplaced
<1>3. ASSUME NEW t \in Streams
      PROVE  StreamInv(t)'
  <2>1. InFlight(t)' /\ Counted(t)' /\ Written(t)'
    <3>1. InFlight(t) /\ Counted(t) /\ Written(t)
      BY <1>3 DEF IInv, StreamInv
    <3>2. InFlight(t)'
      BY <1>1, <3>1 DEF InFlight
    <3>3. Counted(t)'
      BY <1>1, <3>1 DEF Counted, TooLarge
    <3>4. Written(t)'
      BY <1>1, <3>1 DEF Written
    <3> QED BY <3>2, <3>3, <3>4
  <2>2. ack'[t] => ~TooLarge(t) /\ wrote[t] >= FragLen(size, t)
    <3>1. CASE ack'[t] = ack[t]
      BY <3>1, <1>3 DEF IInv, StreamInv, Acked
    <3>2. CASE Acknowledge(t)
      <4>1. nbget[t] >= FragLen(size, t)
        BY <3>2 DEF Acknowledge, Complete
      <4>2. Counted(t)
        BY <1>3 DEF IInv, StreamInv
      <4>3. ~TooLarge(t)
        <5>1. SUFFICES ASSUME TooLarge(t) PROVE FALSE
          OBVIOUS
        <5>2. FragLen(size, t) - nbget[t] >= IntLimit /\ IntLimit > 0
          BY <4>2, <5>1, StreamsAssumption DEF Counted
        <5> QED BY <4>1, <5>2, Numbers
      <4> QED BY <4>1, <4>2, <4>3 DEF Counted
    <3> QED
      <4>1. ack'[t] = ack[t] \/ Acknowledge(t)
        BY <1>3 DEF Acknowledge, IInv, TypeOK
      <4> QED BY <3>1, <3>2, <4>1
  <2>3. Acked(t)'
    BY <1>1, <2>2 DEF Acked, TooLarge
  <2> QED BY <2>1, <2>3 DEF StreamInv
<1> QED BY <1>2, <1>3 DEF IInv

\* A step on one connection leaves the others alone.
LEMMA SendOther ==
  ASSUME IInv, NEW s \in Streams, Send(s), NEW t \in Streams, t # s
  PROVE  StreamInv(t)'
<1>1. /\ UNCHANGED <<kind, gzip, size, nbget, wrote, file, ack>>
      /\ net'[t] = net[t] /\ nbread'[t] = nbread[t]
  BY DEF Send, IInv, TypeOK, transfer, receiver
<1>2. InFlight(t) /\ Counted(t) /\ Written(t) /\ Acked(t)
  BY DEF IInv, StreamInv
<1>3. InFlight(t)'
  BY <1>1, <1>2 DEF InFlight
<1>4. Counted(t)'
  BY <1>1, <1>2 DEF Counted, TooLarge
<1>5. Written(t)' /\ Acked(t)'
  BY <1>1, <1>2 DEF Written, Acked, TooLarge
<1> QED BY <1>3, <1>4, <1>5 DEF StreamInv

\* Sending adds to what is in flight the bytes that follow it in the source.
LEMMA SendInv ==
  ASSUME IInv, NEW s \in Streams, Send(s)
  PROVE  IInv'
<1> DEFINE bytes == BytesRead(s)
           q     == net[s]
           start == FragStart(size, s)
<1>1. /\ nbread' = [nbread EXCEPT ![s] = @ + Len(bytes)]
      /\ net' = [net EXCEPT ![s] = @ \o Encode(bytes)]
      /\ UNCHANGED <<kind, gzip, size, nbget, wrote, file, ack>>
  BY DEF Send, transfer, receiver
<1>2. /\ bytes \in Seq(Int) /\ Len(bytes) \in Nat \ {0}
      /\ nbread[s] + Len(bytes) <= FragLen(size, s)
      /\ \A k \in 1 .. Len(bytes) : bytes[k] = start + nbread[s] + k - 1
  BY BytesReadProperties DEF Send, IInv
<1>3. /\ start \in Nat /\ wrote[s] \in Nat /\ nbread[s] \in Nat /\ Len(q) \in Nat
      /\ wrote[s] <= nbread[s] /\ FragLen(size, s) \in Nat
  BY Numbers
<1>4. InFlight(s) /\ Counted(s) /\ Written(s) /\ Acked(s)
  BY DEF IInv, StreamInv
<1> HIDE DEF bytes
<1>5. nbread'[s] = nbread[s] + Len(bytes) /\ net'[s] = q \o Encode(bytes)
  BY <1>1 DEF IInv, TypeOK
<1> HIDE DEF q, start
<1>num. /\ start \in Nat /\ Len(q) \in Nat /\ wrote[s] \in Nat /\ nbread[s] \in Nat
        /\ Len(bytes) \in Nat /\ Len(bytes) > 0 /\ nbread'[s] = nbread[s] + Len(bytes)
  BY <1>2, <1>3, <1>5
<1>6. InFlight(s)'
  <2>1. CASE gzip
    <3>1. q \in Seq(Seq(Int)) /\ Encode(bytes) = <<bytes>>
      BY <2>1, <1>2, Encoded DEF IInv, TypeOK, q
    <3> DEFINE r == q \o <<bytes>>
    <3>2. /\ Len(r) = Len(q) + 1 /\ r[Len(q) + 1] = bytes
          /\ \A k \in 1 .. Len(q) : r[k] = q[k]
      BY <1>2, <3>1
    <3>3. bytes[1] = start + nbread[s]
      BY <1>2, <1>3
    <3> HIDE DEF r
    <3>4. /\ \A k \in 1 .. Len(q) :
               /\ Len(q[k]) > 0 /\ q[k][1] + Len(q[k]) <= start + nbread[s]
               /\ \A j \in 1 .. Len(q[k]) : q[k][j] = q[k][1] + j - 1
          /\ \A k \in 1 .. Len(q) - 1 : q[k + 1][1] = q[k][1] + Len(q[k])
          /\ Len(q) = 0 => wrote[s] = nbread[s]
          /\ Len(q) > 0 => /\ q[1][1] = start + wrote[s]
                           /\ q[Len(q)][1] + Len(q[Len(q)]) = start + nbread[s]
      BY <2>1, <1>4 DEF InFlight, q, start
    <3>5. \A k \in 1 .. Len(q) : q[k] \in Seq(Int) /\ Len(q[k]) \in Nat
      BY <3>1
    <3>6. \A k \in 1 .. Len(q) : q[k][1] \in Int
      BY <3>4, <3>5
    <3>7. ASSUME NEW k \in 1 .. Len(r)
          PROVE  /\ Len(r[k]) > 0
                 /\ r[k][1] + Len(r[k]) <= start + nbread'[s]
                 /\ \A j \in 1 .. Len(r[k]) : r[k][j] = r[k][1] + j - 1
      <4>1. CASE k = Len(q) + 1
        <5>1. r[k] = bytes
          BY <3>2, <4>1
        <5>2. Len(bytes) > 0 /\ bytes[1] + Len(bytes) <= start + nbread'[s]
          BY <1>num, <3>3
        <5>3. \A j \in 1 .. Len(bytes) : bytes[j] = bytes[1] + j - 1
          BY <1>2, <3>3
        <5> QED BY <5>1, <5>2, <5>3
      <4>2. CASE k \in 1 .. Len(q)
        <5>1. r[k] = q[k] /\ q[k][1] \in Int /\ Len(q[k]) \in Nat
          BY <3>2, <3>5, <3>6, <4>2
        <5>2. /\ Len(q[k]) > 0 /\ q[k][1] + Len(q[k]) <= start + nbread[s]
              /\ \A j \in 1 .. Len(q[k]) : q[k][j] = q[k][1] + j - 1
          BY <3>4, <4>2
        <5>3. q[k][1] + Len(q[k]) <= start + nbread'[s]
          BY <1>num, <5>1, <5>2
        <5> QED BY <5>1, <5>2, <5>3
      <4> QED
        <5>1. k = Len(q) + 1 \/ k \in 1 .. Len(q)
          BY <1>num, <3>2, <3>7
        <5> QED BY <4>1, <4>2, <5>1
    <3>8. ASSUME NEW k \in 1 .. Len(r) - 1
          PROVE  r[k + 1][1] = r[k][1] + Len(r[k])
      <4>1. CASE k = Len(q)
        BY <1>3, <3>2, <3>3, <3>4, <4>1
      <4>2. CASE k \in 1 .. Len(q) - 1
        <5>1. k \in 1 .. Len(q) /\ k + 1 \in 1 .. Len(q)
          BY <1>3, <4>2
        <5>2. r[k] = q[k] /\ r[k + 1] = q[k + 1]
          BY <3>2, <5>1
        <5> QED BY <3>4, <4>2, <5>2
      <4> QED BY <1>3, <3>2, <3>8, <4>1, <4>2
    <3>9. r[1][1] = start + wrote[s]
      BY <1>3, <3>2, <3>3, <3>4
    <3>10. r[Len(r)][1] + Len(r[Len(r)]) = start + nbread'[s] /\ Len(r) > 0
      BY <1>2, <1>3, <1>5, <3>2, <3>3
    <3>11. net'[s] = r
      BY <1>5, <3>1 DEF r, q
    <3>12. gzip' /\ wrote' = wrote /\ FragStart(size, s)' = start
      BY <1>1, <2>1 DEF start, FragStart, PerChild
    <3> HIDE DEF start
    <3> QED BY <3>7, <3>8, <3>9, <3>10, <3>11, <3>12 DEF InFlight
  <2>2. CASE ~gzip
    <3>1. q \in Seq(Int) /\ Encode(bytes) = bytes
      BY <2>2, <1>2, Encoded DEF IInv, TypeOK, q
    <3>2. /\ wrote[s] + Len(q) = nbread[s]
          /\ \A k \in 1 .. Len(q) : q[k] = start + wrote[s] + k - 1
      BY <2>2, <1>4 DEF InFlight, q, start
    <3> DEFINE r == q \o bytes
    <3>3. /\ Len(r) = Len(q) + Len(bytes)
          /\ \A k \in 1 .. Len(q) : r[k] = q[k]
          /\ \A k \in Len(q) + 1 .. Len(q) + Len(bytes) : r[k] = bytes[k - Len(q)]
      BY <1>2, <3>1
    <3> HIDE DEF r
    <3>4. ASSUME NEW k \in 1 .. Len(r)
          PROVE  r[k] = start + wrote[s] + k - 1
      <4>1. CASE k \in 1 .. Len(q)
        BY <3>2, <3>3, <4>1
      <4>2. CASE k \in Len(q) + 1 .. Len(q) + Len(bytes)
        <5>1. k - Len(q) \in 1 .. Len(bytes)
          BY <1>2, <1>3, <4>2
        <5>2. r[k] = bytes[k - Len(q)] /\ bytes[k - Len(q)] = start + nbread[s] + (k - Len(q)) - 1
          BY <1>2, <3>3, <4>2, <5>1
        <5>3. wrote[s] + Len(q) = nbread[s]
          BY <3>2
        <5>4. k \in Int
          BY <1>num, <4>2
        <5>5. start + nbread[s] + (k - Len(q)) - 1 = start + wrote[s] + k - 1
          <6> DEFINE read == nbread[s]
                     written == wrote[s]
                     flying  == Len(q)
          <6>1. /\ read \in Nat /\ written \in Nat /\ flying \in Nat /\ start \in Nat
                /\ written + flying = read
            BY <1>num, <5>3
          <6> HIDE DEF read, written, flying
          <6>2. start + read + (k - flying) - 1 = start + written + k - 1
            BY <5>4, <6>1
          <6> QED BY <6>2 DEF read, written, flying
        <5> QED BY <5>2, <5>5
      <4> QED BY <1>2, <1>3, <3>3, <3>4, <4>1, <4>2
    <3>5. wrote[s] + Len(r) = nbread[s] + Len(bytes)
      BY <1>2, <1>3, <3>2, <3>3
    <3>6. net'[s] = r
      BY <1>5, <3>1 DEF r, q
    <3> QED BY <1>1, <1>5, <2>2, <3>4, <3>5, <3>6 DEF InFlight, start
  <2> QED BY <2>1, <2>2
<1>7. Counted(s)'
  <2>1. wrote[s] <= nbread[s] + Len(bytes)
    BY <1>2, <1>3
  <2> QED BY <1>1, <1>2, <1>4, <1>5, <2>1 DEF Counted, TooLarge
<1>8. Written(s)' /\ Acked(s)' /\ NothingMisplaced'
  BY <1>1, <1>4 DEF Written, Acked, TooLarge, IInv, NothingMisplaced
<1>9. TypeOK'
  BY SendType DEF IInv
<1> QED BY <1>6, <1>7, <1>8, <1>9, SendOther DEF IInv, StreamInv

\* What a receiver takes is the continuation of what it has written, and lies
\* within its fragment.
LEMMA TakenIsNext ==
  ASSUME IInv, NEW s \in Streams, NEW w \in Nat \ {0}, gzip => w = 1,
         Len(net[s]) >= w
  PROVE  LET bytes == Taken(net[s], w)
         IN  /\ bytes \in Seq(Int) /\ Len(bytes) \in Nat \ {0}
             /\ ~gzip => Len(bytes) = w
             /\ \A k \in 1 .. Len(bytes) :
                  bytes[k] = FragStart(size, s) + wrote[s] + k - 1
             /\ wrote[s] + Len(bytes) <= nbread[s]
<1> DEFINE bytes == Taken(net[s], w)
           start == FragStart(size, s)
           q     == net[s]
<1>1. bytes \in Seq(Int) /\ InFlight(s)
  BY TakenProperties DEF IInv, StreamInv
<1>2. Len(q) \in Nat /\ start \in Nat /\ wrote[s] \in Nat /\ nbread[s] \in Nat
  BY Numbers
<1>3. CASE gzip
  <2>1. bytes = q[1] /\ 1 \in 1 .. Len(q)
    BY <1>2, <1>3, TakenProperties DEF IInv
  <2> HIDE DEF bytes, start, q
  <2>2. /\ Len(q[1]) > 0 /\ q[1][1] + Len(q[1]) <= start + nbread[s]
        /\ \A j \in 1 .. Len(q[1]) : q[1][j] = q[1][1] + j - 1
        /\ q[1][1] = start + wrote[s]
    BY <1>1, <1>2, <1>3, <2>1 DEF InFlight, q, start
  <2>3. Len(bytes) \in Nat \ {0}
    BY <1>1, <2>1, <2>2
  <2>4. wrote[s] + Len(bytes) <= nbread[s]
    BY <1>2, <2>1, <2>2, <2>3
  <2> QED BY <1>1, <1>2, <1>3, <2>1, <2>2, <2>3, <2>4 DEF bytes, start
<1>4. CASE ~gzip
  <2>1. /\ Len(bytes) = w /\ \A k \in 1 .. w : bytes[k] = q[k]
    BY <1>4, TakenProperties DEF IInv
  <2>2. /\ wrote[s] + Len(q) = nbread[s]
        /\ \A k \in 1 .. Len(q) : q[k] = start + wrote[s] + k - 1
    BY <1>1, <1>4 DEF InFlight
  <2>3. Len(q) >= w
    OBVIOUS
  <2> HIDE DEF bytes, start, q
  <2>4. \A k \in 1 .. w : k \in 1 .. Len(q)
    BY <1>2, <2>3
  <2>5. wrote[s] + Len(bytes) <= nbread[s]
    BY <1>2, <2>1, <2>2, <2>3
  <2> QED BY <1>1, <2>1, <2>2, <2>4, <2>5 DEF bytes, start
<1> QED BY <1>3, <1>4

\* If nothing is asked for only the count changes, and only when the fragment
\* is too large.
LEMMA ReceiveNothing ==
  ASSUME IInv, NEW s \in Streams, Receive(s), Wants(s) <= 0
  PROVE  IInv'
<1> DEFINE w == Wants(s)
           left == FragLen(size, s) - nbget[s]
<1>1. w \in Int /\ Receiving(s) /\ ~gzip
  BY WantsProperties DEF Receive, IInv
<1>2. /\ nbget' = [nbget EXCEPT ![s] = @ + w]
      /\ UNCHANGED <<kind, gzip, size, nbread, wrote, file, net, ack>>
  BY <1>1 DEF Receive, Target, transfer, sender
<1>3. ~(kind = "retr" \/ left < IntLimit) /\ (kind = "store" /\ left >= IntLimit => left - w >= IntLimit)
  BY <1>1, WantsProperties DEF IInv
<1>4. left \in Int /\ IntLimit \in Nat /\ FragLen(size, s) \in Nat /\ nbget[s] \in Int
  BY Numbers
<1>5. kind = "store"
  BY <1>3 DEF IInv, TypeOK, Kinds
<1> HIDE DEF w
<1>6. ASSUME NEW t \in Streams
      PROVE  StreamInv(t)'
  <2>1. InFlight(t) /\ Counted(t) /\ Written(t) /\ Acked(t)
    BY DEF IInv, StreamInv
  <2>2. InFlight(t)'
    BY <1>2, <2>1 DEF InFlight
  <2>3. Written(t)' /\ Acked(t)'
    BY <1>2, <2>1 DEF Written, Acked, TooLarge
  <2>4. CASE t # s
    <3>1. nbget'[t] = nbget[t]
      BY <1>2, <2>4 DEF IInv, TypeOK
    <3>2. Counted(t)'
      BY <1>2, <2>1, <3>1 DEF Counted, TooLarge
    <3> QED BY <2>2, <2>3, <3>2 DEF StreamInv
  <2>5. CASE t = s
    <3>1. nbget'[s] = nbget[s] + w
      BY <1>2 DEF IInv, TypeOK
    <3>2. FragLen(size, s) - nbget'[s] >= IntLimit
      BY <1>1, <1>3, <1>4, <1>5, <3>1
    <3>3. TooLarge(s)
      <4>1. SUFFICES ASSUME ~TooLarge(s) PROVE FALSE
        OBVIOUS
      <4>2. nbget[s] = wrote[s] /\ FragLen(size, s) < IntLimit
        BY <1>1, <1>4, <1>5, <2>1, <2>5, <4>1 DEF Counted, TooLarge
      <4> QED BY <1>3, <1>4, <4>2, Numbers
    <3>4. Counted(s)'
      BY <1>2, <2>1, <2>5, <3>2, <3>3 DEF Counted, TooLarge
    <3> QED BY <2>2, <2>3, <2>5, <3>4 DEF StreamInv
  <2> QED BY <2>4, <2>5
<1>7. TypeOK' /\ NothingMisplaced'
  BY <1>2, ReceiveType DEF IInv, NothingMisplaced
<1> QED BY <1>6, <1>7 DEF IInv

\* A buffer is received and written.
LEMMA ReceiveSome ==
  ASSUME IInv, NEW s \in Streams, Receive(s), Wants(s) > 0
  PROVE  IInv'
<1> DEFINE w     == Wants(s)
           q     == net[s]
           start == FragStart(size, s)
           at    == start + wrote[s]
           bytes == Taken(q, w)
           rest  == SubSeq(q, w + 1, Len(q))
<1>1. w \in Nat \ {0} /\ (gzip => w = 1) /\ Receiving(s)
  BY WantsProperties DEF Receive, IInv
<1>2. /\ Len(q) >= w
      /\ file' = [p \in DOMAIN file |-> IF p \in at .. at + Len(bytes) - 1
                                        THEN bytes[p - at + 1] ELSE file[p]]
      /\ wrote' = [wrote EXCEPT ![s] = @ + Len(bytes)]
      /\ nbget' = [nbget EXCEPT ![s] = @ + Len(bytes)]
      /\ net' = [net EXCEPT ![s] = rest]
      /\ UNCHANGED <<kind, gzip, size, nbread, ack>>
  BY <1>1 DEF Receive, Target, transfer, sender
<1>3. /\ bytes \in Seq(Int) /\ Len(bytes) \in Nat \ {0}
      /\ ~gzip => Len(bytes) = w
      /\ \A k \in 1 .. Len(bytes) : bytes[k] = start + wrote[s] + k - 1
      /\ wrote[s] + Len(bytes) <= nbread[s]
  BY <1>1, <1>2, TakenIsNext
<1>4. /\ Len(rest) = Len(q) - w
      /\ \A k \in 1 .. Len(q) - w : rest[k] = q[k + w]
      /\ gzip => bytes = q[1]
  BY <1>1, <1>2, TakenProperties DEF IInv
<1>5. /\ size \in Nat /\ start \in Nat /\ FragLen(size, s) \in Nat /\ Len(q) \in Nat
      /\ wrote[s] \in Nat /\ nbread[s] \in Nat /\ nbget[s] \in Int
      /\ wrote[s] <= nbread[s] /\ nbread[s] <= FragLen(size, s)
  BY Numbers
<1>6. InFlight(s) /\ Counted(s) /\ Written(s) /\ Acked(s)
  BY DEF IInv, StreamInv
<1>7. /\ wrote'[s] = wrote[s] + Len(bytes) /\ nbget'[s] = nbget[s] + Len(bytes)
      /\ net'[s] = rest
  BY <1>2 DEF IInv, TypeOK
<1>8. ASSUME NEW t \in Streams, t # s
      PROVE  wrote'[t] = wrote[t] /\ nbget'[t] = nbget[t] /\ net'[t] = net[t]
  BY <1>2, <1>8 DEF IInv, TypeOK
<1>9. DOMAIN file = 0 .. size - 1 /\ DOMAIN file' = 0 .. size - 1
  BY <1>2 DEF IInv, TypeOK
<1> HIDE DEF w, bytes, rest, start
<1>10. ASSUME NEW p \in 0 .. size - 1
       PROVE  /\ p \in at .. at + Len(bytes) - 1 => file'[p] = p
              /\ p \notin at .. at + Len(bytes) - 1 => file'[p] = file[p]
  <2>1. CASE p \in at .. at + Len(bytes) - 1
    <3>0. at \in Nat /\ Len(bytes) \in Nat
      BY <1>3, <1>5
    <3>1. p - at + 1 \in 1 .. Len(bytes)
      <4> HIDE DEF at
      <4> QED BY <3>0, <2>1
    <3>2. bytes[p - at + 1] = start + wrote[s] + (p - at + 1) - 1
      BY <1>3, <3>1
    <3>3. start + wrote[s] + (p - at + 1) - 1 = p
      BY <1>5
    <3>4. file'[p] = bytes[p - at + 1]
      BY <1>2, <1>9, <2>1
    <3> QED BY <2>1, <3>2, <3>3, <3>4
  <2>2. CASE p \notin at .. at + Len(bytes) - 1
    BY <1>2, <1>9, <2>2
  <2> QED BY <2>1, <2>2
<1>11. NothingMisplaced'
  <2>1. \A p \in 0 .. size - 1 : file[p] \in {Hole, p}
    BY <1>9 DEF IInv, NothingMisplaced
  <2>2. \A p \in 0 .. size - 1 : file'[p] \in {Hole, p}
    BY <1>10, <2>1
  <2> QED BY <1>9, <2>2 DEF NothingMisplaced
<1>12. ASSUME NEW t \in Streams
       PROVE  Written(t)'
  <2> DEFINE first == FragStart(size, t)
  <2>1. /\ first \in Nat /\ wrote[t] \in Nat /\ wrote[t] <= nbread[t]
        /\ nbread[t] \in Nat /\ nbread[t] <= FragLen(size, t)
        /\ FragLen(size, t) \in Nat /\ first + FragLen(size, t) <= size
    BY Numbers
  <2>2. Written(t)
    BY DEF IInv, StreamInv
  <2>3. wrote'[t] \in Nat /\ wrote'[t] <= FragLen(size, t)
    <3>1. CASE t = s
      BY <1>3, <1>5, <1>7, <2>1, <3>1
    <3>2. CASE t # s
      BY <1>8, <2>1, <3>2
    <3> QED BY <3>1, <3>2
  <2>4. ASSUME NEW p \in first .. first + wrote'[t] - 1
        PROVE  file'[p] = p
    <3>1. p \in 0 .. size - 1
      BY <1>5, <2>1, <2>3
    <3>2. CASE p \in at .. at + Len(bytes) - 1
      BY <1>10, <3>1, <3>2
    <3>3. CASE p \notin at .. at + Len(bytes) - 1
      <4>1. p \in first .. first + wrote[t] - 1
        <5>1. CASE t = s
          <6>1. first = start
            BY <5>1 DEF start
          <6>2. at = first + wrote[t] /\ wrote'[t] = wrote[t] + Len(bytes)
            BY <1>7, <5>1, <6>1
          <6>3. Len(bytes) \in Nat
            BY <1>3
          <6> HIDE DEF at, first
          <6> QED BY <2>1, <2>4, <3>3, <6>2, <6>3
        <5>2. CASE t # s
          BY <1>8, <2>4, <5>2
        <5> QED BY <5>1, <5>2
      <4> QED BY <1>10, <2>2, <3>1, <3>3, <4>1 DEF Written
    <3> QED BY <3>2, <3>3
  <2>5. FragStart(size, t)' = first
    BY <1>2 DEF FragStart, PerChild
  <2> HIDE DEF first
  <2> QED BY <2>4, <2>5 DEF Written
<1>13. InFlight(s)'
  <2>1. gzip' = gzip /\ nbread'[s] = nbread[s] /\ FragStart(size, s)' = start
    BY <1>2 DEF start, FragStart, PerChild
  <2>2. CASE gzip
    <3>1. w = 1 /\ bytes = q[1] /\ 1 \in 1 .. Len(q)
      BY <1>1, <1>2, <1>4, <1>5, <2>2
    <3> HIDE DEF q
    <3>2. /\ \A k \in 1 .. Len(q) :
               /\ Len(q[k]) > 0 /\ q[k][1] + Len(q[k]) <= start + nbread[s]
               /\ \A j \in 1 .. Len(q[k]) : q[k][j] = q[k][1] + j - 1
          /\ \A k \in 1 .. Len(q) - 1 : q[k + 1][1] = q[k][1] + Len(q[k])
          /\ q[1][1] = start + wrote[s]
          /\ q[Len(q)][1] + Len(q[Len(q)]) = start + nbread[s]
      <4>1. Len(q) > 0
        BY <1>5, <3>1
      <4> QED BY <1>6, <2>2, <4>1 DEF InFlight, q, start
    <3>3. Len(rest) = Len(q) - 1 /\ \A k \in 1 .. Len(q) - 1 : rest[k] = q[k + 1]
      BY <1>4, <3>1
    <3>4. ASSUME NEW k \in 1 .. Len(rest)
          PROVE  /\ Len(rest[k]) > 0 /\ rest[k][1] + Len(rest[k]) <= start + nbread[s]
                 /\ \A j \in 1 .. Len(rest[k]) : rest[k][j] = rest[k][1] + j - 1
      <4>1. k + 1 \in 1 .. Len(q) /\ rest[k] = q[k + 1]
        BY <1>5, <3>3, <3>4
      <4> QED BY <3>2, <4>1
    <3>5. ASSUME NEW k \in 1 .. Len(rest) - 1
          PROVE  rest[k + 1][1] = rest[k][1] + Len(rest[k])
      <4>1. k \in 1 .. Len(q) - 1 /\ k + 1 \in 1 .. Len(q) - 1
        BY <1>5, <3>3, <3>5
      <4>2. rest[k] = q[k + 1] /\ rest[k + 1] = q[(k + 1) + 1]
        BY <3>3, <4>1
      <4>3. q[(k + 1) + 1][1] = q[k + 1][1] + Len(q[k + 1])
        BY <3>2, <4>1
      <4> QED BY <4>2, <4>3
    <3>6. q[1][1] + Len(q[1]) = start + wrote'[s]
      BY <1>3, <1>5, <1>7, <3>1, <3>2
    <3>7. CASE Len(q) = 1
      <4>1. wrote'[s] = nbread[s] /\ Len(rest) = 0
        <5>1. start + wrote'[s] = start + nbread[s]
          BY <3>2, <3>6, <3>7
        <5>2. wrote'[s] \in Nat
          BY <1>3, <1>5, <1>7
        <5>3. wrote'[s] = nbread[s]
          BY <1>5, <5>1, <5>2
        <5> QED BY <3>3, <3>7, <5>3
      <4> QED BY <1>7, <2>1, <2>2, <3>4, <3>5, <4>1 DEF InFlight
    <3>8. CASE Len(q) # 1
      <4>1. Len(rest) > 0 /\ Len(q) - 1 \in 1 .. Len(q) - 1 /\ 1 \in 1 .. Len(q) - 1
        BY <1>5, <3>1, <3>3, <3>8
      <4>2. rest[1] = q[1 + 1] /\ rest[Len(rest)] = q[(Len(q) - 1) + 1]
        BY <3>3, <4>1
      <4>3. rest[1][1] = start + wrote'[s]
        BY <3>2, <3>6, <4>1, <4>2
      <4>4. (Len(q) - 1) + 1 = Len(q)
        BY <1>5
      <4>5. rest[Len(rest)][1] + Len(rest[Len(rest)]) = start + nbread[s]
        BY <3>2, <4>2, <4>4
      <4>6. Len(rest) # 0
        BY <4>1
      <4> QED BY <1>7, <2>1, <2>2, <3>4, <3>5, <4>3, <4>5, <4>6 DEF InFlight
    <3> QED BY <3>7, <3>8
  <2>3. CASE ~gzip
    <3> HIDE DEF q
    <3>1. /\ wrote[s] + Len(q) = nbread[s]
          /\ \A k \in 1 .. Len(q) : q[k] = start + wrote[s] + k - 1
      BY <1>6, <2>3 DEF InFlight, q, start
    <3>2. wrote'[s] = wrote[s] + w
      BY <1>3, <1>7, <2>3
    <3>3. ASSUME NEW k \in 1 .. Len(rest)
          PROVE  rest[k] = start + wrote'[s] + k - 1
      <4>1. k \in 1 .. Len(q) - w /\ k + w \in 1 .. Len(q) /\ k \in Int
        BY <1>1, <1>4, <1>5, <3>3
      <4>2. rest[k] = start + wrote[s] + (k + w) - 1
        BY <1>4, <3>1, <4>1
      <4> QED BY <1>1, <1>5, <3>2, <4>1, <4>2
    <3>4. wrote'[s] + Len(rest) = nbread[s]
      BY <1>1, <1>4, <1>5, <3>1, <3>2
    <3> QED BY <1>7, <2>1, <2>3, <3>3, <3>4 DEF InFlight
  <2> QED BY <2>2, <2>3
<1>14. Counted(s)'
  <2>1. UNCHANGED <<kind, gzip, size, nbread>> /\ TooLarge(s)' = TooLarge(s)
    BY <1>2 DEF TooLarge
  <2>2. wrote'[s] <= nbread[s] /\ nbread[s] <= FragLen(size, s)
    BY <1>3, <1>5, <1>7
  <2>3. CASE TooLarge(s)
    <3>1. ~gzip /\ kind = "store" /\ nbget'[s] = nbget[s] + w
      BY <1>3, <1>7, <2>3 DEF TooLarge
    <3>2. FragLen(size, s) - nbget[s] >= IntLimit
      BY <1>6, <2>3 DEF Counted
    <3>3. (FragLen(size, s) - nbget[s]) - w >= IntLimit
      BY <1>1, <3>1, <3>2, WantsProperties DEF w, IInv
    <3>4. FragLen(size, s) - nbget'[s] >= IntLimit
      BY <1>1, <1>5, <3>1, <3>3, StreamsAssumption
    <3> QED BY <2>1, <2>2, <2>3, <3>4 DEF Counted
  <2>4. CASE ~TooLarge(s)
    <3>1. nbget'[s] = wrote'[s]
      BY <1>6, <1>7, <2>4 DEF Counted
    <3> QED BY <2>1, <2>2, <2>4, <3>1 DEF Counted
  <2> QED BY <2>3, <2>4
<1>15. Acked(s)'
  <2>1. wrote'[s] >= wrote[s] /\ wrote'[s] \in Nat
    BY <1>3, <1>5, <1>7
  <2>2. ack'[s] = ack[s] /\ TooLarge(s)' = TooLarge(s) /\ size' = size
    BY <1>2 DEF TooLarge
  <2>3. ack[s] => wrote'[s] >= FragLen(size, s)
    BY <1>5, <1>6, <2>1 DEF Acked
  <2> QED BY <1>6, <2>2, <2>3 DEF Acked
<1>16. ASSUME NEW t \in Streams, t # s
       PROVE  InFlight(t)' /\ Counted(t)' /\ Acked(t)'
  <2>1. InFlight(t) /\ Counted(t) /\ Acked(t)
    BY DEF IInv, StreamInv
  <2>2. InFlight(t)'
    BY <1>2, <1>8, <1>16, <2>1 DEF InFlight
  <2>3. Counted(t)'
    BY <1>2, <1>8, <1>16, <2>1 DEF Counted, TooLarge
  <2>4. Acked(t)'
    BY <1>2, <1>8, <1>16, <2>1 DEF Acked, TooLarge
  <2> QED BY <2>2, <2>3, <2>4
<1>17. TypeOK'
  BY ReceiveType DEF IInv
<1> QED BY <1>11, <1>12, <1>13, <1>14, <1>15, <1>16, <1>17 DEF IInv, StreamInv

\* Nothing is in flight at the beginning.
LEMMA InitInv == Init => IInv
<1> SUFFICES ASSUME Init PROVE IInv
  OBVIOUS
<1>1. TypeOK
  BY InitType
<1>2. NothingMisplaced
  BY DEF Init, NothingMisplaced
<1>3. ASSUME NEW s \in Streams
      PROVE  StreamInv(s)
  <2>1. size \in Nat /\ FragLen(size, s) \in Nat /\ FragStart(size, s) \in Nat
    <3>1. size \in Nat
      BY StreamsAssumption DEF Init
    <3> QED BY <3>1, FragmentBounds
  <2>2. /\ nbread[s] = 0 /\ nbget[s] = 0 /\ wrote[s] = 0 /\ net[s] = <<>> /\ ack[s] = FALSE
    BY DEF Init
  <2>3. Len(net[s]) = 0
    BY <2>2
  <2>4. InFlight(s)
    BY <2>1, <2>2, <2>3 DEF InFlight
  <2>5. Counted(s)
    BY <2>1, <2>2, StreamsAssumption DEF Counted, TooLarge
  <2>6. Written(s) /\ Acked(s)
    BY <2>1, <2>2 DEF Written, Acked
  <2> QED BY <2>4, <2>5, <2>6 DEF StreamInv
<1> QED BY <1>1, <1>2, <1>3 DEF IInv

\* Every step keeps the invariant ...
LEMMA NextInv == IInv /\ [Next]_vars => IInv'
<1> SUFFICES ASSUME IInv, [Next]_vars PROVE IInv'
  OBVIOUS
<1>1. CASE \E s \in Streams : Send(s)
  BY <1>1, SendInv
<1>2. ASSUME NEW s \in Streams, Receive(s)
      PROVE  IInv'
  <2>1. Wants(s) \in Int
    BY <1>2, WantsProperties DEF Receive, IInv
  <2>2. Wants(s) <= 0 \/ Wants(s) > 0
    BY <2>1
  <2> QED BY <1>2, <2>2, ReceiveNothing, ReceiveSome
<1> QED BY <1>1, <1>2, Steps, QuietInv DEF IInv

\* ... which therefore always holds.
LEMMA Invariance == Spec => []IInv
BY InitInv, NextInv, PTL DEF Spec

-----------------------------------------------------------------------------
\* Whatever fails, no byte is ever written to another place than its own.
THEOREM NothingMisplacedHolds == Spec => []NothingMisplaced
<1>1. IInv => NothingMisplaced
  BY DEF IInv
<1> QED BY Invariance, <1>1, PTL

\* A receiver sends MSG_ACK (bbftpd_store.c:926-936) only when every byte of its
\* fragment is in the file.
THEOREM AckMeansWrittenHolds == Spec => []AckMeansWritten
<1>1. IInv => AckMeansWritten
  <2>1. SUFFICES ASSUME IInv, NEW s \in Streams, ack[s], NEW p \in Fragment(s)
                 PROVE  file[p] = p
    BY DEF AckMeansWritten
  <2>2. Written(s) /\ wrote[s] >= FragLen(size, s)
    BY <2>1 DEF IInv, StreamInv, Acked
  <2>3. p \in FragStart(size, s) .. FragStart(size, s) + wrote[s] - 1
    BY <2>1, <2>2, Numbers DEF Fragment
  <2> QED BY <2>2, <2>3 DEF Written
<1> QED BY Invariance, <1>1, PTL

\* A server never acknowledges a fragment that is longer than INT_MAX and was
\* sent without compression (bbftpd_store.c:858): its transfer cannot succeed.
THEOREM LargeFragmentNeverAcked ==
  Spec => [](\A s \in Streams : TooLarge(s) => ~ack[s])
<1>1. IInv => \A s \in Streams : TooLarge(s) => ~ack[s]
  BY DEF IInv, StreamInv, Acked
<1> QED BY Invariance, <1>1, PTL

-----------------------------------------------------------------------------
(* How the children end.                                                   *)

\* The exit status 0 of a receiver, and with get also the one of a sender,
\* says that MSG_ACK was sent; a receiver that has sent it receives no more.
EndsWell(s) ==
  /\ rcv[s] \in {"close", "ok"} => ack[s]
  /\ ack[s] => rcv[s] \notin {"start", "recv"}
  /\ kind = "retr" /\ snd[s] = "ok" => ack[s]

\* The name of the target is removed only by a receiver that fails.
NameKept == exists \/ \E s \in Streams : rcv[s] = "bad"

\* As long as nothing has gone wrong the file is there, the source has
\* its length, and no child has failed.
Unharmed ==
  ~fault => /\ srclen = size /\ exists
            /\ \A s \in Streams : /\ snd[s] # "bad" /\ rcv[s] # "bad"
                                  /\ snd[s] = "ok" => ack[s]

EndInv == (\A s \in Streams : EndsWell(s)) /\ NameKept /\ Unharmed

LEMMA InitEnd == Init => EndInv
BY DEF Init, EndInv, EndsWell, NameKept, Unharmed

\* A sender moves to the state to: it may say that all is well only when
\* MSG_ACK was sent, and may fail only when something has gone wrong. The exception
\* is the client's sender that finds a source that became shorter.
LEMMA SenderEnds ==
  ASSUME TypeOK, EndInv, NEW s \in Streams, NEW to, snd' = [snd EXCEPT ![s] = to],
         UNCHANGED <<transfer, srclen, receiver, ack>>,
         to = "ok" => ack[s] \/ (kind = "store" /\ fault'), to = "bad" => fault',
         fault => fault', fault' \in BOOLEAN
  PROVE  EndInv'
<1>1. UNCHANGED <<kind, size, srclen, rcv, exists, ack>>
  BY DEF transfer, receiver
<1>2. \A t \in Streams : snd'[t] = IF t = s THEN to ELSE snd[t]
  BY DEF TypeOK
<1>3. ASSUME NEW t \in Streams
      PROVE  EndsWell(t)'
  <2>1. EndsWell(t) /\ kind \in Kinds
    BY DEF EndInv, TypeOK
  <2> QED BY <1>1, <1>2, <2>1 DEF EndsWell, Kinds
<1>4. NameKept'
  BY <1>1 DEF EndInv, NameKept
<1>5. Unharmed'
  BY <1>1, <1>2 DEF EndInv, Unharmed
<1> QED BY <1>3, <1>4, <1>5 DEF EndInv

\* A receiver moves to the state to: it closes the file only after MSG_ACK,
\* removes its name only when it fails, and fails only when something
\* has gone wrong.
LEMMA ReceiverEnds ==
  ASSUME TypeOK, EndInv, NEW s \in Streams, NEW to, rcv' = [rcv EXCEPT ![s] = to],
         UNCHANGED <<transfer, srclen, sender>>,
         ack' = IF to = "close" THEN [ack EXCEPT ![s] = TRUE] ELSE ack,
         to \in {"start", "recv"} => ~ack[s], to = "ok" => ack[s],
         to = "bad" => fault', to # "bad" => exists' = exists /\ rcv[s] # "bad",
         fault => fault', fault' \in BOOLEAN
  PROVE  EndInv'
<1>1. UNCHANGED <<kind, size, srclen, snd>>
  BY DEF transfer, sender
<1>2. \A t \in Streams : rcv'[t] = IF t = s THEN to ELSE rcv[t]
  BY DEF TypeOK
<1>3. \A t \in Streams : ack'[t] = IF t = s /\ to = "close" THEN TRUE ELSE ack[t]
  BY DEF TypeOK
<1>4. ASSUME NEW t \in Streams
      PROVE  EndsWell(t)'
  <2>1. EndsWell(t)
    BY DEF EndInv
  <2> QED BY <1>1, <1>2, <1>3, <2>1 DEF EndsWell
<1>5. NameKept'
  <2>1. CASE to = "bad"
    BY <1>2, <2>1 DEF NameKept
  <2>2. CASE to # "bad"
    <3>1. CASE exists
      BY <2>2, <3>1 DEF NameKept
    <3>2. ASSUME NEW t \in Streams, rcv[t] = "bad"
          PROVE  NameKept'
      BY <1>2, <3>2 DEF NameKept
    <3> QED BY <3>1, <3>2 DEF EndInv, NameKept
  <2> QED BY <2>1, <2>2
<1>6. Unharmed'
  BY <1>1, <1>2, <1>3 DEF EndInv, Unharmed
<1> QED BY <1>4, <1>5, <1>6 DEF EndInv

\* The fragment of a sender that is still sending was not acknowledged.
LEMMA SendingNotAcked ==
  ASSUME IInv, NEW s \in Streams, Sending(s)
  PROVE  ~ack[s]
<1>1. Acked(s)
  BY DEF IInv, StreamInv
<1> QED BY <1>1, Numbers DEF Sending, Acked

\* A source that has its length does not end before the fragment does.
LEMMA SourceLongEnough ==
  ASSUME IInv, NEW s \in Streams, Sending(s), srclen = size
  PROVE  ~EndOfSource(s)
BY Numbers DEF Sending, EndOfSource, SourceAt

LEMMA SenderStepEnds ==
  ASSUME IInv, EndInv, NEW s \in Streams,
         SenderStep(s) \/ (SenderFails(s) /\ fault' = TRUE)
  PROVE  EndInv'
<1>1. TypeOK /\ fault \in BOOLEAN /\ EndsWell(s) /\ Unharmed
  BY DEF IInv, TypeOK, EndInv
<1>2. CASE OpenSource(s)
  BY <1>1, <1>2, SenderEnds DEF OpenSource
<1>3. CASE Send(s)
  <2>1. UNCHANGED <<kind, size, srclen, snd, rcv, exists, ack, fault>>
    BY <1>3 DEF Send, transfer, receiver
  <2> QED BY <2>1 DEF EndInv, EndsWell, NameKept, Unharmed
<1>4. CASE SendNothing(s)
  <2>1. /\ fault = TRUE /\ fault' = TRUE
        /\ UNCHANGED <<transfer, srclen, nbread, receiver, net, ack, fault>>
    BY <1>1, <1>4, SourceLongEnough DEF SendNothing, Unharmed
  <2>2. ASSUME NEW status \in Ended, kind = "store", snd' = [snd EXCEPT ![s] = status]
        PROVE  EndInv'
    BY <1>1, <2>1, <2>2, SenderEnds
  <2>3. CASE UNCHANGED snd
    <3>1. UNCHANGED <<kind, size, srclen, snd, rcv, exists, ack, fault>>
      BY <2>1, <2>3 DEF transfer, receiver
    <3> QED BY <3>1 DEF EndInv, EndsWell, NameKept, Unharmed
  <2> QED BY <1>4, <2>2, <2>3 DEF SendNothing
<1>5. CASE AllSent(s)
  BY <1>1, <1>5, SenderEnds DEF AllSent
<1>6. CASE Acknowledged(s)
  BY <1>1, <1>6, SenderEnds DEF Acknowledged
<1>7. CASE SenderBroken(s)
  \* A receiver that ended well had sent MSG_ACK, which the sender would find.
  <2>1. ~ack[s]
    BY <1>7, SendingNotAcked DEF SenderBroken
  <2>2. fault
    BY <1>1, <1>7, <2>1 DEF SenderBroken, EndsWell, Unharmed, Ended
  <2> QED BY <1>1, <1>7, <2>2, SenderEnds DEF SenderBroken, SndGivesUp
<1>8. CASE SenderFails(s) /\ fault' = TRUE
  <2>1. SndGivesUp(s)
    BY <1>8 DEF SenderFails, OpenSourceFails, ReadFails, SenderTimeout, SenderKilled
  <2> QED BY <1>1, <1>8, <2>1, SenderEnds DEF SndGivesUp
<1> QED BY <1>2, <1>3, <1>4, <1>5, <1>6, <1>7, <1>8 DEF SenderStep

LEMMA ReceiverStepEnds ==
  ASSUME IInv, EndInv, NEW s \in Streams,
         ReceiverStep(s) \/ (ReceiverFails(s) /\ fault' = TRUE)
  PROVE  EndInv'
<1>1. TypeOK /\ fault \in BOOLEAN /\ EndsWell(s) /\ Unharmed
  BY DEF IInv, TypeOK, EndInv
<1>2. ASSUME NEW remove \in BOOLEAN, RcvGivesUp(s, remove), fault' = TRUE
      PROVE  EndInv'
  BY <1>1, <1>2, ReceiverEnds DEF RcvGivesUp
<1>3. CASE OpenTarget(s)
  BY <1>1, <1>3, ReceiverEnds DEF OpenTarget, EndsWell
<1>4. CASE OpenTargetGone(s)
  BY <1>1, <1>2, <1>4 DEF OpenTargetGone, Unharmed
<1>5. CASE Receive(s)
  <2>1. UNCHANGED <<kind, size, srclen, snd, rcv, exists, ack, fault>>
    BY <1>5 DEF Receive, transfer, sender
  <2> QED BY <2>1 DEF EndInv, EndsWell, NameKept, Unharmed
<1>6. CASE ReceiverBroken(s)
  \* A sender that ended well had found MSG_ACK.
  <2>1. rcv[s] = "recv" /\ ~ack[s] /\ snd[s] \in {"ok", "bad"}
    BY <1>1, <1>6 DEF ReceiverBroken, Receiving, EndsWell, Ended
  <2>2. fault = TRUE
    BY <1>1, <2>1 DEF Unharmed
  <2> QED BY <1>2, <1>6, <2>2 DEF ReceiverBroken
<1>7. CASE Acknowledge(s)
  BY <1>1, <1>7, ReceiverEnds DEF Acknowledge
<1>8. CASE CloseTarget(s)
  <2>1. ack[s] /\ rcv[s] # "bad"
    BY <1>1, <1>8 DEF CloseTarget, EndsWell
  <2>2. /\ rcv' = [rcv EXCEPT ![s] = "ok"] /\ exists' = exists /\ fault' = fault
        /\ ack' = ack /\ UNCHANGED <<transfer, srclen, sender>>
    BY <1>8 DEF CloseTarget
  <2> QED BY <1>1, <2>1, <2>2, ReceiverEnds
<1>9. CASE ReceiverFails(s) /\ fault' = TRUE
  <2>1. TRUE \in BOOLEAN /\ FALSE \in BOOLEAN /\ (kind = "store") \in BOOLEAN
    OBVIOUS
  <2>2. OpenTargetFails(s) => \E remove \in BOOLEAN : RcvGivesUp(s, remove)
    BY <2>1 DEF OpenTargetFails
  <2>3. \E remove \in BOOLEAN : RcvGivesUp(s, remove)
    BY <1>9, <2>1, <2>2 DEF ReceiverFails, WriteFails, ReceiverTimeout,
       AcknowledgeFails, CloseFails, ReceiverKilled
  <2> QED BY <1>2, <1>9, <2>3
<1> QED BY <1>3, <1>4, <1>5, <1>6, <1>7, <1>8, <1>9 DEF ReceiverStep

LEMMA NextEnd == IInv /\ EndInv /\ [Next]_vars => EndInv'
<1> SUFFICES ASSUME IInv, EndInv, [Next]_vars PROVE EndInv'
  OBVIOUS
<1>1. CASE Truncate
  <2>1. UNCHANGED <<kind, snd, rcv, exists, ack>> /\ fault' = TRUE
    BY <1>1 DEF Truncate, transfer, sender, receiver
  <2> QED BY <2>1 DEF EndInv, EndsWell, NameKept, Unharmed
<1>2. CASE Over \/ UNCHANGED vars
  BY <1>2 DEF Over, vars, EndInv, EndsWell, NameKept, Unharmed
<1> QED BY <1>1, <1>2, SenderStepEnds, ReceiverStepEnds DEF Next, Failure

LEMMA EndInvariance == Spec => [](IInv /\ EndInv)
BY InitInv, NextInv, InitEnd, NextEnd, PTL DEF Spec

\* When all fragments were acknowledged every byte of the file is at its place.
LEMMA AllAcked ==
  ASSUME IInv, \A s \in Streams : ack[s]
  PROVE  \A p \in 0 .. size - 1 : file[p] = p
<1> TAKE p \in 0 .. size - 1
<1>1. size \in Nat
  BY StreamsAssumption DEF IInv, TypeOK
<1>2. PICK s \in Streams : p \in FragStart(size, s) .. FragStart(size, s) + FragLen(size, s) - 1
  BY <1>1, FragmentsCover
<1>3. Written(s) /\ wrote[s] >= FragLen(size, s)
  BY DEF IInv, StreamInv, Acked
<1>4. p \in FragStart(size, s) .. FragStart(size, s) + wrote[s] - 1
  BY <1>2, <1>3, Numbers
<1> QED BY <1>3, <1>4 DEF Written

\* The father of the server's children (bbftpd_signals.c:120-164) sees
\* only exit statuses: if all are 0 then, for any number of streams, the whole
\* file was written, and a name that is gone was removed by a failing receiver.
THEOREM SuccessIsCompleteHolds == Spec => []SuccessIsComplete
<1>1. IInv /\ EndInv => SuccessIsComplete
  <2> SUFFICES ASSUME IInv, EndInv, Success
               PROVE  /\ \A p \in 0 .. size - 1 : file[p] = p
                      /\ exists \/ \E s \in Streams : rcv[s] = "bad"
    BY DEF SuccessIsComplete
  <2>1. \A s \in Streams : ack[s]
    BY DEF Success, EndInv, EndsWell, IInv, TypeOK, Kinds
  <2> QED BY <2>1, AllAcked DEF EndInv, NameKept
<1> QED BY EndInvariance, <1>1, PTL

\* A transfer in which no call fails, nothing stalls and nobody is killed does
\* not fail: in whatever order the 2N children end, none of them
\* takes the end of its peer, or of another stream, for a failure.
THEOREM NoFaultNoFailureHolds == Spec => []NoFaultNoFailure
<1>1. IInv /\ EndInv => NoFaultNoFailure
  BY DEF EndInv, Unharmed, NoFaultNoFailure, AllEnded, Ended, Success
<1> QED BY EndInvariance, <1>1, PTL
=============================================================================
