---------------------------- MODULE LiteProofs ----------------------------
(***************************************************************************)
(* Three channels of the lite stack: that of the keymaster                 *)
(* (TipcKeymaster), for requests, answers, messages and buffers of every   *)
(* size, that of the gatekeeper (LiteGatekeeper), and that of the tool     *)
(* that gives the TA its attestation keybox (LiteKmSetKey), for keyboxes   *)
(* and messages of every length; all for any number of faults.             *)
(***************************************************************************)
EXTENDS TipcKeymaster, LiteGatekeeper, LiteKmSetKey, SequenceTheorems, TLAPS

-----------------------------------------------------------------------------
(***************************************************************************)
(* TipcKeymaster.                                                          *)
(***************************************************************************)
ReqByte    == {0, 1} \X Nat
AnsByte    == Seq(ReqByte) \X Nat
ReqMessage == [cmd : Cmd, stop : BOOLEAN, payload : Seq(ReqByte)]
AnsMessage == [cmd : Cmd, resp : {TRUE}, stop : BOOLEAN, payload : Seq(AnsByte)]

\* The messages ms carry the bytes of s behind the n-th one, m bytes each; a
\* closed sequence of messages carries all of them.
Piece(s, n, m, k) == SubSeq(s, n + (k - 1) * m + 1, n + k * m)
LastPiece(s, n, m, k)  == SubSeq(s, n + (k - 1) * m + 1, Len(s))
OpenPieces(ms, s, n, m) == \A k \in 1 .. Len(ms) : ms[k].payload = Piece(s, n, m, k)
ClosedPieces(ms, s, n, m) ==
  /\ ms # <<>> /\ n + (Len(ms) - 1) * m <= Len(s)
  /\ \A k \in 1 .. Len(ms) :
       ms[k].payload = IF k < Len(ms) THEN Piece(s, n, m, k) ELSE LastPiece(s, n, m, k)

CallType ==
  /\ callPc \in {"start", "idle", "write", "read", "reset", "connect", "reply"}
  /\ cmd \in Cmd /\ in \in Seq(ReqByte) /\ sent \in Nat /\ sent <= Len(in)
  /\ joined \in Seq(ReqByte) /\ toKm \in Seq(ReqMessage)
  /\ out \in Seq(AnsByte) /\ fromKm \in Seq(AnsMessage)

\* Where the bytes of the call are: some of the request sent, all of it sent,
\* or the TA has run it and its answer is partly read.
NotRun == ran = NoRun /\ fromKm = <<>> /\ out = <<>>
Joining == Len(joined) <= Len(in) /\ joined = SubSeq(in, 1, Len(joined))
PartSent ==
  /\ NotRun /\ Joining
  /\ Len(joined) + Len(toKm) * MaxSend = sent
  /\ OpenPieces(toKm, in, Len(joined), MaxSend)
  /\ \A k \in 1 .. Len(toKm) : toKm[k].cmd = cmd /\ toKm[k].stop
AllSent ==
  /\ NotRun /\ Joining
  /\ ClosedPieces(toKm, in, Len(joined), MaxSend)
  /\ \A k \in 1 .. Len(toKm) : toKm[k].cmd = cmd /\ (toKm[k].stop <=> k < Len(toKm))
HasRun ==
  /\ toKm = <<>> /\ joined = <<>>
  /\ ran.cmd = cmd /\ ran.req = in /\ ran.ans \in Seq(AnsByte)
  /\ Len(out) <= Len(ran.ans) /\ out = SubSeq(ran.ans, 1, Len(out))
  /\ ClosedPieces(fromKm, ran.ans, Len(out), MaxBuffer)
  /\ \A k \in 1 .. Len(fromKm) : fromKm[k].stop <=> k = Len(fromKm)
Quiet == toKm = <<>> /\ fromKm = <<>> /\ joined = <<>>

CallInv ==
  /\ CallType
  /\ callPc = "write" => err = "OK" /\ PartSent
  /\ callPc = "read" => err = "OK" /\ (AllSent \/ HasRun)
  /\ callPc = "reset" => PartSent \/ AllSent \/ HasRun
  /\ callPc \in {"start", "idle", "connect", "reply"} => Quiet
  /\ callPc = "connect" => err = "ERROR"
  /\ AnswerIsOwn /\ RequestIsWhole

\* One more piece.
LEMMA OneMore ==
  ASSUME NEW k \in Nat, NEW m \in Nat
  PROVE  k * m \in Nat /\ (k + 1) * m = k * m + m
  OBVIOUS

\* The piece after the first is the first after the piece.
LEMMA NextPiece ==
  ASSUME NEW s, NEW n \in Nat, NEW m \in Nat, NEW k \in Nat \ {0}
  PROVE  /\ Piece(s, n + m, m, k) = Piece(s, n, m, k + 1)
         /\ LastPiece(s, n + m, m, k) = LastPiece(s, n, m, k + 1)
  <1>1. k \in Nat /\ k - 1 \in Nat /\ (k - 1) + 1 = k /\ (k + 1) - 1 = k OBVIOUS
  <1>2. k * m = (k - 1) * m + m /\ (k - 1) * m \in Nat /\ k * m \in Nat BY <1>1, OneMore
  <1>3. (k + 1) * m = k * m + m BY OneMore
  <1>4. n + m + (k - 1) * m + 1 = n + ((k + 1) - 1) * m + 1
    BY <1>1, <1>2
  <1>5. n + m + k * m = n + (k + 1) * m
    BY <1>2, <1>3
  <1> QED BY <1>4, <1>5 DEF Piece, LastPiece

\* The first message, and the messages behind it.
LEMMA OpenTail ==
  ASSUME NEW S, NEW ms \in Seq(S), ms # <<>>, NEW s, NEW n \in Nat, NEW m \in Nat,
         OpenPieces(ms, s, n, m)
  PROVE  /\ Head(ms).payload = SubSeq(s, n + 1, n + m)
         /\ OpenPieces(Tail(ms), s, n + m, m)
  <1>1. Len(ms) \in Nat \ {0} /\ Head(ms) = ms[1] OBVIOUS
  <1>2. ms[1].payload = Piece(s, n, m, 1) BY <1>1 DEF OpenPieces
  <1>3. n + (1 - 1) * m + 1 = n + 1 /\ n + 1 * m = n + m OBVIOUS
  <1>4. Head(ms).payload = SubSeq(s, n + 1, n + m)
    BY <1>1, <1>2, <1>3 DEF Piece
  <1>5. ASSUME NEW k \in 1 .. Len(Tail(ms))
        PROVE  Tail(ms)[k].payload = Piece(s, n + m, m, k)
    <2>1. k \in Nat \ {0} /\ k + 1 \in 1 .. Len(ms) /\ Tail(ms)[k] = ms[k + 1]
      BY <1>1, HeadTailProperties
    <2>2. ms[k + 1].payload = Piece(s, n, m, k + 1) BY <2>1 DEF OpenPieces
    <2> QED BY <2>1, <2>2, NextPiece
  <1> QED BY <1>4, <1>5 DEF OpenPieces

\* The same for the messages that carry all of the bytes.
LEMMA ClosedTail ==
  ASSUME NEW S, NEW ms \in Seq(S), NEW s, Len(s) \in Nat, NEW n \in Nat, NEW m \in Nat,
         ClosedPieces(ms, s, n, m)
  PROVE  /\ Len(ms) = 1 => Head(ms).payload = SubSeq(s, n + 1, Len(s)) /\ n <= Len(s)
         /\ Len(ms) # 1 => /\ Head(ms).payload = SubSeq(s, n + 1, n + m)
                           /\ n + m <= Len(s)
                           /\ ClosedPieces(Tail(ms), s, n + m, m)
  <1>1. Len(ms) \in Nat \ {0} /\ Head(ms) = ms[1] /\ ms # <<>> BY DEF ClosedPieces
  <1>2. n + (1 - 1) * m + 1 = n + 1 /\ n + 1 * m = n + m /\ n + (1 - 1) * m = n OBVIOUS
  <1>3. CASE Len(ms) = 1
    <2>1. 1 \in 1 .. Len(ms) /\ ~(1 < Len(ms)) BY <1>3
    <2>2. ms[1].payload = LastPiece(s, n, m, 1) BY <2>1 DEF ClosedPieces
    <2>3. n + (1 - 1) * m <= Len(s) BY <1>3 DEF ClosedPieces
    <2> QED BY <1>1, <1>2, <1>3, <2>2, <2>3 DEF LastPiece
  <1>4. CASE Len(ms) # 1
    <2>1. 1 \in 1 .. Len(ms) /\ 1 < Len(ms)
      <3>1. \A l \in Nat \ {0} : l # 1 => 1 \in 1 .. l /\ 1 < l OBVIOUS
      <3> QED BY <1>4, <1>1, <3>1, Zenon
    <2>2. ms[1].payload = Piece(s, n, m, 1) BY <2>1 DEF ClosedPieces
    <2>3. Head(ms).payload = SubSeq(s, n + 1, n + m) BY <1>1, <1>2, <2>2 DEF Piece
    <2>4. Tail(ms) # <<>> /\ Tail(ms) \in Seq(S) /\ Len(Tail(ms)) = Len(ms) - 1
      <3>1. Tail(ms) \in Seq(S) /\ Len(Tail(ms)) = Len(ms) - 1 BY <1>1, HeadTailProperties
      <3>2. \A l \in Nat \ {0} : 1 < l => l - 1 # 0 OBVIOUS
      <3>3. Len(Tail(ms)) # 0 BY <1>1, <2>1, <3>1, <3>2, Zenon
      <3>4. Len(<<>>) = 0 OBVIOUS
      <3> QED BY <3>1, <3>3, <3>4, Zenon
    <2> DEFINE j == Len(ms) - 2
    <2>5. j \in Nat /\ Len(ms) - 1 = j + 1 /\ Len(Tail(ms)) - 1 = j BY <2>1, <2>4
    <2>6. (j + 1) * m = j * m + m /\ j * m \in Nat BY <2>5, OneMore
    <2>7. n + (j + 1) * m <= Len(s) BY <2>5 DEF ClosedPieces
    <2> HIDE DEF j
    <2>8. n + m <= Len(s) /\ n + m + j * m <= Len(s)
      BY <2>6, <2>7
    <2>9. n + m + (Len(Tail(ms)) - 1) * m <= Len(s) BY <2>5, <2>8
    <2>10. ASSUME NEW k \in 1 .. Len(Tail(ms))
           PROVE  Tail(ms)[k].payload =
                    IF k < Len(Tail(ms)) THEN Piece(s, n + m, m, k) ELSE LastPiece(s, n + m, m, k)
      <3>1. /\ k \in Nat \ {0} /\ k + 1 \in 1 .. Len(ms) /\ Tail(ms)[k] = ms[k + 1]
            /\ k < Len(Tail(ms)) <=> k + 1 < Len(ms)
        BY <1>1, <2>4, HeadTailProperties
      <3>2. ms[k + 1].payload =
              IF k + 1 < Len(ms) THEN Piece(s, n, m, k + 1) ELSE LastPiece(s, n, m, k + 1)
        BY <3>1 DEF ClosedPieces
      <3> QED BY <3>1, <3>2, NextPiece
    <2> QED BY <1>4, <2>3, <2>4, <2>8, <2>9, <2>10 DEF ClosedPieces
  <1> QED BY <1>3, <1>4

\* A piece joined to the bytes before it.
LEMMA JoinPiece ==
  ASSUME NEW S, NEW s \in Seq(S), NEW n \in 0 .. Len(s), NEW e \in n .. Len(s),
         NEW j \in Seq(S), j = SubSeq(s, 1, n)
  PROVE  /\ j \o SubSeq(s, n + 1, e) = SubSeq(s, 1, e)
         /\ SubSeq(s, 1, e) \in Seq(S) /\ Len(SubSeq(s, 1, e)) = e
  <1>1. SubSeq(s, 1, n) \o SubSeq(s, n + 1, e) = SubSeq(s, 1, e)
    BY ConcatAdjacentSubSeq
  <1>2. \A i \in 1 .. e : s[i] \in S OBVIOUS
  <1>3. SubSeq(s, 1, e) \in Seq(S) /\ Len(SubSeq(s, 1, e)) = e
    BY <1>2, SubSeqProperties
  <1> QED BY <1>1, <1>3

\* One message more.
LEMMA OpenAppend ==
  ASSUME NEW S, NEW ms \in Seq(S), NEW s, NEW n \in Nat, NEW m \in Nat,
         OpenPieces(ms, s, n, m), NEW x \in S,
         x.payload = SubSeq(s, n + Len(ms) * m + 1, n + Len(ms) * m + m)
  PROVE  OpenPieces(Append(ms, x), s, n, m)
  <1> DEFINE l == Len(ms)
             t == Append(ms, x)
  <1>1. l \in Nat OBVIOUS
  <1>2. Len(t) = l + 1 /\ t[l + 1] = x /\ \A k \in 1 .. l : t[k] = ms[k]
    BY AppendProperties
  <1>3. \A k \in 1 .. l : ms[k].payload = Piece(s, n, m, k) BY DEF OpenPieces
  <1>4. x.payload = Piece(s, n, m, l + 1)
    <2>1. (l + 1) * m = l * m + m /\ l * m \in Nat /\ (l + 1) - 1 = l BY <1>1, OneMore
    <2>2. n + ((l + 1) - 1) * m + 1 = n + l * m + 1 BY <2>1
    <2>3. n + (l + 1) * m = n + l * m + m BY <2>1
    <2> QED BY <2>2, <2>3 DEF Piece
  <1> HIDE DEF l, t
  <1>5. \A k \in 1 .. Len(t) : k \in 1 .. l \/ k = l + 1 BY <1>1, <1>2
  <1>6. OpenPieces(t, s, n, m) BY <1>2, <1>3, <1>4, <1>5, Zenon DEF OpenPieces
  <1> QED BY <1>6 DEF t

\* The last message.
LEMMA CloseAppend ==
  ASSUME NEW S, NEW ms \in Seq(S), NEW s, NEW n \in Nat, NEW m \in Nat,
         OpenPieces(ms, s, n, m), NEW x \in S, n + Len(ms) * m <= Len(s),
         x.payload = SubSeq(s, n + Len(ms) * m + 1, Len(s))
  PROVE  ClosedPieces(Append(ms, x), s, n, m)
  <1> DEFINE l == Len(ms)
             t == Append(ms, x)
  <1>1. l \in Nat OBVIOUS
  <1>2. Len(t) = l + 1 /\ t[l + 1] = x /\ \A k \in 1 .. l : t[k] = ms[k]
    BY AppendProperties
  <1>3. \A k \in 1 .. l : ms[k].payload = Piece(s, n, m, k) BY DEF OpenPieces
  <1>4. x.payload = LastPiece(s, n, m, l + 1)
    <2>1. (l + 1) - 1 = l BY <1>1
    <2> QED BY <2>1 DEF LastPiece
  <1>5. n + (Len(t) - 1) * m <= Len(s) BY <1>1, <1>2
  <1> HIDE DEF l, t
  <1>6. \A k \in 1 .. Len(t) : (k < Len(t) /\ k \in 1 .. l) \/ (~(k < Len(t)) /\ k = l + 1)
    BY <1>1, <1>2
  <1>7. t # <<>>
    <2>1. Len(t) # 0 /\ Len(<<>>) = 0 BY <1>1, <1>2
    <2> QED BY <2>1, Zenon
  <1>8. ASSUME NEW k \in 1 .. Len(t)
        PROVE  t[k].payload = IF k < Len(t) THEN Piece(s, n, m, k) ELSE LastPiece(s, n, m, k)
    BY <1>2, <1>3, <1>4, <1>6, Zenon
  <1>9. ClosedPieces(t, s, n, m) BY <1>5, <1>7, <1>8, Zenon DEF ClosedPieces
  <1> QED BY <1>9 DEF t

\* The messages the TA cuts an answer into carry all of it.
LEMMA FragmentsCarry ==
  ASSUME TipcKeymasterAssumption, NEW c \in Cmd, NEW a \in Seq(AnsByte)
  PROVE  /\ Fragments(c, a) \in Seq(AnsMessage)
         /\ ClosedPieces(Fragments(c, a), a, 0, MaxBuffer)
         /\ \A k \in 1 .. Len(Fragments(c, a)) :
              /\ Fragments(c, a)[k].cmd = c
              /\ Fragments(c, a)[k].stop <=> k = Len(Fragments(c, a))
  <1> DEFINE l == Len(a)
             last == IF l = 0 THEN 1 ELSE (l + MaxBuffer - 1) \div MaxBuffer
             end(k) == IF k = last THEN l ELSE k * MaxBuffer
             pay(k) == SubSeq(a, (k - 1) * MaxBuffer + 1, end(k))
             f == [k \in 1 .. last |-> [cmd |-> c, resp |-> TRUE, stop |-> k = last,
                                        payload |-> pay(k)]]
  <1>1. MaxBuffer \in Nat \ {0} /\ l \in Nat BY DEF TipcKeymasterAssumption
  <1>2. last \in Nat \ {0} /\ (last - 1) * MaxBuffer <= l
    <2>1. \A n, b \in Nat \ {0} :
            /\ (n + b - 1) \div b \in Nat \ {0}
            /\ ((n + b - 1) \div b - 1) * b <= n
      <3> TAKE n, b \in Nat \ {0}
      <3> DEFINE q == (n + b - 1) \div b
      <3>1. q \in Nat /\ q * b <= n + b - 1 /\ n + b - 1 < (q + 1) * b OBVIOUS
      <3> HIDE DEF q
      <3>2. q # 0
        <4>1. (0 + 1) * b = b OBVIOUS
        <4> QED BY <3>1, <4>1
      <3>3. PICK p \in Nat : q = p + 1 BY <3>1, <3>2
      <3>4. q * b = p * b + b /\ p * b \in Nat /\ q - 1 = p BY <3>3, OneMore
      <3>5. (q - 1) * b <= n BY <3>1, <3>4
      <3> QED BY <3>1, <3>2, <3>5 DEF q
    <2>2. CASE l = 0
      <3>1. (1 - 1) * MaxBuffer = 0 BY <1>1
      <3> QED BY <2>2, <3>1
    <2>3. CASE l # 0
      <3>1. l \in Nat \ {0} BY <1>1, <2>3
      <3> QED BY <1>1, <2>1, <2>3, <3>1
    <2> QED BY <2>2, <2>3
  <1>3. Fragments(c, a) = f BY DEF Fragments
  <1> HIDE DEF last
  <1>4. ASSUME NEW k \in 1 .. last
        PROVE  /\ pay(k) = IF k < last THEN Piece(a, 0, MaxBuffer, k) ELSE LastPiece(a, 0, MaxBuffer, k)
               /\ pay(k) \in Seq(AnsByte)
    <2>1. k \in Nat \ {0} /\ k - 1 \in Nat BY <1>2
    <2>2. (k - 1) * MaxBuffer \in Nat /\ k * MaxBuffer \in Nat
          /\ k * MaxBuffer = (k - 1) * MaxBuffer + MaxBuffer
      <3>1. (k - 1) + 1 = k BY <2>1
      <3> QED BY <1>1, <2>1, <3>1, OneMore
    <2>3. /\ 0 + (k - 1) * MaxBuffer + 1 = (k - 1) * MaxBuffer + 1
          /\ 0 + k * MaxBuffer = k * MaxBuffer
          /\ k < last <=> k # last
      BY <1>2, <2>2
    <2>4. pay(k) = IF k < last THEN Piece(a, 0, MaxBuffer, k) ELSE LastPiece(a, 0, MaxBuffer, k)
      BY <2>3 DEF Piece, LastPiece
    <2>5. end(k) <= l /\ end(k) \in Nat
      <3>1. CASE k = last BY <3>1, <1>1
      <3>2. CASE k # last
        <4>1. PICK d \in Nat : last - 1 = k + d BY <1>2, <3>2
        <4>2. (k + d) * MaxBuffer = k * MaxBuffer + d * MaxBuffer /\ d * MaxBuffer \in Nat
          BY <1>1, <2>1
        <4> QED BY <1>1, <1>2, <2>2, <3>2, <4>1, <4>2
      <3> QED BY <3>1, <3>2
    <2>6. \A i \in (k - 1) * MaxBuffer + 1 .. end(k) : a[i] \in AnsByte
      <3> HIDE DEF end
      <3>1. \A i \in (k - 1) * MaxBuffer + 1 .. end(k) : i \in 1 .. l BY <2>2, <2>5, <1>1
      <3>2. \A i \in 1 .. l : a[i] \in AnsByte BY ElementOfSeq
      <3> QED BY <3>1, <3>2
    <2>7. pay(k) \in Seq(AnsByte)
      <3> HIDE DEF end
      <3> QED BY <2>2, <2>5, <2>6, SubSeqProperties
    <2> QED BY <2>4, <2>7
  <1> HIDE DEF pay
  <1>5. \A k \in 1 .. last : f[k] \in AnsMessage BY <1>4 DEF AnsMessage
  <1>6. f \in Seq(AnsMessage) /\ Len(f) = last BY <1>2, <1>5
  <1>7. ASSUME NEW k \in 1 .. last
        PROVE  f[k].cmd = c /\ f[k].stop = (k = last) /\ f[k].payload = pay(k)
    OBVIOUS
  <1> HIDE DEF f, l
  <1>8. ClosedPieces(f, a, 0, MaxBuffer)
    <2>1. f # <<>>
      <3>1. last # 0 /\ Len(<<>>) = 0 BY <1>2
      <3> QED BY <1>6, <3>1, Zenon
    <2>2. 0 + (Len(f) - 1) * MaxBuffer <= Len(a) BY <1>1, <1>2, <1>6 DEF l
    <2>3. \A k \in 1 .. Len(f) :
            f[k].payload = IF k < Len(f) THEN Piece(a, 0, MaxBuffer, k) ELSE LastPiece(a, 0, MaxBuffer, k)
      BY <1>4, <1>6, <1>7, Zenon
    <2> QED BY <2>1, <2>2, <2>3, Zenon DEF ClosedPieces
  <1>9. \A k \in 1 .. Len(f) : f[k].cmd = c /\ (f[k].stop <=> k = Len(f))
    BY <1>6, <1>7, Zenon
  <1> QED BY <1>3, <1>6, <1>8, <1>9, Zenon

\* The service starts in the invariant.
LEMMA CallStarts == CallInit => CallInv
  <1> SUFFICES ASSUME CallInit PROVE CallInv OBVIOUS
  <1> USE DEF CallInit, Nothing
  <1>1. CallType BY DEF CallType
  <1>2. Quiet BY DEF Quiet
  <1>3. AnswerIsOwn /\ RequestIsWhole BY DEF AnswerIsOwn, RequestIsWhole
  <1> QED BY <1>1, <1>2, <1>3 DEF CallInv

\* The bytes of a request.
LEMMA RequestBytes ==
  ASSUME CallType, NEW n \in Nat
  PROVE  Bytes(Other(LastTag), n) \in Seq(ReqByte) /\ Len(Bytes(Other(LastTag), n)) = n
  <1>1. LastTag \in {0, 1}
    <2>1. CASE in = Nothing BY <2>1 DEF LastTag
    <2>2. CASE in # Nothing
      <3>1. in \in Seq(ReqByte) /\ in # <<>> BY <2>2 DEF CallType, Nothing
      <3>2. 1 \in 1 .. Len(in) BY <3>1
      <3>3. in[1] \in ReqByte BY <3>1, <3>2, ElementOfSeq
      <3>4. in[1][1] \in {0, 1} BY <3>3 DEF ReqByte
      <3> QED BY <3>4, <2>2 DEF LastTag
    <2> QED BY <2>1, <2>2
  <1>2. Other(LastTag) \in {0, 1} BY <1>1 DEF Other
  <1> DEFINE t == Other(LastTag)
  <1> HIDE DEF t
  <1>3. \A i \in 1 .. n : <<t, i>> \in ReqByte BY <1>2 DEF ReqByte, t
  <1>4. Bytes(t, n) \in Seq(ReqByte) /\ Len(Bytes(t, n)) = n BY <1>3 DEF Bytes
  <1> QED BY <1>4 DEF t

\* main connects: nothing is on the channel yet.
LEMMA InitializeKeeps == CallInv /\ Initialize => CallInv'
  <1> SUFFICES ASSUME CallInv, Initialize PROVE CallInv' OBVIOUS
  <1>1. /\ callPc = "start" /\ callPc' \in {"idle", "start"}
        /\ UNCHANGED <<cmd, in, sent, out, err, toKm, fromKm, joined, ran>>
    BY DEF Initialize, channel
  <1>2. CallType' BY <1>1 DEF CallInv, CallType
  <1>3. Quiet' BY <1>1 DEF CallInv, Quiet
  <1>4. AnswerIsOwn' /\ RequestIsWhole' BY <1>1 DEF CallInv, AnswerIsOwn, RequestIsWhole
  <1> QED BY <1>1, <1>2, <1>3, <1>4 DEF CallInv

\* bp_keymaster_send: a call starts on an empty channel.
LEMMA SendKeeps == TipcKeymasterAssumption /\ CallInv /\ Send => CallInv'
  <1> SUFFICES ASSUME TipcKeymasterAssumption, CallInv, Send PROVE CallInv' OBVIOUS
  <1>1. PICK c \in Cmd, n \in 0 .. MaxSize :
          /\ cmd' = c /\ in' = Bytes(Other(LastTag), n)
          /\ IF n > BpSendBuf THEN err' = "INVALID_INPUT_LENGTH" /\ callPc' = "reply"
                              ELSE err' = "OK" /\ callPc' = "write"
    BY DEF Send
  <1>2. /\ callPc = "idle" /\ sent' = 0 /\ out' = <<>> /\ ran' = NoRun
        /\ UNCHANGED <<toKm, fromKm, joined>>
    BY DEF Send, channel, Nothing
  <1>3. n \in Nat BY DEF TipcKeymasterAssumption
  <1>4. in' \in Seq(ReqByte) /\ Len(in') = n BY <1>1, <1>3, RequestBytes DEF CallInv
  <1>5. CallType' BY <1>1, <1>2, <1>3, <1>4 DEF CallInv, CallType
  <1>6. Quiet' BY <1>2 DEF CallInv, Quiet
  <1>7. callPc' = "write" => err' = "OK" /\ PartSent'
    <2>1. NotRun' BY <1>2, <1>6 DEF NotRun, Quiet
    <2>2. joined' = <<>> /\ toKm' = <<>> /\ Len(joined') = 0 /\ Len(toKm') = 0
      BY <1>6 DEF Quiet
    <2>3. Joining' BY <1>3, <1>4, <2>2 DEF Joining
    <2>4. 0 + 0 * MaxSend = 0 BY DEF TipcKeymasterAssumption
    <2>5. PartSent' BY <1>2, <2>1, <2>2, <2>3, <2>4 DEF PartSent, OpenPieces
    <2> QED BY <1>1, <2>5
  <1>8. AnswerIsOwn' /\ RequestIsWhole' BY <1>1, <1>2 DEF AnswerIsOwn, RequestIsWhole
  <1> QED BY <1>1, <1>5, <1>6, <1>7, <1>8 DEF CallInv

\* What the TA holds and what is on its way do not change.
LEMMA BrokenKeeps == CallInv /\ (NotConnected \/ WriteCallFails \/ ReadCallFails) => CallInv'
  <1> SUFFICES ASSUME CallInv, NotConnected \/ WriteCallFails \/ ReadCallFails PROVE CallInv'
    OBVIOUS
  <1>1. /\ callPc \in {"write", "read"} /\ callPc' = "reset"
        /\ UNCHANGED <<cmd, in, sent, out, err, toKm, fromKm, joined, ran>>
    BY DEF NotConnected, WriteCallFails, ReadCallFails, channel
  <1>2. CallType' BY <1>1 DEF CallInv, CallType
  <1>3. PartSent \/ AllSent \/ HasRun BY <1>1 DEF CallInv
  <1>4. (PartSent \/ AllSent \/ HasRun)'
    BY <1>1, <1>3 DEF PartSent, AllSent, HasRun, NotRun, Joining
  <1>5. AnswerIsOwn' /\ RequestIsWhole' BY <1>1 DEF CallInv, AnswerIsOwn, RequestIsWhole
  <1> QED BY <1>1, <1>2, <1>4, <1>5 DEF CallInv

\* A message with the stop bit carries the next piece of the request.
LEMMA WriteFragmentKeeps == TipcKeymasterAssumption /\ CallInv /\ WriteFragment => CallInv'
  <1> SUFFICES ASSUME TipcKeymasterAssumption, CallInv, WriteFragment PROVE CallInv' OBVIOUS
  <1> DEFINE x == [cmd |-> cmd, stop |-> TRUE, payload |-> SubSeq(in, sent + 1, sent + MaxSend)]
  <1>1. /\ callPc = "write" /\ toKm' = Append(toKm, x) /\ sent' = sent + MaxSend
        /\ Len(in) - sent > MaxSend
        /\ UNCHANGED <<callPc, cmd, in, out, err, fromKm, joined, ran>>
    BY DEF WriteFragment, Remaining
  <1>2. CallType /\ PartSent /\ err = "OK" BY <1>1 DEF CallInv
  <1>3. /\ MaxSend \in Nat /\ sent \in Nat /\ in \in Seq(ReqByte) /\ Len(in) \in Nat
        /\ toKm \in Seq(ReqMessage) /\ Len(toKm) \in Nat /\ Len(joined) \in Nat
        /\ Len(toKm) * MaxSend \in Nat
    BY <1>2, OneMore DEF CallType, TipcKeymasterAssumption
  <1>4. x \in ReqMessage
    <2>1. \A i \in sent + 1 .. sent + MaxSend : i \in 1 .. Len(in) BY <1>1, <1>3
    <2>2. \A i \in sent + 1 .. sent + MaxSend : in[i] \in ReqByte BY <2>1, <1>3, ElementOfSeq
    <2>3. SubSeq(in, sent + 1, sent + MaxSend) \in Seq(ReqByte)
      BY <1>3, <2>2, SubSeqProperties
    <2> QED BY <1>2, <2>3 DEF CallType, ReqMessage
  <1>5. x.cmd = cmd /\ x.stop /\ x.payload = SubSeq(in, sent + 1, sent + MaxSend) OBVIOUS
  <1> HIDE DEF x
  <1>6. /\ toKm' \in Seq(ReqMessage) /\ Len(toKm') = Len(toKm) + 1
        /\ toKm'[Len(toKm) + 1] = x /\ \A k \in 1 .. Len(toKm) : toKm'[k] = toKm[k]
    BY <1>1, <1>3, <1>4, AppendProperties
  <1>7. CallType' BY <1>1, <1>2, <1>3, <1>6 DEF CallType
  <1>8. OpenPieces(toKm', in, Len(joined), MaxSend)
    <2>1. Len(joined) + Len(toKm) * MaxSend = sent BY <1>2 DEF PartSent
    <2>2. OpenPieces(toKm, in, Len(joined), MaxSend) BY <1>2 DEF PartSent
    <2>3. x.payload = SubSeq(in, Len(joined) + Len(toKm) * MaxSend + 1,
                             Len(joined) + Len(toKm) * MaxSend + MaxSend)
      BY <1>5, <2>1
    <2> QED BY <1>1, <1>3, <1>4, <2>2, <2>3, OpenAppend
  <1>9. Len(joined') + Len(toKm') * MaxSend = sent'
    <2>1. (Len(toKm) + 1) * MaxSend = Len(toKm) * MaxSend + MaxSend BY <1>3, OneMore
    <2>2. Len(joined) + Len(toKm) * MaxSend = sent BY <1>2 DEF PartSent
    <2>3. Len(joined') = Len(joined) /\ Len(toKm') * MaxSend = (Len(toKm) + 1) * MaxSend
      BY <1>1, <1>6, Zenon
    <2> DEFINE w == Len(toKm) * MaxSend
    <2>4. w \in Nat /\ Len(joined) + w = sent BY <1>3, <2>2
    <2> HIDE DEF w
    <2>5. Len(joined) + (w + MaxSend) = sent + MaxSend BY <1>3, <2>4
    <2> QED BY <1>1, <2>1, <2>3, <2>5, Zenon DEF w
  <1>10. \A k \in 1 .. Len(toKm') : toKm'[k].cmd = cmd' /\ toKm'[k].stop
    <2>1. \A k \in 1 .. Len(toKm') : k \in 1 .. Len(toKm) \/ k = Len(toKm) + 1
      BY <1>3, <1>6
    <2>2. \A k \in 1 .. Len(toKm) : toKm[k].cmd = cmd /\ toKm[k].stop BY <1>2 DEF PartSent
    <2>3. cmd' = cmd BY <1>1
    <2>4. \A k \in 1 .. Len(toKm) : toKm'[k].cmd = cmd /\ toKm'[k].stop BY <1>6, <2>2, Zenon
    <2>5. toKm'[Len(toKm) + 1].cmd = cmd /\ toKm'[Len(toKm) + 1].stop BY <1>5, <1>6, Zenon
    <2> QED BY <2>1, <2>3, <2>4, <2>5, Zenon
  <1>11. NotRun' /\ Joining' BY <1>1, <1>2 DEF PartSent, NotRun, Joining
  <1>12. PartSent' BY <1>1, <1>8, <1>9, <1>10, <1>11 DEF PartSent
  <1>13. AnswerIsOwn' /\ RequestIsWhole' BY <1>1 DEF CallInv, AnswerIsOwn, RequestIsWhole
  <1> QED BY <1>1, <1>2, <1>7, <1>12, <1>13 DEF CallInv

\* The message without the stop bit carries what is left of the request.
LEMMA WriteLastKeeps == TipcKeymasterAssumption /\ CallInv /\ WriteLast => CallInv'
  <1> SUFFICES ASSUME TipcKeymasterAssumption, CallInv, WriteLast PROVE CallInv' OBVIOUS
  <1> DEFINE x == [cmd |-> cmd, stop |-> FALSE, payload |-> SubSeq(in, sent + 1, Len(in))]
  <1>1. /\ callPc = "write" /\ callPc' = "read" /\ toKm' = Append(toKm, x) /\ sent' = Len(in)
        /\ UNCHANGED <<cmd, in, out, err, fromKm, joined, ran>>
    BY DEF WriteLast, Remaining
  <1>2. CallType /\ PartSent /\ err = "OK" BY <1>1 DEF CallInv
  <1>3. /\ MaxSend \in Nat /\ sent \in Nat /\ in \in Seq(ReqByte) /\ Len(in) \in Nat
        /\ sent <= Len(in)
        /\ toKm \in Seq(ReqMessage) /\ Len(toKm) \in Nat /\ Len(joined) \in Nat
        /\ Len(toKm) * MaxSend \in Nat
    BY <1>2, OneMore DEF CallType, TipcKeymasterAssumption
  <1>4. x \in ReqMessage
    <2>1. \A i \in sent + 1 .. Len(in) : i \in 1 .. Len(in) BY <1>3
    <2>2. \A i \in sent + 1 .. Len(in) : in[i] \in ReqByte BY <2>1, <1>3, ElementOfSeq
    <2>3. SubSeq(in, sent + 1, Len(in)) \in Seq(ReqByte) BY <1>3, <2>2, SubSeqProperties
    <2> QED BY <1>2, <2>3 DEF CallType, ReqMessage
  <1>5. x.cmd = cmd /\ ~x.stop /\ x.payload = SubSeq(in, sent + 1, Len(in)) OBVIOUS
  <1> HIDE DEF x
  <1>6. /\ toKm' \in Seq(ReqMessage) /\ Len(toKm') = Len(toKm) + 1
        /\ toKm'[Len(toKm) + 1] = x /\ \A k \in 1 .. Len(toKm) : toKm'[k] = toKm[k]
    BY <1>1, <1>3, <1>4, AppendProperties
  <1>7. CallType' BY <1>1, <1>2, <1>3, <1>6 DEF CallType
  <1>8. ClosedPieces(toKm', in, Len(joined), MaxSend)
    <2>1. Len(joined) + Len(toKm) * MaxSend = sent BY <1>2 DEF PartSent
    <2>2. OpenPieces(toKm, in, Len(joined), MaxSend) BY <1>2 DEF PartSent
    <2>3. /\ x.payload = SubSeq(in, Len(joined) + Len(toKm) * MaxSend + 1, Len(in))
          /\ Len(joined) + Len(toKm) * MaxSend <= Len(in)
      BY <1>3, <1>5, <2>1
    <2> QED BY <1>1, <1>3, <1>4, <2>2, <2>3, CloseAppend
  <1>10. \A k \in 1 .. Len(toKm') :
           toKm'[k].cmd = cmd' /\ (toKm'[k].stop <=> k < Len(toKm'))
    <2>1. \A k \in 1 .. Len(toKm') :
            \/ k \in 1 .. Len(toKm) /\ k < Len(toKm')
            \/ k = Len(toKm) + 1 /\ ~(k < Len(toKm'))
      BY <1>3, <1>6
    <2>2. \A k \in 1 .. Len(toKm) : toKm[k].cmd = cmd /\ toKm[k].stop BY <1>2 DEF PartSent
    <2>3. cmd' = cmd BY <1>1
    <2>4. \A k \in 1 .. Len(toKm) : toKm'[k].cmd = cmd /\ toKm'[k].stop BY <1>6, <2>2, Zenon
    <2>5. toKm'[Len(toKm) + 1].cmd = cmd /\ ~toKm'[Len(toKm) + 1].stop BY <1>5, <1>6, Zenon
    <2> QED BY <2>1, <2>3, <2>4, <2>5, Zenon
  <1>11. NotRun' /\ Joining' BY <1>1, <1>2 DEF PartSent, NotRun, Joining
  <1>12. AllSent' BY <1>1, <1>8, <1>10, <1>11 DEF AllSent
  <1>13. AnswerIsOwn' /\ RequestIsWhole' BY <1>1 DEF CallInv, AnswerIsOwn, RequestIsWhole
  <1> QED BY <1>1, <1>2, <1>7, <1>12, <1>13 DEF CallInv

\* readv: a message of the answer is joined to those before it; the last makes
\* the answer whole.
LEMMA ReadFragmentKeeps == TipcKeymasterAssumption /\ CallInv /\ ReadFragment => CallInv'
  <1> SUFFICES ASSUME TipcKeymasterAssumption, CallInv, ReadFragment PROVE CallInv' OBVIOUS
  <1> DEFINE m == Head(fromKm)
  <1>1. /\ callPc = "read" /\ fromKm # <<>>
        /\ UNCHANGED <<cmd, in, sent, err, toKm, joined, ran>>
        /\ \/ /\ fromKm' = Tail(fromKm) /\ out' = out \o m.payload
              /\ callPc' = IF m.stop THEN "reply" ELSE "read"
           \/ callPc' = "reset" /\ UNCHANGED <<fromKm, out>>
    BY DEF ReadFragment, Nothing
  <1>2. CallType /\ HasRun /\ err = "OK"
    BY <1>1 DEF CallInv, AllSent, NotRun
  <1>3. RequestIsWhole' BY <1>1 DEF CallInv, RequestIsWhole
  <1>4. CASE callPc' = "reset" /\ UNCHANGED <<fromKm, out>>
    <2>1. CallType' BY <1>1, <1>2, <1>4 DEF CallType
    <2>2. HasRun' BY <1>1, <1>2, <1>4 DEF HasRun
    <2>3. AnswerIsOwn' BY <1>4 DEF AnswerIsOwn
    <2> QED BY <1>3, <1>4, <2>1, <2>2, <2>3 DEF CallInv
  <1>5. CASE /\ fromKm' = Tail(fromKm) /\ out' = out \o m.payload
             /\ callPc' = IF m.stop THEN "reply" ELSE "read"
    <2>1. /\ fromKm \in Seq(AnsMessage) /\ Len(fromKm) \in Nat \ {0} /\ m = fromKm[1]
          /\ MaxBuffer \in Nat /\ out \in Seq(AnsByte) /\ Len(out) \in Nat
          /\ ran.ans \in Seq(AnsByte) /\ Len(ran.ans) \in Nat
          /\ Len(out) <= Len(ran.ans) /\ out = SubSeq(ran.ans, 1, Len(out))
      BY <1>1, <1>2 DEF CallType, HasRun, TipcKeymasterAssumption
    <2>2. ClosedPieces(fromKm, ran.ans, Len(out), MaxBuffer) BY <1>2 DEF HasRun
    <2>3. /\ fromKm' \in Seq(AnsMessage) /\ Len(fromKm') = Len(fromKm) - 1
          /\ \A k \in 1 .. Len(fromKm') : fromKm'[k] = fromKm[k + 1]
      BY <1>1, <1>5, <2>1, HeadTailProperties
    <2>4. m.stop <=> Len(fromKm) = 1
      <3>1. 1 \in 1 .. Len(fromKm) BY <2>1
      <3> QED BY <1>2, <2>1, <3>1 DEF HasRun
    <2> HIDE DEF m
    <2>5. CASE Len(fromKm) = 1
      <3>1. m.payload = SubSeq(ran.ans, Len(out) + 1, Len(ran.ans))
        BY <2>1, <2>2, <2>5, ClosedTail DEF m
      <3>2. out' = SubSeq(ran.ans, 1, Len(ran.ans))
        BY <1>5, <2>1, <3>1, JoinPiece
      <3>3. out' = ran.ans BY <2>1, <3>2, SubSeqFull
      <3>4. fromKm' = <<>> BY <2>3, <2>5
      <3>5. callPc' = "reply" BY <1>5, <2>4, <2>5
      <3>6. CallType' BY <1>1, <1>2, <2>1, <2>3, <3>3, <3>5 DEF CallType
      <3>7. Quiet' BY <1>1, <1>2, <3>4 DEF HasRun, Quiet
      <3>8. AnswerIsOwn' BY <1>1, <1>2, <3>3 DEF HasRun, AnswerIsOwn
      <3> QED BY <1>3, <3>5, <3>6, <3>7, <3>8 DEF CallInv
    <2>6. CASE Len(fromKm) # 1
      <3>1. /\ m.payload = SubSeq(ran.ans, Len(out) + 1, Len(out) + MaxBuffer)
            /\ Len(out) + MaxBuffer <= Len(ran.ans)
            /\ ClosedPieces(fromKm', ran.ans, Len(out) + MaxBuffer, MaxBuffer)
        <4> DEFINE a == ran.ans
                   n == Len(out)
        <4>1. Len(a) \in Nat /\ n \in Nat /\ ClosedPieces(fromKm, a, n, MaxBuffer) BY <2>1, <2>2
        <4> HIDE DEF a, n
        <4>2. /\ Head(fromKm).payload = SubSeq(a, n + 1, n + MaxBuffer) /\ n + MaxBuffer <= Len(a)
              /\ ClosedPieces(Tail(fromKm), a, n + MaxBuffer, MaxBuffer)
          BY <2>1, <2>6, <4>1, ClosedTail
        <4> QED BY <1>5, <4>2, Zenon DEF m, a, n
      <3> DEFINE e == Len(out) + MaxBuffer
      <3>2. Len(out) \in 0 .. Len(ran.ans) /\ e \in Len(out) .. Len(ran.ans)
        BY <2>1, <3>1
      <3> HIDE DEF e
      <3>3. /\ out' = SubSeq(ran.ans, 1, e) /\ out' \in Seq(AnsByte) /\ Len(out') = e
        <4>1. m.payload = SubSeq(ran.ans, Len(out) + 1, e) BY <3>1 DEF e
        <4>2. /\ out \o SubSeq(ran.ans, Len(out) + 1, e) = SubSeq(ran.ans, 1, e)
              /\ SubSeq(ran.ans, 1, e) \in Seq(AnsByte) /\ Len(SubSeq(ran.ans, 1, e)) = e
          <5> DEFINE a == ran.ans
                     n == Len(out)
          <5>1. a \in Seq(AnsByte) /\ n \in 0 .. Len(a) /\ e \in n .. Len(a)
                /\ out \in Seq(AnsByte) /\ out = SubSeq(a, 1, n)
            BY <2>1, <3>2
          <5> HIDE DEF a, n
          <5>2. /\ out \o SubSeq(a, n + 1, e) = SubSeq(a, 1, e)
                /\ SubSeq(a, 1, e) \in Seq(AnsByte) /\ Len(SubSeq(a, 1, e)) = e
            BY <5>1, JoinPiece
          <5> QED BY <5>2 DEF a, n
        <4> QED BY <1>5, <4>1, <4>2, Zenon
      <3>4. e <= Len(ran.ans) /\ ClosedPieces(fromKm', ran.ans, e, MaxBuffer) BY <3>1 DEF e
      <3>5. callPc' = "read" BY <1>5, <2>4, <2>6
      <3>6. CallType' BY <1>1, <1>2, <2>3, <3>3, <3>5 DEF CallType
      <3>7. \A k \in 1 .. Len(fromKm') : fromKm'[k].stop <=> k = Len(fromKm')
        <4>1. \A k \in 1 .. Len(fromKm') :
                k + 1 \in 1 .. Len(fromKm) /\ (k + 1 = Len(fromKm) <=> k = Len(fromKm'))
          BY <2>1, <2>3
        <4>2. \A k \in 1 .. Len(fromKm) : fromKm[k].stop <=> k = Len(fromKm)
          BY <1>2 DEF HasRun
        <4> QED BY <2>3, <4>1, <4>2, Zenon
      <3>8. HasRun'
        BY <1>1, <1>2, <3>3, <3>4, <3>7, Zenon DEF HasRun
      <3>9. AnswerIsOwn' BY <3>5 DEF AnswerIsOwn
      <3> QED BY <1>1, <1>2, <1>3, <3>5, <3>6, <3>8, <3>9 DEF CallInv
    <2> QED BY <2>5, <2>6
  <1> QED BY <1>1, <1>4, <1>5

\* The reset empties the channel, and what comes after it leaves it empty.
LEMMA ResetKeeps == CallInv /\ (Reset \/ Reconnect \/ ReplyCall) => CallInv'
  <1> SUFFICES ASSUME CallInv, Reset \/ Reconnect \/ ReplyCall PROVE CallInv' OBVIOUS
  <1>1. CASE Reset
    <2>1. /\ toKm' = <<>> /\ fromKm' = <<>> /\ joined' = <<>>
          /\ err' = "ERROR" /\ callPc' = "connect"
          /\ UNCHANGED <<cmd, in, sent, out, ran>>
      BY <1>1 DEF Reset, Nothing
    <2>2. CallType' BY <2>1 DEF CallInv, CallType
    <2>3. Quiet' BY <2>1 DEF Quiet
    <2>4. AnswerIsOwn' /\ RequestIsWhole' BY <2>1 DEF CallInv, AnswerIsOwn, RequestIsWhole
    <2> QED BY <2>1, <2>2, <2>3, <2>4 DEF CallInv
  <1>2. CASE Reconnect \/ ReplyCall
    <2>1. /\ callPc \in {"connect", "reply"} /\ callPc' \in {"reply", "idle"}
          /\ callPc' = "reply" => err = "ERROR"
          /\ UNCHANGED <<cmd, in, sent, out, err, toKm, fromKm, joined, ran>>
      <3>1. CASE Reconnect BY <3>1 DEF Reconnect, channel, CallInv
      <3>2. CASE ReplyCall BY <3>2 DEF ReplyCall, channel
      <3> QED BY <1>2, <3>1, <3>2
    <2>2. CallType' BY <2>1 DEF CallInv, CallType
    <2>3. Quiet' BY <2>1 DEF CallInv, Quiet
    <2>4. AnswerIsOwn' /\ RequestIsWhole' BY <2>1 DEF CallInv, AnswerIsOwn, RequestIsWhole
    <2> QED BY <2>1, <2>2, <2>3, <2>4 DEF CallInv
  <1> QED BY <1>1, <1>2

\* The TA takes a message of a request of which not all is sent, or which has
\* messages behind it: it joins one more piece.
LEMMA TaJoins ==
  ASSUME TipcKeymasterAssumption, CallType, Joining, toKm # <<>>,
         Head(toKm).payload = SubSeq(in, Len(joined) + 1, Len(joined) + MaxSend),
         Len(joined) + MaxSend <= Len(in), joined' = joined \o Head(toKm).payload, in' = in
  PROVE  Joining' /\ joined' \in Seq(ReqByte) /\ Len(joined') = Len(joined) + MaxSend
  <1> DEFINE n == Len(joined)
             e == n + MaxSend
  <1>1. /\ in \in Seq(ReqByte) /\ joined \in Seq(ReqByte) /\ n \in 0 .. Len(in)
        /\ e \in n .. Len(in) /\ joined = SubSeq(in, 1, n)
    <2>1. in \in Seq(ReqByte) /\ joined \in Seq(ReqByte) BY DEF CallType
    <2>2. Len(in) \in Nat /\ n \in Nat BY <2>1, LenProperties
    <2>5. MaxSend \in Nat BY DEF TipcKeymasterAssumption
    <2>3. n <= Len(in) /\ joined = SubSeq(in, 1, n) BY DEF Joining
    <2> HIDE DEF n
    <2>4. n + MaxSend <= Len(in) BY DEF n
    <2> QED BY <2>1, <2>2, <2>3, <2>4, <2>5
  <1>2. joined' = joined \o SubSeq(in, n + 1, e) OBVIOUS
  <1> HIDE DEF n, e
  <1>3. /\ joined' = SubSeq(in, 1, e) /\ joined' \in Seq(ReqByte) /\ Len(joined') = e
    <2>1. /\ joined \o SubSeq(in, n + 1, e) = SubSeq(in, 1, e)
          /\ SubSeq(in, 1, e) \in Seq(ReqByte) /\ Len(SubSeq(in, 1, e)) = e
      BY <1>1, JoinPiece
    <2> QED BY <1>2, <2>1, Zenon
  <1>4. e <= Len(in) BY <1>1
  <1>5. Joining' BY <1>3, <1>4, Zenon DEF Joining
  <1> QED BY <1>3, <1>5 DEF e, n

\* The answer to a request.
LEMMA AnswerIsBytes ==
  ASSUME NEW r \in Seq(ReqByte), NEW n \in Nat
  PROVE  AnswerBytes(r, n) \in Seq(AnsByte)
  <1>1. \A i \in 1 .. n : <<r, i>> \in AnsByte BY DEF AnsByte
  <1> QED BY <1>1 DEF AnswerBytes

\* The TA runs what it has joined, which is the request of the call: nothing else
\* is on the channel.
LEMMA TaTakesKeeps == TipcKeymasterAssumption /\ CallInv /\ TaTakes => CallInv'
  <1> SUFFICES ASSUME TipcKeymasterAssumption, CallInv, TaTakes PROVE CallInv' OBVIOUS
  <1> DEFINE m == Head(toKm)
             r == joined \o m.payload
  <1>1. /\ toKm # <<>> /\ toKm' = Tail(toKm)
        /\ UNCHANGED <<callPc, cmd, in, sent, out, err>>
        /\ \/ m.stop /\ joined' = r /\ UNCHANGED <<fromKm, ran>>
           \/ /\ ~m.stop /\ joined' = <<>>
              /\ \E n \in 0 .. MaxSize :
                   /\ fromKm' = fromKm \o Fragments(m.cmd, AnswerBytes(r, n))
                   /\ ran' = [cmd |-> m.cmd, req |-> r, ans |-> AnswerBytes(r, n)]
    BY DEF TaTakes, Nothing
  <1>2. CallType /\ RequestIsWhole /\ AnswerIsOwn BY DEF CallInv
  <1>3. callPc \in {"write", "read", "reset"}
    BY <1>1, <1>2 DEF CallInv, CallType, Quiet
  <1>4. /\ callPc = "write" => err = "OK" /\ PartSent
        /\ callPc = "read" => err = "OK" /\ AllSent
        /\ PartSent \/ AllSent
    BY <1>1, <1>3 DEF CallInv, HasRun
  <1>5. /\ MaxSend \in Nat \ {0} /\ in \in Seq(ReqByte) /\ Len(in) \in Nat
        /\ joined \in Seq(ReqByte) /\ Len(joined) \in Nat /\ Joining /\ NotRun
        /\ toKm \in Seq(ReqMessage) /\ Len(toKm) \in Nat \ {0} /\ m = toKm[1]
    <2>1. MaxSend \in Nat \ {0} BY DEF TipcKeymasterAssumption
    <2>2. in \in Seq(ReqByte) /\ joined \in Seq(ReqByte) /\ toKm \in Seq(ReqMessage)
      BY <1>2 DEF CallType
    <2>3. Len(in) \in Nat /\ Len(joined) \in Nat BY <2>2, LenProperties
    <2>4. Len(toKm) \in Nat \ {0} BY <1>1, <2>2, EmptySeq
    <2>6. m = toKm[1] BY DEF m
    <2>5. Joining /\ NotRun BY <1>4, Zenon DEF PartSent, AllSent
    <2> QED BY <2>1, <2>2, <2>3, <2>4, <2>5, <2>6, Zenon
  <1>6. /\ toKm' \in Seq(ReqMessage) /\ Len(toKm') = Len(toKm) - 1
        /\ \A k \in 1 .. Len(toKm') : toKm'[k] = toKm[k + 1]
    BY <1>1, <1>5, HeadTailProperties
  <1>7. \A k \in 1 .. Len(toKm') :
          k + 1 \in 1 .. Len(toKm) /\ (k + 1 < Len(toKm) <=> k < Len(toKm'))
    BY <1>5, <1>6
  <1>8. AnswerIsOwn' BY <1>1, <1>3 DEF AnswerIsOwn
  <1>9. m.cmd = cmd
    <2>1. 1 \in 1 .. Len(toKm) BY <1>5
    <2> QED BY <1>4, <1>5, <2>1 DEF PartSent, AllSent
  <1> HIDE DEF m
  <1>10. ASSUME PartSent PROVE PartSent' /\ CallType' /\ RequestIsWhole'
    <2>1. m.stop
      <3>1. 1 \in 1 .. Len(toKm) BY <1>5
      <3> QED BY <1>5, <1>10, <3>1 DEF PartSent
    <2>2. /\ m.payload = SubSeq(in, Len(joined) + 1, Len(joined) + MaxSend)
          /\ OpenPieces(toKm', in, Len(joined) + MaxSend, MaxSend)
      <3> DEFINE n == Len(joined)
      <3>1. OpenPieces(toKm, in, n, MaxSend) BY <1>10 DEF PartSent
      <3>2. n \in Nat /\ MaxSend \in Nat BY <1>5
      <3> HIDE DEF n
      <3>3. /\ Head(toKm).payload = SubSeq(in, n + 1, n + MaxSend)
            /\ OpenPieces(Tail(toKm), in, n + MaxSend, MaxSend)
        BY <1>1, <1>5, <3>1, <3>2, OpenTail
      <3> QED BY <1>1, <3>3, Zenon DEF m, n
    <2>3. joined' = joined \o m.payload /\ UNCHANGED <<fromKm, ran>> BY <1>1, <2>1
    <2> DEFINE l == Len(toKm')
    <2>4. l \in Nat /\ Len(toKm) = l + 1 BY <1>5, <1>6
    <2>5. Len(toKm) * MaxSend = l * MaxSend + MaxSend /\ l * MaxSend \in Nat
      BY <1>5, <2>4, OneMore
    <2> HIDE DEF l
    <2>6. Len(joined) + (l * MaxSend + MaxSend) = sent BY <1>10, <2>5 DEF PartSent
    <2>7. /\ Len(joined) + MaxSend <= Len(in)
          /\ (Len(joined) + MaxSend) + l * MaxSend = sent
      <3>1. sent \in Nat /\ sent <= Len(in) BY <1>2 DEF CallType
      <3> DEFINE w == l * MaxSend
      <3>2. w \in Nat /\ Len(joined) + (w + MaxSend) = sent BY <2>5, <2>6
      <3> HIDE DEF w
      <3>3. Len(joined) + MaxSend <= Len(in) /\ (Len(joined) + MaxSend) + w = sent
        BY <1>5, <3>1, <3>2
      <3> QED BY <3>3 DEF w
    <2>8. Joining' /\ joined' \in Seq(ReqByte) /\ Len(joined') = Len(joined) + MaxSend
      BY <1>1, <1>2, <1>5, <2>2, <2>3, <2>7, TaJoins DEF m
    <2>9. Len(joined') + Len(toKm') * MaxSend = sent' BY <1>1, <2>7, <2>8 DEF l
    <2>10. OpenPieces(toKm', in', Len(joined'), MaxSend) BY <1>1, <2>2, <2>8
    <2>11. \A k \in 1 .. Len(toKm') : toKm'[k].cmd = cmd' /\ toKm'[k].stop
      <3>1. \A k \in 1 .. Len(toKm) : toKm[k].cmd = cmd /\ toKm[k].stop
        BY <1>10, Zenon DEF PartSent
      <3>2. cmd' = cmd BY <1>1
      <3> QED BY <1>6, <1>7, <3>1, <3>2, Zenon
    <2>12. NotRun' BY <1>1, <1>5, <2>3 DEF NotRun
    <2>13. PartSent' BY <2>8, <2>9, <2>10, <2>11, <2>12 DEF PartSent
    <2>14. CallType' BY <1>1, <1>2, <1>6, <2>3, <2>8 DEF CallType
    <2>15. RequestIsWhole' BY <1>1, <1>2, <2>3 DEF RequestIsWhole
    <2> QED BY <2>13, <2>14, <2>15
  <1>11. ASSUME AllSent PROVE (AllSent' \/ HasRun') /\ CallType' /\ RequestIsWhole'
    <2>1. ClosedPieces(toKm, in, Len(joined), MaxSend) BY <1>11 DEF AllSent
    <2>2. m.stop <=> 1 < Len(toKm)
      <3>1. 1 \in 1 .. Len(toKm) BY <1>5
      <3> QED BY <1>5, <1>11, <3>1 DEF AllSent
    <2>3. CASE Len(toKm) # 1
      <3>1. m.stop
        <4>1. \A l \in Nat \ {0} : l # 1 => 1 < l OBVIOUS
        <4> QED BY <1>5, <2>2, <2>3, <4>1, Zenon
      <3>2. /\ m.payload = SubSeq(in, Len(joined) + 1, Len(joined) + MaxSend)
            /\ Len(joined) + MaxSend <= Len(in)
            /\ ClosedPieces(toKm', in, Len(joined) + MaxSend, MaxSend)
        <4> DEFINE n == Len(joined)
        <4>1. n \in Nat /\ MaxSend \in Nat /\ ClosedPieces(toKm, in, n, MaxSend) BY <1>5, <2>1
        <4> HIDE DEF n
        <4>2. /\ Head(toKm).payload = SubSeq(in, n + 1, n + MaxSend) /\ n + MaxSend <= Len(in)
              /\ ClosedPieces(Tail(toKm), in, n + MaxSend, MaxSend)
          BY <1>5, <2>3, <4>1, ClosedTail
        <4> QED BY <1>1, <4>2, Zenon DEF m, n
      <3>3. joined' = joined \o m.payload /\ UNCHANGED <<fromKm, ran>> BY <1>1, <3>1
      <3>4. Joining' /\ joined' \in Seq(ReqByte) /\ Len(joined') = Len(joined) + MaxSend
        BY <1>1, <1>2, <1>5, <3>2, <3>3, TaJoins DEF m
      <3>5. ClosedPieces(toKm', in', Len(joined'), MaxSend) BY <1>1, <3>2, <3>4
      <3>6. \A k \in 1 .. Len(toKm') :
              toKm'[k].cmd = cmd' /\ (toKm'[k].stop <=> k < Len(toKm'))
        <4>1. \A k \in 1 .. Len(toKm) :
                toKm[k].cmd = cmd /\ (toKm[k].stop <=> k < Len(toKm))
          BY <1>11, Zenon DEF AllSent
        <4>2. cmd' = cmd BY <1>1
        <4> QED BY <1>6, <1>7, <4>1, <4>2, Zenon
      <3>7. NotRun' BY <1>1, <1>5, <3>3 DEF NotRun
      <3>8. AllSent' BY <3>4, <3>5, <3>6, <3>7 DEF AllSent
      <3>9. CallType' BY <1>1, <1>2, <1>6, <3>3, <3>4 DEF CallType
      <3>10. RequestIsWhole' BY <1>1, <1>2, <3>3 DEF RequestIsWhole
      <3> QED BY <3>8, <3>9, <3>10
    <2>4. CASE Len(toKm) = 1
      <3>1. ~m.stop BY <2>2, <2>4
      <3>2. m.payload = SubSeq(in, Len(joined) + 1, Len(in)) /\ Len(joined) <= Len(in)
        BY <1>5, <2>1, <2>4, ClosedTail DEF m
      <3>3. joined \o m.payload = in
        <4>1. joined \o SubSeq(in, Len(joined) + 1, Len(in)) = SubSeq(in, 1, Len(in))
          BY <1>5, <3>2, JoinPiece DEF Joining
        <4>2. SubSeq(in, 1, Len(in)) = in BY <1>5, SubSeqFull
        <4> QED BY <3>2, <4>1, <4>2, Zenon
      <3>4. PICK n \in 0 .. MaxSize :
              /\ fromKm' = fromKm \o Fragments(cmd, AnswerBytes(in, n))
              /\ ran' = [cmd |-> cmd, req |-> in, ans |-> AnswerBytes(in, n)]
        BY <1>1, <1>9, <3>1, <3>3
      <3>5. toKm' = <<>> /\ joined' = <<>> BY <1>1, <1>6, <2>4, <3>1
      <3> DEFINE a == AnswerBytes(in, n)
                 f == Fragments(cmd, a)
      <3>6. n \in Nat BY DEF TipcKeymasterAssumption
      <3>7. a \in Seq(AnsByte) BY <1>5, <3>6, AnswerIsBytes
      <3>8. ran'.cmd = cmd /\ ran'.req = in /\ ran'.ans = a BY <3>4
      <3> HIDE DEF a
      <3>9. /\ f \in Seq(AnsMessage) /\ ClosedPieces(f, a, 0, MaxBuffer)
            /\ \A k \in 1 .. Len(f) : f[k].stop <=> k = Len(f)
        BY <1>2, <3>7, FragmentsCarry DEF CallType
      <3> HIDE DEF f
      <3>10. fromKm' = f
        <4>1. fromKm' = <<>> \o f BY <1>5, <3>4 DEF NotRun, a, f
        <4> QED BY <3>9, <4>1, ConcatEmptySeq
      <3>11. out' = <<>> /\ Len(out') = 0 BY <1>1, <1>5 DEF NotRun
      <3>12. Len(out') <= Len(ran'.ans) /\ out' = SubSeq(ran'.ans, 1, Len(out'))
        BY <3>7, <3>8, <3>11
      <3>13. HasRun'
        BY <1>1, <3>5, <3>7, <3>8, <3>9, <3>10, <3>11, <3>12, Zenon DEF HasRun
      <3>14. CallType'
        <4>1. joined' \in Seq(ReqByte) /\ out' \in Seq(AnsByte) BY <3>5, <3>11
        <4>2. fromKm' \in Seq(AnsMessage) BY <3>9, <3>10, Zenon
        <4>3. UNCHANGED <<callPc, cmd, in, sent>> BY <1>1
        <4> QED BY <1>2, <1>6, <4>1, <4>2, <4>3, Zenon DEF CallType
      <3>15. RequestIsWhole' BY <1>1, <3>8 DEF RequestIsWhole
      <3> QED BY <3>13, <3>14, <3>15
    <2> QED BY <2>3, <2>4
  <1> QED BY <1>1, <1>3, <1>4, <1>8, <1>10, <1>11 DEF CallInv

\* Every step keeps the invariant.
LEMMA CallNextKeeps == TipcKeymasterAssumption /\ CallInv /\ [CallNext]_callVars => CallInv'
  <1> SUFFICES ASSUME TipcKeymasterAssumption, CallInv, [CallNext]_callVars PROVE CallInv'
    OBVIOUS
  <1>1. CASE CallNext
    BY <1>1, SendKeeps, InitializeKeeps, BrokenKeeps, WriteFragmentKeeps, WriteLastKeeps,
       ReadFragmentKeeps, ResetKeeps, TaTakesKeeps
    DEF CallNext, CallService, bp_keymaster_call
  <1>2. CASE UNCHANGED callVars
    <2>1. UNCHANGED <<callPc, cmd, in, sent, out, err, toKm, fromKm, joined, ran>>
      BY <1>2 DEF callVars, channel
    <2> QED BY <2>1
        DEF CallInv, CallType, PartSent, AllSent, HasRun, NotRun, Joining, Quiet,
            AnswerIsOwn, RequestIsWhole
  <1> QED BY <1>1, <1>2

\* The invariant of the channel holds throughout.
LEMMA CallInvariant == TipcKeymasterAssumption => (CallSpec => []CallInv)
  <1> SUFFICES ASSUME TipcKeymasterAssumption PROVE CallSpec => []CallInv
    OBVIOUS
  <1>1. CallInit => CallInv BY CallStarts
  <1>2. CallInv /\ [CallNext]_callVars => CallInv' BY CallNextKeeps
  <1> QED BY <1>1, <1>2, PTL DEF CallSpec

\* bp_keymaster_call: for every size of requests, answers, messages and buffers
\* and any number of faults, a call that is answered has the whole answer the TA
\* gave to its own request, and never one to a call that failed before.
THEOREM AnswerSafe == TipcKeymasterAssumption => (CallSpec => []AnswerIsOwn)
  <1>1. CallInv => AnswerIsOwn BY DEF CallInv
  <1> QED BY <1>1, CallInvariant, PTL

\* The fragments of bp_keymaster_call, in the same generality: what the TA runs
\* is the request of the call that is being made, with all its fragments and no
\* others, wherever a call before it broke off.
THEOREM RequestSafe == TipcKeymasterAssumption => (CallSpec => []RequestIsWhole)
  <1>1. CallInv => RequestIsWhole BY DEF CallInv
  <1> QED BY <1>1, CallInvariant, PTL

-----------------------------------------------------------------------------
(***************************************************************************)
(* LiteGatekeeper.                                                         *)
(***************************************************************************)
\* One message is one that is there, and no other.
LEMMA OneMessage == ASSUME NEW m \in Nat, NEW n \in Nat, m # 0, m + n = 1 PROVE m = 1 /\ n = 0
  OBVIOUS

\* A request that is there is counted.
LEMMA NotEmpty == ASSUME NEW S, NEW s \in Seq(S), s # <<>> PROVE Len(s) \in Nat /\ Len(s) # 0
  BY EmptySeq, Zenon

\* A message put on one of two channels is one more on the two.
LEMMA MessageAdded ==
  ASSUME NEW m \in Nat, NEW n \in Nat PROVE (m + 1) + n = (m + n) + 1
  BY SMT

\* A message that moves from one channel to the other leaves their number.
LEMMA MessageMoves ==
  ASSUME NEW m \in Nat, NEW n \in Nat PROVE (m - 1) + (n + 1) = m + n
  OBVIOUS

Answer == [cmd : GK \cup {"NONE"}, error : {"ERROR_NONE", "ERROR_INVALID", "ERROR_RETRY"},
           reenroll : BOOLEAN]

ChannelType ==
  /\ call \in Request /\ answer \in Answer
  /\ toTa \in Seq(Request) /\ fromTa \in Seq(Answer) /\ unread \in Nat

\* What is on the connection is what was not waited for, and the answer that is.
OnChannel == Len(toTa) + Len(fromTa) = IF pc = "read" THEN unread + 1 ELSE unread

\* The answer a is to the request of the call.
AnswerToCall(a) == a.cmd = call.cmd /\ (a.error = "ERROR_NONE" => call.right)

\* With nothing unread, a call waits for its own answer.
OwnAnswer ==
  unread = 0 =>
    /\ pc = "read" => /\ toTa # <<>> => Head(toTa) = call
                      /\ fromTa # <<>> => AnswerToCall(Head(fromTa))
    /\ pc = "returned" => AnswerToCall(answer)

\* A status other than a failure is for the command that was called, and a
\* success with nothing unread for the right password.
Success == {"STATUS_OK", "STATUS_REENROLL"}
StatusInv ==
  /\ pc = "returned" => answer.cmd = call.cmd
  /\ pc = "reply" /\ status \in Success \cup {"ERROR_RETRY_TIMEOUT"} => answer.cmd = call.cmd
  /\ pc = "reply" /\ unread = 0 /\ status \in Success => call.right \/ call.cmd # "VERIFY"

\* The inductive invariant of the gatekeeper of the lite stack.
GatekeeperInv == ChannelType /\ OnChannel /\ OwnAnswer /\ StatusInv

\* A service that starts has nothing on its channel.
LEMMA GatekeeperStarts == Init => GatekeeperInv
  <1> SUFFICES ASSUME Init PROVE GatekeeperInv OBVIOUS
  <1>1. ChannelType
    BY DEF Init, ChannelType, NoCall, NoAnswer, Request, Answer, GK
  <1>2. OnChannel
    BY DEF Init, OnChannel
  <1>3. OwnAnswer /\ StatusInv
    BY DEF Init, OwnAnswer, StatusInv
  <1> QED BY <1>1, <1>2, <1>3 DEF GatekeeperInv

\* The steps that leave the connection as it is.
LEMMA QuietKeeps ==
  ASSUME GatekeeperInv,
         TrustyGateKeeperDevice \/ EnrollOrVerify \/ Delete \/ WriteFails \/ Reply
  PROVE  GatekeeperInv'
<1>1. UNCHANGED <<toTa, fromTa, unread>> /\ pc # "read" /\ pc' \in {"idle", "write", "reply"}
  BY Zenon DEF TrustyGateKeeperDevice, EnrollOrVerify, Delete, WriteFails, Reply, Fails
<1>2. call' \in Request /\ answer' \in {answer, NoAnswer}
  BY Zenon DEF TrustyGateKeeperDevice, EnrollOrVerify, Delete, WriteFails, Reply, GatekeeperInv,
     ChannelType
<1>3. NoAnswer \in Answer
  BY Zenon DEF NoAnswer, Answer
<1>4. pc' = "reply" => status' \in {"ERROR_GENERAL_FAILURE", "ERROR_NOT_IMPLEMENTED"}
  BY Zenon DEF TrustyGateKeeperDevice, EnrollOrVerify, Delete, WriteFails, Reply, Fails
<1> QED
  BY <1>1, <1>2, <1>3, <1>4, Zenon
     DEF GatekeeperInv, ChannelType, OnChannel, OwnAnswer, StatusInv, Success

\* What a request, or an answer, that is put on its channel makes of it.
LEMMA RequestAppended ==
  ASSUME NEW s \in Seq(Request), NEW e \in Request
  PROVE  /\ Append(s, e) \in Seq(Request) /\ Len(Append(s, e)) = Len(s) + 1
         /\ s = <<>> => Head(Append(s, e)) = e
  BY AppendProperties

\* The same for an answer.
LEMMA AnswerAppended ==
  ASSUME NEW s \in Seq(Answer), NEW e \in Answer
  PROVE  /\ Append(s, e) \in Seq(Answer) /\ Len(Append(s, e)) = Len(s) + 1
         /\ s = <<>> => Head(Append(s, e)) = e
  BY AppendProperties

\* Channels with no message between them are empty.
LEMMA BothEmpty ==
  ASSUME NEW s \in Seq(Request), NEW t \in Seq(Answer), Len(s) + Len(t) = 0
  PROVE  s = <<>> /\ t = <<>>
  OBVIOUS

\* Write: the request goes to the end of what the TA is to take.
LEMMA WriteKeeps == ASSUME GatekeeperInv, Write PROVE GatekeeperInv'
<1>1. /\ UNCHANGED <<call, answer, status, fromTa, unread>> /\ pc = "write" /\ pc' = "read"
      /\ toTa' = Append(toTa, call)
  BY DEF Write
<1>2. /\ toTa \in Seq(Request) /\ fromTa \in Seq(Answer) /\ call \in Request /\ unread \in Nat
      /\ Len(toTa) + Len(fromTa) = unread
  BY <1>1 DEF GatekeeperInv, ChannelType, OnChannel
<1>3. /\ toTa' \in Seq(Request) /\ Len(toTa') = Len(toTa) + 1
      /\ toTa = <<>> => Head(toTa') = call
  BY <1>1, <1>2, RequestAppended, Zenon
<1>4. unread = 0 => toTa = <<>> /\ fromTa = <<>>
  <2> SUFFICES ASSUME unread = 0 PROVE toTa = <<>> /\ fromTa = <<>>
    OBVIOUS
  <2>1. Len(toTa) + Len(fromTa) = 0
    BY <1>2, Zenon
  <2> QED
    BY <1>2, <2>1, BothEmpty, Zenon
<1>5. ChannelType' /\ StatusInv'
  BY <1>1, <1>2, <1>3, Zenon DEF GatekeeperInv, ChannelType, StatusInv
<1>6. OnChannel'
  <2>1. Len(toTa) \in Nat /\ Len(fromTa) \in Nat
    BY <1>2
  <2>2. (Len(toTa) + 1) + Len(fromTa) = unread + 1
    BY <1>2, <2>1, MessageAdded, Zenon
  <2> QED
    BY <1>1, <1>3, <2>2, Zenon DEF OnChannel
<1>7. OwnAnswer'
  BY <1>1, <1>3, <1>4, Zenon DEF OwnAnswer
<1> QED
  BY <1>5, <1>6, <1>7, Zenon DEF GatekeeperInv

\* Read: one answer less; with nothing unread it is that of the call.
LEMMA ReadKeeps == ASSUME GatekeeperInv, Read PROVE GatekeeperInv'
<1>1. /\ UNCHANGED <<call, toTa, unread>> /\ pc = "read" /\ fromTa # <<>>
      /\ answer' = Head(fromTa) /\ fromTa' = Tail(fromTa)
      /\ \/ answer'.cmd = call.cmd /\ pc' = "returned"
         \/ pc' = "reply" /\ status' = "ERROR_GENERAL_FAILURE"
  BY Zenon DEF Read, Fails
<1>2. /\ toTa \in Seq(Request) /\ fromTa \in Seq(Answer) /\ call \in Request /\ unread \in Nat
      /\ Len(toTa) + Len(fromTa) = unread + 1
  BY <1>1, Zenon DEF GatekeeperInv, ChannelType, OnChannel
<1>3. Head(fromTa) \in Answer /\ Tail(fromTa) \in Seq(Answer) /\ Len(Tail(fromTa)) = Len(fromTa) - 1
  BY <1>1, <1>2, HeadTailProperties, Zenon
<1>4. unread = 0 => AnswerToCall(Head(fromTa))
  BY <1>1, Zenon DEF GatekeeperInv, OwnAnswer
<1>5. pc' = "returned" /\ unread' = 0 => AnswerToCall(answer)'
  BY <1>1, <1>4, Zenon DEF AnswerToCall
<1> QED
  BY <1>1, <1>2, <1>3, <1>5 DEF GatekeeperInv, ChannelType, OnChannel, OwnAnswer, StatusInv, Success

\* ReadFails: the answer is among those that are not waited for.
LEMMA ReadFailsKeeps == ASSUME GatekeeperInv, ReadFails PROVE GatekeeperInv'
<1>1. /\ UNCHANGED <<call, answer, toTa, fromTa>> /\ pc = "read" /\ unread' = unread + 1
      /\ pc' = "reply" /\ status' = "ERROR_GENERAL_FAILURE"
  BY Zenon DEF ReadFails, Fails
<1> QED
  BY <1>1 DEF GatekeeperInv, ChannelType, OnChannel, OwnAnswer, StatusInv, Success

\* Returns: the answer decides.
LEMMA ReturnsKeeps == ASSUME GatekeeperInv, Returns PROVE GatekeeperInv'
<1>1. /\ UNCHANGED <<call, answer, toTa, fromTa, unread>> /\ pc = "returned" /\ pc' = "reply"
      /\ status' \in Success => answer.error = "ERROR_NONE"
  BY Zenon DEF Returns, Success
<1>2. answer.cmd = call.cmd /\ (unread = 0 /\ status' \in Success => call.right)
  BY <1>1 DEF GatekeeperInv, StatusInv, OwnAnswer, AnswerToCall
<1> QED
  BY <1>1, <1>2, Zenon DEF GatekeeperInv, ChannelType, OnChannel, OwnAnswer, StatusInv

\* TaAnswers: the TA takes the oldest request, and answers it last.
LEMMA TaAnswersKeeps == ASSUME GatekeeperInv, TaAnswers PROVE GatekeeperInv'
<1>1. /\ UNCHANGED <<pc, call, status, answer, unread>> /\ toTa # <<>> /\ toTa' = Tail(toTa)
  BY Zenon DEF TaAnswers
<1>2. PICK e \in {"ERROR_NONE", "ERROR_INVALID", "ERROR_RETRY"}, again \in BOOLEAN :
        /\ e = "ERROR_NONE" => Head(toTa).right
        /\ fromTa' = Append(fromTa, [cmd |-> Head(toTa).cmd, error |-> e, reenroll |-> again])
  BY Zenon DEF TaAnswers
<1> DEFINE a == [cmd |-> Head(toTa).cmd, error |-> e, reenroll |-> again]
<1>3. toTa \in Seq(Request) /\ fromTa \in Seq(Answer) /\ unread \in Nat
  BY Zenon DEF GatekeeperInv, ChannelType
<1>4. Head(toTa) \in Request /\ Tail(toTa) \in Seq(Request) /\ Len(Tail(toTa)) = Len(toTa) - 1
  BY <1>1, <1>3, HeadTailProperties, Zenon
<1>5. a \in Answer
  BY <1>4, Zenon DEF Answer, Request
<1>10. a.cmd = Head(toTa).cmd /\ a.error = e /\ fromTa' = Append(fromTa, a)
  BY <1>2, Zenon
<1> HIDE DEF a
<1>6. /\ Append(fromTa, a) \in Seq(Answer) /\ Len(Append(fromTa, a)) = Len(fromTa) + 1
      /\ fromTa = <<>> => Head(Append(fromTa, a)) = a
  BY <1>3, <1>5, AnswerAppended, Zenon
<1>7. OnChannel'
  <2>1. Len(toTa) \in Nat /\ Len(fromTa) \in Nat
    BY <1>3
  <2>2. Len(toTa') + Len(fromTa') = Len(toTa) + Len(fromTa)
    BY <1>1, <1>10, <1>4, <1>6, <2>1, MessageMoves, Zenon
  <2> QED
    BY <1>1, <2>2, Zenon DEF GatekeeperInv, OnChannel
<1>8. OwnAnswer'
  <2> SUFFICES ASSUME unread = 0, pc = "read"
               PROVE  /\ toTa' = <<>>
                      /\ AnswerToCall(Head(fromTa'))
    BY <1>1, Zenon DEF GatekeeperInv, OwnAnswer, AnswerToCall
  <2>1. Len(toTa) = 1 /\ fromTa = <<>>
    <3>1. Len(toTa) + Len(fromTa) = 1
      BY DEF GatekeeperInv, OnChannel
    <3>2. Len(toTa) \in Nat /\ Len(toTa) # 0
      BY <1>1, <1>3, NotEmpty, Zenon
    <3>3. Len(fromTa) \in Nat
      BY <1>3
    <3>4. Len(toTa) = 1 /\ Len(fromTa) = 0
      BY <3>1, <3>2, <3>3, OneMessage, Zenon
    <3> QED
      BY <1>3, <3>4
  <2>2. toTa' = <<>>
    BY <1>1, <1>4, <2>1
  <2>3. Head(toTa) = call
    BY <1>1, Zenon DEF GatekeeperInv, OwnAnswer
  <2>4. Head(fromTa') = a /\ a.cmd = call.cmd /\ (a.error = "ERROR_NONE" => call.right)
    BY <1>2, <1>10, <1>6, <2>1, <2>3, Zenon
  <2> QED
    BY <2>2, <2>4, Zenon DEF AnswerToCall
<1>9. ChannelType' /\ StatusInv'
  BY <1>1, <1>10, <1>3, <1>4, <1>6, Zenon DEF GatekeeperInv, ChannelType, StatusInv
<1> QED
  BY <1>7, <1>8, <1>9, Zenon DEF GatekeeperInv

\* Restart: a connection of its own.
LEMMA RestartKeeps == ASSUME GatekeeperInv, Restart PROVE GatekeeperInv'
<1>1. /\ pc' = "start" /\ call' = NoCall /\ answer' = NoAnswer
      /\ toTa' = <<>> /\ fromTa' = <<>> /\ unread' = 0
  BY Zenon DEF Restart
<1>2. NoCall \in Request /\ NoAnswer \in Answer
  BY DEF NoCall, NoAnswer, Request, Answer, GK
<1> QED
  BY <1>1, <1>2 DEF GatekeeperInv, ChannelType, OnChannel, OwnAnswer, StatusInv

\* Every step keeps the invariant of the gatekeeper.
LEMMA GatekeeperNextKeeps == ASSUME GatekeeperInv, [Next]_vars PROVE GatekeeperInv'
<1>1. CASE UNCHANGED vars
  BY <1>1, Zenon DEF vars, GatekeeperInv, ChannelType, OnChannel, OwnAnswer, AnswerToCall, StatusInv
<1>2. CASE Next
  BY Zenon, <1>2, QuietKeeps, WriteKeeps, ReadKeeps, ReadFailsKeeps, ReturnsKeeps, TaAnswersKeeps,
     RestartKeeps DEF Next, Service
<1> QED
  BY <1>1, <1>2, Zenon

\* On a connection on which no read has failed, a verify that succeeds was
\* asked about the right password, whatever the TA and the thread do first;
\* only reads that failed leave answers behind, and a result is always one for
\* the command that was called.
THEOREM StepSafe == Spec => []AnswersInStep
<1>1. GatekeeperInv => AnswersInStep
  BY DEF GatekeeperInv, OnChannel, StatusInv, Success, AnswersInStep
<1>2. GatekeeperInv /\ [Next]_vars => GatekeeperInv'
  BY GatekeeperNextKeeps
<1> QED
  BY <1>1, <1>2, GatekeeperStarts, PTL DEF Spec

-----------------------------------------------------------------------------
(***************************************************************************)
(* LiteKmSetKey.                                                           *)
(***************************************************************************)
\* A record of the TA whose buffer alone changes.
LEMMA BufferOnly ==
  ASSUME NEW r, NEW d, NEW l, NEW b, NEW c, r = [decrypt |-> d, len |-> l, buf |-> b]
  PROVE  [r EXCEPT !.buf = c] = [decrypt |-> d, len |-> l, buf |-> c]
  BY SMT

Byte == Int \X Int

\* The commands are under way.
Sending == {"connect", "decrypt", "len", "buf", "set"}

InstallType ==
  /\ peakb \in Seq(Byte) /\ payload_offset \in 0 .. Len(peakb) /\ rc \in Int
  /\ installPc \in Sending \cup {"idle", "exit", "return"}

\* The TA has had as much of the keybox as the loop has sent.
Brought ==
  /\ ta.len = Len(peakb)
  /\ ta.buf \in Seq(Byte) /\ Len(ta.buf) = payload_offset
  /\ \A k \in 1 .. payload_offset : ta.buf[k] = peakb[k]

\* The inductive invariant of the installation.
InstallInv ==
  /\ InstallType
  /\ ta = [decrypt |-> ta.decrypt, len |-> ta.len, buf |-> ta.buf]
  /\ installPc \in Sending => rc = 0
  /\ installPc \in {"connect", "decrypt", "len"} => payload_offset = 0
  /\ installPc = "decrypt" => handle = 1 \/ late
  /\ installPc \in {"len", "buf", "set"} => ta.decrypt
  /\ installPc \in {"buf", "set"} => Brought
  /\ installPc = "set" => payload_offset = Len(peakb)
  /\ installPc \in {"exit", "return"} =>
       /\ rc = 0 => installed = peakb
       /\ ~late /\ peakb # <<>> => rc = 0

\* The keybox of a call is a sequence of bytes.
LEMMA KeyboxIs ==
  ASSUME NEW tag \in Int, NEW n \in Nat
  PROVE  Keybox(tag, n) \in Seq(Byte)
  BY DEF Keybox, Byte

\* The tag of a keybox is a number.
LEMMA TagIs == ASSUME peakb \in Seq(Byte) PROVE 1 - Tag(peakb) \in Int
<1>1. CASE peakb = <<>>
  BY <1>1 DEF Tag
<1>2. CASE peakb # <<>>
  <2>1. peakb[1] \in Byte
    BY <1>2
  <2>2. peakb[1][1] \in Int
    BY <2>1, Zenon DEF Byte
  <2> QED
    BY <1>2, <2>2 DEF Tag
<1> QED
  BY <1>1, <1>2

\* The tool and the TA at the start.
LEMMA InstallStarts == ASSUME LiteKmSetKeyAssumption, InstallInit PROVE InstallInv
<1>1. InstallType
  BY DEF InstallInit, InstallType, Sending
<1> QED
  BY <1>1, Zenon DEF InstallInit, InstallInv, Fresh, Sending

\* Install: a call begins with a keybox of its own.
LEMMA InstallKeeps == ASSUME LiteKmSetKeyAssumption, InstallInv, Install PROVE InstallInv'
<1>1. PICK n \in 0 .. MaxKey : peakb' = Keybox(1 - Tag(peakb), n)
  BY Zenon DEF Install
<1>2. peakb' \in Seq(Byte)
  BY <1>1, KeyboxIs, TagIs DEF InstallInv, InstallType, LiteKmSetKeyAssumption
<1>3. UNCHANGED ta /\ payload_offset' = 0 /\ rc' = 0 /\ late' = FALSE /\ installPc' = "connect"
  BY Zenon DEF Install
<1>4. payload_offset' \in 0 .. Len(peakb')
  BY <1>2, <1>3
<1>5. InstallType'
  BY <1>2, <1>3, <1>4 DEF InstallType, Sending
<1> QED
  BY <1>3, <1>5, Zenon DEF InstallInv, Sending

\* The steps before the keybox is sent.
LEMMA ConnectKeeps ==
  ASSUME LiteKmSetKeyAssumption, InstallInv, kmsetkey_connect PROVE InstallInv'
<1>1. handle' = (IF zeroFree THEN 0 ELSE 1) /\ late' = zeroFree => handle' = 1 \/ late'
  <2>1. CASE zeroFree
    BY <2>1, Zenon
  <2>2. CASE ~zeroFree
    BY <2>2, Zenon
  <2> QED
    BY <2>1, <2>2, Zenon
<1>2. /\ UNCHANGED <<peakb, payload_offset, ta, installed>> /\ installPc = "connect"
      /\ \/ installPc' = "decrypt" /\ UNCHANGED rc /\ (handle' = 1 \/ late')
         \/ installPc' = "return" /\ rc' = -1 /\ late'
  BY <1>1, Zenon DEF kmsetkey_connect, InstallFault
<1> QED
  BY <1>2 DEF InstallInv, InstallType, Sending

\* What a command that fails, and was not refused, leaves behind.
LEMMA FailureKeeps ==
  ASSUME InstallInv, installPc \in Sending, UNCHANGED <<peakb, payload_offset>>,
         CallFails, late',
         ta' = [decrypt |-> ta'.decrypt, len |-> ta'.len, buf |-> ta'.buf]
  PROVE  InstallInv'
<1>1. InstallType'
  BY DEF InstallInv, InstallType, CallFails
<1> QED
  BY <1>1 DEF InstallInv, CallFails, Sending

\* decrypt_key_install: the TA has been told what comes, or the call has
\* failed.
LEMMA DecryptKeeps ==
  ASSUME LiteKmSetKeyAssumption, InstallInv, decrypt_key_install PROVE InstallInv'
<1>1. UNCHANGED <<peakb, payload_offset, installed>> /\ installPc = "decrypt"
  BY DEF decrypt_key_install
<1>2. ta' = [decrypt |-> ta'.decrypt, len |-> ta'.len, buf |-> ta'.buf]
  BY Zenon DEF decrypt_key_install, InstallInv
<1>3. CASE CallFails /\ late'
  BY <1>1, <1>2, <1>3, FailureKeeps DEF Sending
<1>4. CASE ta' = [ta EXCEPT !.decrypt = TRUE] /\ installPc' = "len" /\ rc' = 0
  <2>1. ta'.decrypt
    BY <1>4 DEF InstallInv
  <2> QED
    BY <1>1, <1>2, <1>4, <2>1, Zenon DEF InstallInv, InstallType, Sending
<1>5. CASE handle <= 0 /\ UNCHANGED late /\ CallFails
  <2>1. late
    BY <1>1, <1>5 DEF InstallInv
  <2> QED
    BY <1>3, <1>5, <2>1, Zenon
<1> QED
  BY <1>3, <1>4, <1>5, Zenon DEF decrypt_key_install, Answered, InstallFault, NoInstallFault

\* The length: the TA has it with an empty buffer, or the call has failed.
LEMMA SendLenKeeps == ASSUME LiteKmSetKeyAssumption, InstallInv, SendLen PROVE InstallInv'
<1>1. UNCHANGED <<peakb, payload_offset, installed>> /\ installPc = "len"
  BY DEF SendLen
<1>2. ta' = [decrypt |-> ta'.decrypt, len |-> ta'.len, buf |-> ta'.buf]
  BY Zenon DEF SendLen, InstallInv
<1>3. CASE CallFails /\ late'
  BY <1>1, <1>2, <1>3, FailureKeeps DEF Sending
<1>4. CASE /\ ta' = [ta EXCEPT !.len = Len(peakb), !.buf = <<>>]
           /\ installPc' = "buf" /\ rc' = 0
  <2>1. ta'.decrypt /\ ta'.len = Len(peakb) /\ ta'.buf = <<>>
    BY <1>1, <1>4, Zenon DEF InstallInv
  <2>2. Brought'
    BY <1>1, <2>1 DEF InstallInv, Brought
  <2> QED
    BY <1>1, <1>2, <1>4, <2>1, <2>2, Zenon DEF InstallInv, InstallType, Sending
<1> QED
  BY <1>3, <1>4, Zenon DEF SendLen, Answered, InstallFault

\* What one message carries.
LEMMA MessageIs ==
  ASSUME LiteKmSetKeyAssumption, InstallType, payload_offset < Len(peakb)
  PROVE  LET m == SubSeq(peakb, payload_offset + 1, payload_offset + PayloadLen) IN
           /\ PayloadLen \in Nat /\ payload_offset + PayloadLen <= Len(peakb)
           /\ m \in Seq(Byte) /\ Len(m) = PayloadLen
           /\ \A k \in 1 .. PayloadLen : m[k] = peakb[payload_offset + k]
<1>1. /\ PayloadLen \in Nat /\ payload_offset + PayloadLen <= Len(peakb)
      /\ payload_offset \in Nat /\ Len(peakb) \in Nat
  BY DEF PayloadLen, Rest, LiteKmSetKeyAssumption, InstallType
<1>2. \A k \in payload_offset + 1 .. payload_offset + PayloadLen : peakb[k] \in Byte
  BY <1>1 DEF InstallType
<1> QED
  BY <1>1, <1>2, SubSeqProperties

\* SendBuf: the TA has had that much more, and knows as well as the tool when
\* it has had all.
LEMMA SendBufKeeps == ASSUME LiteKmSetKeyAssumption, InstallInv, SendBuf PROVE InstallInv'
<1> DEFINE m == SubSeq(peakb, payload_offset + 1, payload_offset + PayloadLen)
           t == [ta EXCEPT !.buf = @ \o m]
<1>1. /\ UNCHANGED <<peakb, installed>> /\ installPc = "buf" /\ payload_offset < Len(peakb)
      /\ InstallType /\ Brought /\ ta.decrypt
  BY DEF SendBuf, InstallInv, Sending
<1>2. /\ PayloadLen \in Nat /\ payload_offset + PayloadLen <= Len(peakb)
      /\ m \in Seq(Byte) /\ Len(m) = PayloadLen
      /\ \A k \in 1 .. PayloadLen : m[k] = peakb[payload_offset + k]
  BY <1>1, MessageIs, Zenon
<1> HIDE DEF m
<1>3. /\ t = [decrypt |-> ta.decrypt, len |-> ta.len, buf |-> ta.buf \o m]
      /\ t.decrypt /\ t.len = Len(peakb) /\ t.buf = ta.buf \o m
  <2>1. PICK d, l, b : ta = [decrypt |-> d, len |-> l, buf |-> b]
    BY Zenon DEF InstallInv
  <2>2. d = ta.decrypt /\ l = ta.len
    BY <2>1, Zenon
  <2>3. t = [decrypt |-> d, len |-> l, buf |-> ta.buf \o m]
    <3> DEFINE c == ta.buf \o m
    <3>1. t = [ta EXCEPT !.buf = c]
      OBVIOUS
    <3> HIDE DEF c
    <3>2. [ta EXCEPT !.buf = c] = [decrypt |-> d, len |-> l, buf |-> c]
      BY <2>1, BufferOnly, SMT
    <3> QED
      BY <3>1, <3>2, Zenon DEF c
  <2> QED
    BY <1>1, <2>2, <2>3, Zenon DEF Brought
<1> HIDE DEF t
<1>4. /\ ta.buf \o m \in Seq(Byte) /\ Len(ta.buf \o m) = payload_offset + PayloadLen
      /\ \A k \in 1 .. payload_offset + PayloadLen : (ta.buf \o m)[k] = peakb[k]
  <2> DEFINE b == ta.buf
  <2>1. /\ peakb \in Seq(Byte) /\ b \in Seq(Byte) /\ Len(b) = payload_offset
        /\ \A k \in 1 .. Len(b) : b[k] = peakb[k]
    BY <1>1 DEF InstallType, Brought
  <2> HIDE DEF b
  <2>2. /\ Len(b) + Len(m) <= Len(peakb)
        /\ \A k \in 1 .. Len(m) : m[k] = peakb[Len(b) + k]
    BY <1>2, <2>1
  <2>3. /\ b \o m \in Seq(Byte) /\ Len(b \o m) = Len(b) + Len(m)
        /\ \A k \in 1 .. Len(b) + Len(m) : (b \o m)[k] = peakb[k]
    <3>1. /\ b \o m \in Seq(Byte) /\ Len(b \o m) = Len(b) + Len(m)
          /\ \A k \in 1 .. Len(b) + Len(m) :
               (b \o m)[k] = IF k <= Len(b) THEN b[k] ELSE m[k - Len(b)]
      BY <1>2, <2>1, ConcatProperties, Zenon
    <3>2. ASSUME NEW k \in 1 .. Len(b) + Len(m) PROVE (b \o m)[k] = peakb[k]
      <4>1. CASE k <= Len(b)
        BY <2>1, <3>1, <4>1
      <4>2. CASE ~(k <= Len(b))
        <5>1. k - Len(b) \in 1 .. Len(m) /\ Len(b) + (k - Len(b)) = k
          BY <1>2, <2>1, <4>2
        <5>2. (b \o m)[k] = m[k - Len(b)]
          BY <3>1, <4>2, Zenon
        <5> QED
          BY <2>2, <5>1, <5>2
      <4> QED
        BY <4>1, <4>2
    <3> QED
      BY <3>1, <3>2, Zenon
  <2>4. /\ b \o m \in Seq(Byte) /\ Len(b \o m) = payload_offset + PayloadLen
        /\ \A k \in 1 .. payload_offset + PayloadLen : (b \o m)[k] = peakb[k]
    BY <1>2, <2>1, <2>3, Zenon
  <2> QED
    BY <2>4 DEF b
<1>5. CASE CallFails /\ late' /\ UNCHANGED payload_offset /\ ta' \in {ta, t}
  <2>1. ta' = [decrypt |-> ta'.decrypt, len |-> ta'.len, buf |-> ta'.buf]
    BY <1>3, <1>5, Zenon DEF InstallInv
  <2> QED
    BY <1>1, <1>5, <2>1, FailureKeeps, Zenon DEF Sending
<1>6. CASE /\ ta' = t /\ Answered(Len(t.buf) >= t.len, Finish, "buf")
           /\ payload_offset' = payload_offset + PayloadLen
  <2>1. (Len(t.buf) >= t.len) <=> Finish
    <3>1. Len(t.buf) = payload_offset + PayloadLen /\ t.len = Len(peakb)
      BY <1>3, <1>4, Zenon
    <3> QED
      BY <1>1, <1>2, <3>1 DEF Finish, InstallType
  <2>2. installPc' = "buf" /\ rc' = 0
    BY <1>6, <2>1, Zenon DEF Answered
  <2>3. Brought'
    BY <1>1, <1>3, <1>4, <1>6, Zenon DEF Brought
  <2>4. InstallType'
    BY <1>1, <1>2, <1>6, <2>2 DEF InstallType, Sending
  <2>5. ta' = [decrypt |-> ta'.decrypt, len |-> ta'.len, buf |-> ta'.buf] /\ ta'.decrypt
    BY <1>3, <1>6, Zenon
  <2> QED
    BY <2>2, <2>3, <2>4, <2>5, Zenon DEF InstallInv
<1> QED
  BY <1>5, <1>6, Zenon DEF SendBuf, InstallFault, m, t
\* After the last message the TA has the whole keybox.
LEMMA EndOfLoopKeeps == ASSUME LiteKmSetKeyAssumption, InstallInv, EndOfLoop PROVE InstallInv'
<1>1. /\ UNCHANGED <<peakb, payload_offset, rc, late, ta, installed>>
      /\ installPc = "buf" /\ installPc' = "set" /\ ~(payload_offset < Len(peakb))
  BY Zenon DEF EndOfLoop, NoInstallFault
<1>2. payload_offset = Len(peakb)
  BY <1>1 DEF InstallInv, InstallType
<1>3. Brought'
  BY <1>1, Zenon DEF InstallInv, Brought
<1> QED
  BY <1>1, <1>2, <1>3, Zenon DEF InstallInv, InstallType, Sending

\* SetKey: what the TA sets is the keybox, and only one without bytes is refused.
LEMMA SetKeyKeeps == ASSUME LiteKmSetKeyAssumption, InstallInv, SetKey PROVE InstallInv'
<1> DEFINE ok == ta.decrypt /\ ta.len > 0 /\ Len(ta.buf) = ta.len
<1>1. /\ UNCHANGED <<peakb, payload_offset, ta>> /\ installPc = "set"
      /\ InstallType /\ Brought /\ ta.decrypt /\ payload_offset = Len(peakb)
      /\ ta = [decrypt |-> ta.decrypt, len |-> ta.len, buf |-> ta.buf]
  BY DEF SetKey, InstallInv
<1>2. ta.buf = peakb
  <2> DEFINE b == ta.buf
  <2>1. /\ peakb \in Seq(Byte) /\ b \in Seq(Byte) /\ Len(b) = Len(peakb)
        /\ \A k \in 1 .. Len(b) : b[k] = peakb[k]
    BY <1>1 DEF InstallType, Brought
  <2> HIDE DEF b
  <2>2. b = peakb
    BY <2>1, SeqEqual
  <2> QED
    BY <2>2 DEF b
<1>3. ok \/ peakb = <<>>
  BY <1>1, <1>2 DEF Brought, InstallType
<1> HIDE DEF ok
<1>4. CASE CallFails /\ late'
  BY <1>1, <1>4, FailureKeeps, Zenon DEF Sending
<1>5. CASE ok /\ installed' = ta.buf /\ installPc' = "exit" /\ rc' = 0
  BY <1>1, <1>2, <1>5, Zenon DEF InstallInv, InstallType, Sending
<1>6. CASE ~ok /\ CallFails
  BY <1>1, <1>3, <1>6 DEF InstallInv, InstallType, Sending, CallFails
<1> QED
  BY <1>4, <1>5, <1>6, Zenon DEF SetKey, Answered, InstallFault, ok

\* The way out.
LEMMA LeaveKeeps ==
  ASSUME LiteKmSetKeyAssumption, InstallInv, kmsetkey_disconnect \/ Return PROVE InstallInv'
<1>1. /\ UNCHANGED <<peakb, payload_offset, rc, late, installed>> /\ ta' \in {ta, Fresh}
      /\ \/ installPc = "exit" /\ installPc' = "return"
         \/ installPc' = "idle"
  BY Zenon DEF kmsetkey_disconnect, Return, NoInstallFault
<1>2. ta' = [decrypt |-> ta'.decrypt, len |-> ta'.len, buf |-> ta'.buf]
  BY <1>1, Zenon DEF InstallInv, Fresh
<1> QED
  BY <1>1, <1>2, Zenon DEF InstallInv, InstallType, Sending

\* Every step keeps the invariant of the installation.
LEMMA InstallNextKeeps ==
  ASSUME LiteKmSetKeyAssumption, InstallInv, [InstallNext]_installVars PROVE InstallInv'
<1>1. CASE UNCHANGED installVars
  BY <1>1, Zenon DEF installVars, InstallInv, InstallType, Brought
<1>2. CASE InstallNext
  BY Zenon, <1>2, InstallKeeps, ConnectKeeps, DecryptKeeps, SendLenKeeps, SendBufKeeps,
     EndOfLoopKeeps, SetKeyKeeps, LeaveKeeps DEF InstallNext, attest_key_install
<1> QED
  BY <1>1, <1>2

\* attest_key_install reports a keybox as installed only if it is, whole and of
\* this call, and fails only if something does or the connection is descriptor
\* 0: for every length of keybox and of message.
THEOREM InstallSafe == LiteKmSetKeyAssumption => (InstallSpec => []InstalledIsWhole)
<1> SUFFICES ASSUME LiteKmSetKeyAssumption PROVE InstallSpec => []InstalledIsWhole
  OBVIOUS
<1>1. InstallInit => InstallInv
  BY InstallStarts
<1>2. InstallInv /\ [InstallNext]_installVars => InstallInv'
  BY InstallNextKeeps
<1>3. InstallInv => InstalledIsWhole
  BY Zenon DEF InstallInv, InstalledIsWhole
<1> QED
  BY <1>1, <1>2, <1>3, PTL DEF InstallSpec

=============================================================================
