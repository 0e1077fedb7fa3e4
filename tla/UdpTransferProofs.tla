-------------------------- MODULE UdpTransferProofs --------------------------
(***************************************************************************)
(* Theorems about UdpTransfer, for any clients, files, buffer and faults:  *)
(* type correctness, what a report holds where the clients are run one at  *)
(* a time, and, where they are finitely many, that every chunk is in       *)
(* exactly one place.                                                      *)
(***************************************************************************)
EXTENDS UdpTransfer, FiniteSetTheorems, FunctionTheorems, TLAPS

USE BlocksAssumption, BufferAssumption

\* The chunks of the clients C in a buffer, by their places.
Places(q, C) == {i \in 1..Len(q) : q[i].client \in C /\ ~q[i].end}
InBuffer(c) == Cardinality(Places(buffer, {c}))

\* The server has counted a chunk of c, or has one to count before place i; and one may
\* still come to it after place i.
Before(c, i) == share[c] > 0 \/ \E j \in 1..i - 1 : buffer[j].client = c
After(c, i) == pc[c] = "send" \/ \E j \in i + 1..Len(buffer) : buffer[j].client = c

\* The end of c is still to be received.
EndInBuffer(c) == \E i \in 1..Len(buffer) : buffer[i].client = c /\ buffer[i].end
Absent(c) == \A i \in 1..Len(buffer) : buffer[i].client # c

\* Run one at a time, the datagrams of a client come one after the other: what is of
\* another client is before all of them or after all of them.
Contiguous ==
  \A c \in Clients : \A i \in 1..Len(buffer) :
    buffer[i].client # c => ~(Before(c, i) /\ After(c, i))

OneSends == \A c, d \in Clients : pc[c] = "send" /\ pc[d] = "send" => c = d

\* A client that has not started has sent nothing, and an end is the last of a client
\* that returned.
Ordered ==
  /\ \A c \in Clients : pc[c] = "idle" =>
       sent[c] = 0 /\ dropped[c] = 0 /\ share[c] = 0 /\ Absent(c) /\ c \notin endLost
  /\ \A i \in 1..Len(buffer) : buffer[i].end =>
       /\ pc[buffer[i].client] = "ok"
       /\ \A j \in i + 1..Len(buffer) : buffer[j].client # buffer[i].client
  /\ \A c \in Clients : pc[c] = "ok" /\ c \notin endLost /\ ~EndInBuffer(c) =>
       share[c] = 0 /\ Absent(c)

\* What may still be reported of a client is all that was not dropped.
Complete ==
  \A c \in Clients : pc[c] \in {"idle", "send"} \/ EndInBuffer(c) =>
    share[c] + InBuffer(c) + dropped[c] = sent[c]

Reports ==
  \A c \in Clients : Reported(c) =>
    /\ pc[c] = "ok" /\ ~EndInBuffer(c)
    /\ report[c][c] + dropped[c] = sent[c]
    /\ \A d \in Clients \ {c} : report[c][d] > 0 => pc[d] = "aborted" \/ d \in endLost

InTurn == OneSends /\ Contiguous /\ Ordered /\ Complete /\ Reports
Typed ==
  TypeOK /\ sent \in [Clients -> Nat] /\ report \in [Clients -> {None} \cup [Clients -> Nat]]
IInv == Typed /\ (harness => InTurn)

-----------------------------------------------------------------------------
Datagram == [client : Clients, end : BOOLEAN]

\* The places of a buffer are finitely many.
LEMMA PlacesFinite ==
  ASSUME NEW S, NEW q \in Seq(S), NEW C
  PROVE  /\ IsFiniteSet(Places(q, C)) /\ Cardinality(Places(q, C)) \in Nat
         /\ Places(q, C) \subseteq 1..Len(q)
<1>1. IsFiniteSet(1..Len(q)) /\ Places(q, C) \subseteq 1..Len(q)
  BY FS_Interval DEF Places
<1>2. QED
  BY <1>1, FS_Subset, FS_CardinalityType

\* What is left of a buffer when its first datagram is taken.
LEMMA Popped ==
  ASSUME NEW S, NEW q \in Seq(S), q # <<>>
  PROVE  /\ Head(q) = q[1] /\ Head(q) \in S /\ Tail(q) \in Seq(S)
         /\ Len(q) \in Nat \ {0} /\ Len(Tail(q)) = Len(q) - 1
         /\ \A i \in 1..Len(q) - 1 : Tail(q)[i] = q[i + 1]
OBVIOUS

\* A datagram that is added is counted if it is a chunk of one of C.
LEMMA AppendPlaces ==
  ASSUME NEW S, NEW q \in Seq(S), NEW d \in S, NEW C
  PROVE  Cardinality(Places(Append(q, d), C)) =
           Cardinality(Places(q, C)) + IF d.client \in C /\ ~d.end THEN 1 ELSE 0
<1>1. /\ Len(Append(q, d)) = Len(q) + 1 /\ Len(q) \in Nat /\ Append(q, d)[Len(q) + 1] = d
      /\ \A i \in 1..Len(q) : Append(q, d)[i] = q[i]
  OBVIOUS
<1>2. CASE d.client \in C /\ ~d.end
  <2>1. Places(Append(q, d), C) = Places(q, C) \cup {Len(q) + 1} /\ Len(q) + 1 \notin Places(q, C)
    BY <1>1, <1>2 DEF Places
  <2>2. QED
    BY <1>2, <2>1, PlacesFinite, FS_AddElement
<1>3. CASE ~(d.client \in C /\ ~d.end)
  <2>1. Places(Append(q, d), C) = Places(q, C)
    BY <1>1, <1>3 DEF Places
  <2>2. QED
    BY <1>3, <2>1, PlacesFinite
<1>4. QED
  BY <1>2, <1>3

\* And so is one that is taken from the front.
LEMMA TailPlaces ==
  ASSUME NEW S, NEW q \in Seq(S), q # <<>>, NEW C
  PROVE  Cardinality(Places(q, C)) =
           Cardinality(Places(Tail(q), C)) + IF Head(q).client \in C /\ ~Head(q).end THEN 1 ELSE 0
<1> DEFINE P == Places(Tail(q), C)
           R == Places(q, C) \ {1}
           shift == [i \in P |-> i + 1]
<1>1. /\ Tail(q) \in Seq(S) /\ Len(Tail(q)) = Len(q) - 1 /\ Len(q) \in Nat \ {0} /\ Head(q) = q[1]
      /\ \A i \in 1..Len(q) - 1 : Tail(q)[i] = q[i + 1]
  OBVIOUS
<1>2. IsFiniteSet(P) /\ Cardinality(P) \in Nat /\ P \subseteq 1..Len(q) - 1
  BY <1>1, PlacesFinite
<1>3. shift \in Bijection(P, R)
  <2>1. shift \in [P -> R]
    <3>1. \A i \in P : i + 1 \in R
      BY <1>1, <1>2 DEF Places
    <3>2. QED
      BY <3>1
  <2>2. \A a, b \in P : shift[a] = shift[b] => a = b
    BY <1>2
  <2>3. ASSUME NEW r \in R PROVE \E i \in P : shift[i] = r
    <3>1. r \in 2..Len(q) /\ q[r].client \in C /\ ~q[r].end
      BY <1>1 DEF Places
    <3>2. r - 1 \in P
      BY <3>1, <1>1 DEF Places
    <3>3. shift[r - 1] = r
      BY <3>1, <3>2
    <3>4. QED
      BY <3>2, <3>3
  <2>4. QED
    BY <2>1, <2>2, <2>3, Fun_IsBij
<1>4. IsFiniteSet(R) /\ Cardinality(R) = Cardinality(P)
  <2>1. ExistsBijection(P, R)
    BY <1>3 DEF ExistsBijection
  <2>2. QED
    BY <2>1, <1>2, FS_Bijection
<1>5. CASE Head(q).client \in C /\ ~Head(q).end
  <2>1. 1 \in Places(q, C)
    BY <1>1, <1>5 DEF Places
  <2>2. Cardinality(R) = Cardinality(Places(q, C)) - 1
    BY <2>1, PlacesFinite, FS_RemoveElement
  <2>3. QED
    BY <2>2, <1>4, <1>5, PlacesFinite
<1>6. CASE ~(Head(q).client \in C /\ ~Head(q).end)
  <2>1. R = Places(q, C)
    BY <1>1, <1>6 DEF Places
  <2>2. Cardinality(Places(q, C)) = Cardinality(P)
    BY <2>1, <1>4
  <2>3. (IF Head(q).client \in C /\ ~Head(q).end THEN 1 ELSE 0) = 0
    BY <1>6, Zenon
  <2>4. QED
    BY <2>2, <2>3, <1>2
<1>7. QED
  BY <1>5, <1>6

-----------------------------------------------------------------------------
\* Every step keeps the types.
LEMMA TypedStep == Typed /\ [Next]_vars => Typed'
<1> SUFFICES ASSUME Typed, [Next]_vars PROVE Typed'
  OBVIOUS
<1> USE DEF Typed, TypeOK
<1>1. ASSUME NEW c \in Clients, NEW e \in BOOLEAN, Fits,
             buffer' = Append(buffer, [client |-> c, end |-> e])
      PROVE  buffer' \in Seq(Datagram) /\ Len(buffer') <= BufferLimit
  BY <1>1 DEF Fits, Datagram
<1>2. buffer # <<>> =>
        /\ Tail(buffer) \in Seq(Datagram) /\ Len(Tail(buffer)) <= BufferLimit
        /\ Head(buffer) \in Datagram
  <2>1. buffer \in Seq(Datagram) /\ Len(buffer) <= BufferLimit
    BY DEF Datagram
  <2>2. QED
    BY <2>1, Popped
<1>3. ASSUME NEW c \in Clients, Start(c) \/ Abort(c) PROVE Typed'
  BY <1>3 DEF Start, Abort, serverVars
<1>4. ASSUME NEW c \in Clients, Send(c) PROVE Typed'
  <2>1. buffer' \in Seq(Datagram) /\ Len(buffer') <= BufferLimit
    BY <1>1, <1>4 DEF Send, Datagram
  <2>2. dropped' \in [Clients -> Nat] /\ DOMAIN sent' = Clients
        /\ \A d \in Clients : sent'[d] \in 0..Blocks[d]
    <3>1. sent[c] < Blocks[c] /\ sent' = [sent EXCEPT ![c] = @ + 1] /\ Blocks[c] \in Nat
      BY <1>4 DEF Send
    <3>2. \A d \in Clients : sent'[d] = IF d = c THEN sent[c] + 1 ELSE sent[d]
      BY <3>1
    <3>3. dropped' = dropped \/ dropped' = [dropped EXCEPT ![c] = @ + 1]
      BY <1>4, Zenon DEF Send
    <3>4. dropped' \in [Clients -> Nat]
      <4>1. dropped \in [Clients -> Nat] /\ dropped[c] + 1 \in Nat
        OBVIOUS
      <4> HIDE DEF Typed, TypeOK
      <4>2. QED
        BY <3>3, <4>1
    <3>5. DOMAIN sent' = Clients
      BY <3>1
    <3>6. sent[c] + 1 \in 0..Blocks[c]
      BY <3>1
    <3>7. QED
      BY <3>2, <3>4, <3>5, <3>6
  <2>3. QED
    BY SMTT(60), <2>1, <2>2, <1>4 DEF Send, serverVars, Datagram
<1>5. ASSUME NEW c \in Clients, Finish(c) PROVE Typed'
  <2>1. buffer' \in Seq(Datagram) /\ Len(buffer') <= BufferLimit
    BY <1>1, <1>5 DEF Finish, Datagram
  <2>2. QED
    BY <2>1, <1>5 DEF Finish, serverVars, Datagram
<1>6. CASE ReceivePayload
  BY SMTT(60), <1>2, <1>6 DEF ReceivePayload, Count, clientVars, Datagram
<1>7. CASE ReceiveEnd
  <2>1. NoShare \in [Clients -> Nat] /\ Head(buffer).client \in Clients
    BY <1>2, <1>7 DEF NoShare, ReceiveEnd, Datagram
  <2>2. QED
    BY <2>1, <1>2, <1>7 DEF ReceiveEnd, PrintAndReset, clientVars, Datagram
<1>8. CASE ServerStops \/ UNCHANGED vars
  BY <1>8 DEF ServerStops, vars, clientVars, serverVars
<1>9. QED
  BY <1>3, <1>4, <1>5, <1>6, <1>7, <1>8 DEF Next, ClientStep, ServerStep

-----------------------------------------------------------------------------
\* The buffer and its history stay, and so do the shares: the order of what is in it is
\* a matter of who still sends.
LEMMA SameBuffer ==
  ASSUME UNCHANGED <<buffer, share>>
  PROVE  /\ \A c : /\ EndInBuffer(c)' <=> EndInBuffer(c)
                   /\ Absent(c)' <=> Absent(c)
                   /\ InBuffer(c)' = InBuffer(c)
         /\ \A c, i : Before(c, i)' <=> Before(c, i)
<1>1. \A c : (EndInBuffer(c)' <=> EndInBuffer(c)) /\ (Absent(c)' <=> Absent(c))
  BY DEF EndInBuffer, Absent
<1>2. \A c : InBuffer(c)' = InBuffer(c)
  BY DEF InBuffer, Places
<1>3. \A c, i : Before(c, i)' <=> Before(c, i)
  BY DEF Before
<1>4. QED
  BY <1>1, <1>2, <1>3

\* What a datagram of c that is added to the buffer changes.
LEMMA Added ==
  ASSUME Typed, NEW c \in Clients, NEW e \in BOOLEAN, share' = share,
         buffer' = Append(buffer, [client |-> c, end |-> e])
  PROVE  /\ Len(buffer') = Len(buffer) + 1 /\ buffer'[Len(buffer) + 1] = [client |-> c, end |-> e]
         /\ \A i \in 1..Len(buffer) : buffer'[i] = buffer[i]
         /\ \A d : EndInBuffer(d)' <=> EndInBuffer(d) \/ (d = c /\ e)
         /\ \A d : Absent(d) /\ d # c => Absent(d)'
         /\ \A d \in Clients :
              InBuffer(d)' = InBuffer(d) + IF d = c /\ ~e THEN 1 ELSE 0
         /\ \A d : \A i \in 1..Len(buffer) : Before(d, i)' <=> Before(d, i)
<1>1. buffer \in Seq(Datagram) /\ [client |-> c, end |-> e] \in Datagram
  BY DEF Typed, TypeOK, Datagram
<1>2. /\ Len(buffer') = Len(buffer) + 1 /\ Len(buffer) \in Nat
      /\ buffer'[Len(buffer) + 1] = [client |-> c, end |-> e]
      /\ \A i \in 1..Len(buffer) : buffer'[i] = buffer[i]
  BY <1>1
<1>3. \A d : EndInBuffer(d)' <=> EndInBuffer(d) \/ (d = c /\ e)
  BY <1>2 DEF EndInBuffer
<1>4. \A d : Absent(d) /\ d # c => Absent(d)'
  BY <1>2 DEF Absent
<1>5. ASSUME NEW d \in Clients
      PROVE  InBuffer(d)' = InBuffer(d) + IF d = c /\ ~e THEN 1 ELSE 0
  <2>1. Cardinality(Places(Append(buffer, [client |-> c, end |-> e]), {d})) =
          Cardinality(Places(buffer, {d})) + IF c \in {d} /\ ~e THEN 1 ELSE 0
    BY <1>1, AppendPlaces
  <2>2. QED
    BY <2>1 DEF InBuffer, Places
<1>6. \A d : \A i \in 1..Len(buffer) : Before(d, i)' <=> Before(d, i)
  BY <1>2 DEF Before
<1>7. QED
  BY <1>2, <1>3, <1>4, <1>5, <1>6

\* What the server takes out of the buffer by receiving its first datagram.
LEMMA Taken ==
  ASSUME Typed, buffer # <<>>, buffer' = Tail(buffer)
  PROVE  /\ Len(buffer) \in Nat \ {0} /\ Len(buffer') = Len(buffer) - 1
         /\ Head(buffer) = buffer[1] /\ Head(buffer) \in Datagram
         /\ \A i \in 1..Len(buffer) - 1 : buffer'[i] = buffer[i + 1]
         /\ \A d : EndInBuffer(d) =>
               EndInBuffer(d)' \/ (d = Head(buffer).client /\ Head(buffer).end)
         /\ \A d : EndInBuffer(d)' =>
               \E j \in 2..Len(buffer) : buffer[j].client = d /\ buffer[j].end
         /\ \A d : Absent(d) => Absent(d)'
         /\ \A d \in Clients :
              InBuffer(d) = InBuffer(d)' + IF d = Head(buffer).client /\ ~Head(buffer).end
                                           THEN 1 ELSE 0
         /\ \A d \in Clients : InBuffer(d)' \in Nat
<1>1. buffer \in Seq(Datagram)
  BY DEF Typed, TypeOK, Datagram
<1>2. /\ Len(buffer) \in Nat \ {0} /\ Len(buffer') = Len(buffer) - 1
      /\ Head(buffer) = buffer[1] /\ Head(buffer) \in Datagram
      /\ \A i \in 1..Len(buffer) - 1 : buffer'[i] = buffer[i + 1]
  BY <1>1, Popped
<1>3. ASSUME NEW j \in 2..Len(buffer) PROVE j - 1 \in 1..Len(buffer') /\ buffer'[j - 1] = buffer[j]
  BY <1>2
<1>4. ASSUME NEW d, EndInBuffer(d)
      PROVE  EndInBuffer(d)' \/ (d = Head(buffer).client /\ Head(buffer).end)
  <2>1. PICK i \in 1..Len(buffer) : buffer[i].client = d /\ buffer[i].end
    BY <1>4 DEF EndInBuffer
  <2>2. CASE i = 1
    BY <1>2, <2>1, <2>2
  <2>3. CASE i # 1
    <3>1. i \in 2..Len(buffer)
      BY <1>2, <2>1, <2>3
    <3>2. EndInBuffer(d)'
      BY <1>3, <2>1, <3>1 DEF EndInBuffer
    <3>3. QED
      BY <3>2
  <2>4. QED
    BY <2>2, <2>3
<1>5. \A d : EndInBuffer(d)' => \E j \in 2..Len(buffer) : buffer[j].client = d /\ buffer[j].end
  <2>1. \A i \in 1..Len(buffer') : i + 1 \in 2..Len(buffer) /\ buffer[i + 1] = buffer'[i]
    BY <1>2
  <2>2. QED
    BY <2>1 DEF EndInBuffer
<1>6. \A d : Absent(d) => Absent(d)'
  BY <1>2 DEF Absent
<1>7. ASSUME NEW d \in Clients
      PROVE  InBuffer(d) = InBuffer(d)' + IF d = Head(buffer).client /\ ~Head(buffer).end
                                          THEN 1 ELSE 0
  <2>1. Cardinality(Places(buffer, {d})) =
          Cardinality(Places(Tail(buffer), {d}))
            + IF Head(buffer).client \in {d} /\ ~Head(buffer).end THEN 1 ELSE 0
    BY <1>1, TailPlaces
  <2>2. InBuffer(d)' = Cardinality(Places(Tail(buffer), {d}))
    BY DEF InBuffer, Places
  <2>3. QED
    BY <2>1, <2>2, Zenon DEF InBuffer
<1>8. ASSUME NEW d \in Clients PROVE InBuffer(d)' \in Nat
  <2>1. Tail(buffer) \in Seq(Datagram)
    BY <1>1, Popped
  <2>2. InBuffer(d)' = Cardinality(Places(Tail(buffer), {d}))
    BY DEF InBuffer, Places
  <2>3. QED
    BY <2>1, <2>2, PlacesFinite
<1>9. QED
  BY <1>2, <1>4, <1>5, <1>6, <1>7, <1>8

-----------------------------------------------------------------------------
\* The sorts of what the conjuncts of InTurn compute with.
LEMMA Sorts ==
  ASSUME Typed
  PROVE  /\ Len(buffer) \in Nat
         /\ \A i \in 1..Len(buffer) : buffer[i].client \in Clients /\ buffer[i].end \in BOOLEAN
         /\ \A d \in Clients : /\ sent[d] \in Nat /\ share[d] \in Nat /\ dropped[d] \in Nat
                               /\ InBuffer(d) \in Nat
<1>1. buffer \in Seq(Datagram)
  BY DEF Typed, TypeOK, Datagram
<1>2. \A d \in Clients : InBuffer(d) \in Nat
  BY <1>1, PlacesFinite DEF InBuffer
<1>3. \A d \in Clients : sent[d] \in Nat /\ share[d] \in Nat /\ dropped[d] \in Nat
  BY DEF Typed, TypeOK
<1>4. \A i \in 1..Len(buffer) : buffer[i] \in Datagram
  BY <1>1
<1>5. QED
  BY <1>1, <1>2, <1>3, <1>4 DEF Datagram

\* A client that starts is alone, and nothing is known of it.
LEMMA StartKeeps ==
  ASSUME Typed, harness, InTurn, NEW c \in Clients, Start(c)
  PROVE  InTurn'
<1>1. /\ pc[c] = "idle" /\ \A d \in Clients : pc[d] # "send"
      /\ pc'[c] = "send" /\ \A d \in Clients \ {c} : pc'[d] = pc[d]
      /\ UNCHANGED <<buffer, share, sent, dropped, endLost, report>>
  BY DEF Start, MayStart, Typed, TypeOK, serverVars
<1>2. /\ \A d : /\ EndInBuffer(d)' <=> EndInBuffer(d)
                /\ Absent(d)' <=> Absent(d)
                /\ InBuffer(d)' = InBuffer(d)
      /\ \A d, i : Before(d, i)' <=> Before(d, i)
  BY <1>1, SameBuffer
<1>3. OneSends'
  BY <1>1 DEF OneSends
<1>4. Contiguous'
  <2>1. \A i \in 1..Len(buffer) : ~Before(c, i)
    BY <1>1, Sorts DEF Before, InTurn, Ordered, Absent
  <2>2. \A d \in Clients \ {c} : \A i : After(d, i)' <=> After(d, i)
    BY <1>1 DEF After
  <2>3. QED
    BY <1>1, <1>2, <2>1, <2>2 DEF InTurn, Contiguous
<1>5. Ordered'
  BY ZenonT(60), <1>1, <1>2, Sorts DEF InTurn, Ordered
<1>6. Complete'
  BY <1>1, <1>2 DEF InTurn, Complete
<1>7. Reports'
  BY <1>1, <1>2 DEF InTurn, Reports, Reported
<1>8. QED
  BY <1>3, <1>4, <1>5, <1>6, <1>7 DEF InTurn

\* A client that is killed sends no more, and had sent no end.
LEMMA AbortKeeps ==
  ASSUME Typed, harness, InTurn, NEW c \in Clients, Abort(c)
  PROVE  InTurn'
<1>1. /\ pc[c] = "send" /\ pc'[c] = "aborted" /\ \A d \in Clients \ {c} : pc'[d] = pc[d]
      /\ UNCHANGED <<buffer, share, sent, dropped, endLost, report>>
  BY DEF Abort, Typed, TypeOK, serverVars
<1>2. /\ \A d : /\ EndInBuffer(d)' <=> EndInBuffer(d)
                /\ Absent(d)' <=> Absent(d)
                /\ InBuffer(d)' = InBuffer(d)
      /\ \A d, i : Before(d, i)' <=> Before(d, i)
  BY <1>1, SameBuffer
<1>3. OneSends'
  BY <1>1 DEF InTurn, OneSends
<1>4. Contiguous'
  <2>1. \A d \in Clients : \A i : After(d, i)' => After(d, i)
    BY <1>1 DEF After
  <2>2. QED
    BY <1>1, <1>2, <2>1 DEF InTurn, Contiguous
<1>5. Ordered'
  BY ZenonT(60), <1>1, <1>2, Sorts DEF InTurn, Ordered
<1>6. Complete'
  BY <1>1, <1>2 DEF InTurn, Complete
<1>7. Reports'
  BY <1>1, <1>2 DEF InTurn, Reports, Reported
<1>8. QED
  BY <1>3, <1>4, <1>5, <1>6, <1>7 DEF InTurn

\* What a client that sends adds to the buffer is behind what others sent, and no end of its
\* own is there yet.
LEMMA BehindOthers ==
  ASSUME Typed, InTurn, NEW c \in Clients, NEW e \in BOOLEAN, share' = share, pc[c] = "send",
         buffer' = Append(buffer, [client |-> c, end |-> e]),
         \A d \in Clients : pc'[d] = pc[d] \/ (d = c /\ pc'[d] = "ok")
  PROVE  /\ Contiguous'
         /\ \A i \in 1..Len(buffer) : buffer'[i].end =>
              /\ pc'[buffer'[i].client] = "ok"
              /\ \A j \in i + 1..Len(buffer') : buffer'[j].client # buffer'[i].client
<1>1. Len(buffer) \in Nat
  BY Sorts
<1>2. /\ Len(buffer') = Len(buffer) + 1 /\ buffer'[Len(buffer) + 1] = [client |-> c, end |-> e]
      /\ \A i \in 1..Len(buffer) : buffer'[i] = buffer[i]
      /\ \A d : \A i \in 1..Len(buffer) : Before(d, i)' <=> Before(d, i)
  BY Added
<1>3. ASSUME NEW i \in 1..Len(buffer), NEW j \in i + 1..Len(buffer')
      PROVE  \/ j = Len(buffer) + 1 /\ buffer'[j].client = c
             \/ j \in i + 1..Len(buffer) /\ buffer'[j] = buffer[j]
  <2>1. CASE j = Len(buffer) + 1
    BY <1>2, <2>1
  <2>2. CASE j # Len(buffer) + 1
    <3>1. Len(buffer') = Len(buffer) + 1
      BY <1>2
    <3>2. j \in i + 1..Len(buffer)
      BY <1>1, <2>2, <3>1
    <3>3. j \in 1..Len(buffer)
      BY <1>1, <3>2
    <3>4. QED
      BY <1>2, <3>2, <3>3
  <2>3. QED
    BY <2>1, <2>2
<1>4. ASSUME NEW d \in Clients, NEW i \in 1..Len(buffer), After(d, i)' PROVE After(d, i)
  <2>1. CASE pc'[d] = "send"
    BY <2>1 DEF After
  <2>2. ASSUME NEW j \in i + 1..Len(buffer'), buffer'[j].client = d PROVE After(d, i)
    BY <1>3, <2>2 DEF After
  <2>3. QED
    BY <1>4, <2>1, <2>2 DEF After
<1>5. Contiguous'
  <2>1. SUFFICES ASSUME NEW d \in Clients, NEW i \in 1..Len(buffer) + 1,
                        buffer'[i].client # d, Before(d, i)', After(d, i)'
                 PROVE  FALSE
    BY <1>2 DEF Contiguous
  <2>2. CASE i = Len(buffer) + 1
    <3>1. d # c
      BY <1>2, <2>1, <2>2
    <3>2. pc'[d] = "send"
      BY <1>1, <1>2, <2>1, <2>2 DEF After
    <3>3. QED
      BY <3>1, <3>2 DEF InTurn, OneSends
  <2>3. CASE i # Len(buffer) + 1
    <3>1. i \in 1..Len(buffer)
      BY <1>1, <2>3
    <3>2. QED
      BY <1>2, <1>4, <2>1, <3>1 DEF InTurn, Contiguous
  <2>4. QED
    BY <2>2, <2>3
<1>6. ASSUME NEW i \in 1..Len(buffer), buffer'[i].end
      PROVE  /\ pc'[buffer'[i].client] = "ok"
             /\ \A j \in i + 1..Len(buffer') : buffer'[j].client # buffer'[i].client
  <2>1. /\ buffer'[i] = buffer[i] /\ pc[buffer[i].client] = "ok" /\ buffer[i].client \in Clients
        /\ \A j \in i + 1..Len(buffer) : buffer[j].client # buffer[i].client
    BY <1>2, <1>6, Sorts DEF InTurn, Ordered
  <2>2. buffer[i].client # c
    BY <2>1
  <2>3. QED
    BY <1>3, <2>1, <2>2
<1>7. QED
  BY <1>5, <1>6

\* A chunk goes to the end of the buffer or is dropped.
LEMMA SendKeeps ==
  ASSUME Typed, Typed', harness, InTurn, NEW c \in Clients, Send(c)
  PROVE  InTurn'
<1>0. Len(buffer) \in Nat
  BY Sorts
<1>1. /\ pc[c] = "send" /\ UNCHANGED <<pc, share, endLost, report>>
      /\ sent'[c] = sent[c] + 1 /\ \A d \in Clients \ {c} : sent'[d] = sent[d]
  BY DEF Send, Typed, TypeOK, serverVars
<1>2. OneSends'
  BY <1>1 DEF InTurn, OneSends
<1>3. \A i \in 1..Len(buffer) : buffer[i].end => buffer[i].client # c
  BY <1>1 DEF InTurn, Ordered
<1>4. ~EndInBuffer(c)
  BY <1>3 DEF EndInBuffer
<1>5. CASE ~Fits
  <2>1. /\ UNCHANGED buffer
        /\ dropped'[c] = dropped[c] + 1 /\ \A d \in Clients \ {c} : dropped'[d] = dropped[d]
    BY <1>5 DEF Send, Typed, TypeOK
  <2>2. /\ \A d : /\ EndInBuffer(d)' <=> EndInBuffer(d)
                  /\ Absent(d)' <=> Absent(d)
                  /\ InBuffer(d)' = InBuffer(d)
        /\ \A d, i : Before(d, i)' <=> Before(d, i)
    BY <1>1, <2>1, SameBuffer
  <2>3. Contiguous'
    <3>1. \A d, i : After(d, i)' <=> After(d, i)
      BY <1>1, <2>1 DEF After
    <3>2. QED
      BY <2>1, <2>2, <3>1 DEF InTurn, Contiguous
  <2>4. Ordered'
    BY <1>1, <2>1, <2>2 DEF InTurn, Ordered
  <2>5. Complete'
    <3>1. \A d \in Clients \ {c} : share'[d] + InBuffer(d)' + dropped'[d] = sent'[d]
                                   <=> share[d] + InBuffer(d) + dropped[d] = sent[d]
      BY <1>1, <2>1, <2>2
    <3>2. share'[c] + InBuffer(c)' + dropped'[c] = sent'[c]
      <4>1. share[c] + InBuffer(c) + dropped[c] = sent[c]
        BY <1>1 DEF InTurn, Complete
      <4>2. /\ share[c] \in Nat /\ InBuffer(c) \in Nat /\ dropped[c] \in Nat
            /\ InBuffer(c)' = InBuffer(c)
        BY <2>2, Sorts
      <4>3. QED
        BY <1>1, <2>1, <4>1, <4>2
    <3>3. QED
      BY <1>1, <2>2, <3>1, <3>2 DEF InTurn, Complete
  <2>6. Reports'
    BY <1>1, <2>1, <2>2 DEF InTurn, Reports, Reported
  <2>7. QED
    BY <1>2, <2>3, <2>4, <2>5, <2>6 DEF InTurn
<1>6. CASE Fits
  <2>1. buffer' = Append(buffer, [client |-> c, end |-> FALSE]) /\ UNCHANGED dropped
    BY <1>6 DEF Send
  <2>2. /\ Len(buffer') = Len(buffer) + 1
        /\ buffer'[Len(buffer) + 1] = [client |-> c, end |-> FALSE]
        /\ \A i \in 1..Len(buffer) : buffer'[i] = buffer[i]
        /\ \A d : EndInBuffer(d)' <=> EndInBuffer(d)
        /\ \A d : Absent(d) /\ d # c => Absent(d)'
        /\ \A d \in Clients : InBuffer(d)' = InBuffer(d) + IF d = c THEN 1 ELSE 0
        /\ \A d : \A i \in 1..Len(buffer) : Before(d, i)' <=> Before(d, i)
    BY <1>1, <2>1, Added
  <2>3. /\ Contiguous'
        /\ \A i \in 1..Len(buffer) : buffer'[i].end =>
             /\ pc'[buffer'[i].client] = "ok"
             /\ \A j \in i + 1..Len(buffer') : buffer'[j].client # buffer'[i].client
    BY <1>1, <2>1, BehindOthers
  <2>4. Ordered'
    <3>1. \A d \in Clients : pc'[d] = "idle" =>
            sent'[d] = 0 /\ dropped'[d] = 0 /\ share'[d] = 0 /\ Absent(d)' /\ d \notin endLost'
      BY <1>1, <2>1, <2>2 DEF InTurn, Ordered
    <3>2. \A i \in 1..Len(buffer') : buffer'[i].end => i \in 1..Len(buffer)
      BY <1>0, <2>2
    <3>3. \A d \in Clients : pc'[d] = "ok" /\ d \notin endLost' /\ ~EndInBuffer(d)' =>
            share'[d] = 0 /\ Absent(d)'
      BY <1>1, <2>2 DEF InTurn, Ordered
    <3>4. QED
      BY <2>3, <3>1, <3>2, <3>3 DEF Ordered
  <2>5. Complete'
    <3>1. \A d \in Clients : share'[d] = share[d] /\ dropped'[d] = dropped[d]
      BY <1>1, <2>1
    <3>2. share'[c] + InBuffer(c)' + dropped'[c] = sent'[c]
      <4>1. share[c] + InBuffer(c) + dropped[c] = sent[c]
        BY <1>1 DEF InTurn, Complete
      <4>2. /\ share[c] \in Nat /\ InBuffer(c) \in Nat /\ dropped[c] \in Nat
            /\ InBuffer(c)' = InBuffer(c) + 1
        BY <2>2, Sorts
      <4>3. QED
        BY <1>1, <3>1, <4>1, <4>2
    <3>3. \A d \in Clients \ {c} : InBuffer(d)' = InBuffer(d)
      BY <2>2, Sorts
    <3>4. QED
      BY <1>1, <2>2, <3>1, <3>2, <3>3 DEF InTurn, Complete
  <2>6. Reports'
    BY <1>1, <2>1, <2>2 DEF InTurn, Reports, Reported
  <2>7. QED
    BY <1>2, <2>3, <2>4, <2>5, <2>6 DEF InTurn
<1>7. QED
  BY <1>5, <1>6

\* So does an end, or it is lost.
LEMMA FinishKeeps ==
  ASSUME Typed, Typed', harness, InTurn, NEW c \in Clients, Finish(c)
  PROVE  InTurn'
<1>0. Len(buffer) \in Nat
  BY Sorts
<1>1. /\ pc[c] = "send" /\ pc'[c] = "ok" /\ \A d \in Clients \ {c} : pc'[d] = pc[d]
      /\ UNCHANGED <<share, sent, dropped, report>>
  BY DEF Finish, Typed, TypeOK, serverVars
<1>2. OneSends'
  BY <1>1 DEF InTurn, OneSends
<1>3. CASE ~Fits
  <2>1. UNCHANGED buffer /\ endLost' = endLost \cup {c}
    BY <1>3 DEF Finish
  <2>2. /\ \A d : /\ EndInBuffer(d)' <=> EndInBuffer(d)
                  /\ Absent(d)' <=> Absent(d)
                  /\ InBuffer(d)' = InBuffer(d)
        /\ \A d, i : Before(d, i)' <=> Before(d, i)
    BY <1>1, <2>1, SameBuffer
  <2>3. Contiguous'
    <3>1. \A d \in Clients : \A i : After(d, i)' => After(d, i)
      BY <1>1, <2>1 DEF After
    <3>2. QED
      BY <2>1, <2>2, <3>1 DEF InTurn, Contiguous
  <2>4. Ordered'
    BY ZenonT(60), <1>1, <2>1, <2>2, Sorts DEF InTurn, Ordered
  <2>5. Complete'
    BY <1>1, <2>2 DEF InTurn, Complete
  <2>6. Reports'
    BY <1>1, <2>1, <2>2 DEF InTurn, Reports, Reported
  <2>7. QED
    BY <1>2, <2>3, <2>4, <2>5, <2>6 DEF InTurn
<1>4. CASE Fits
  <2>1. buffer' = Append(buffer, [client |-> c, end |-> TRUE]) /\ UNCHANGED endLost
    BY <1>4 DEF Finish
  <2>2. /\ Len(buffer') = Len(buffer) + 1 /\ buffer'[Len(buffer) + 1] = [client |-> c, end |-> TRUE]
        /\ \A d : EndInBuffer(d)' <=> EndInBuffer(d) \/ d = c
        /\ \A d : Absent(d) /\ d # c => Absent(d)'
        /\ \A d \in Clients : InBuffer(d)' = InBuffer(d) + 0
    BY ZenonT(60), <1>1, <2>1, Added
  <2>3. /\ Contiguous'
        /\ \A i \in 1..Len(buffer) : buffer'[i].end =>
             /\ pc'[buffer'[i].client] = "ok"
             /\ \A j \in i + 1..Len(buffer') : buffer'[j].client # buffer'[i].client
    BY <1>1, <2>1, BehindOthers
  <2>4. Ordered'
    <3>1. \A d \in Clients : pc'[d] = "idle" =>
            sent'[d] = 0 /\ dropped'[d] = 0 /\ share'[d] = 0 /\ Absent(d)' /\ d \notin endLost'
      BY <1>1, <2>1, <2>2 DEF InTurn, Ordered
    <3>2. ASSUME NEW i \in 1..Len(buffer'), buffer'[i].end
          PROVE  /\ pc'[buffer'[i].client] = "ok"
                 /\ \A j \in i + 1..Len(buffer') : buffer'[j].client # buffer'[i].client
      <4>1. CASE i = Len(buffer) + 1
        BY <1>0, <1>1, <2>2, <4>1
      <4>2. CASE i # Len(buffer) + 1
        <5>1. i \in 1..Len(buffer)
          BY <1>0, <2>2, <3>2, <4>2
        <5>2. QED
          BY <2>3, <3>2, <5>1
      <4>3. QED
        BY <4>1, <4>2
    <3>3. \A d \in Clients : pc'[d] = "ok" /\ d \notin endLost' /\ ~EndInBuffer(d)' =>
            share'[d] = 0 /\ Absent(d)'
      BY <1>1, <2>1, <2>2 DEF InTurn, Ordered
    <3>4. QED
      BY <3>1, <3>2, <3>3 DEF Ordered
  <2>5. Complete'
    <3>1. \A d \in Clients : InBuffer(d)' = InBuffer(d)
      BY <2>2, Sorts
    <3>2. QED
      BY <1>1, <2>2, <3>1 DEF InTurn, Complete
  <2>6. Reports'
    BY <1>1, <2>1, <2>2 DEF InTurn, Reports, Reported
  <2>7. QED
    BY <1>2, <2>3, <2>4, <2>5, <2>6 DEF InTurn
<1>5. QED
  BY <1>3, <1>4

\* What is behind the first datagram keeps its order when that is received.
LEMMA FrontTaken ==
  ASSUME Typed, InTurn, buffer # <<>>, buffer' = Tail(buffer), pc' = pc,
         \A d \in Clients : share'[d] > 0 => share[d] > 0 \/ d = Head(buffer).client
  PROVE  /\ OneSends' /\ Contiguous'
         /\ \A i \in 1..Len(buffer') : buffer'[i].end =>
              /\ pc'[buffer'[i].client] = "ok"
              /\ \A j \in i + 1..Len(buffer') : buffer'[j].client # buffer'[i].client
<1>1. Len(buffer) \in Nat \ {0} /\ Len(buffer') = Len(buffer) - 1 /\ Head(buffer) = buffer[1]
  BY Taken
<1>2. \A i \in 1..Len(buffer) - 1 : buffer'[i] = buffer[i + 1]
  BY Taken
<1>3. ASSUME NEW i \in 1..Len(buffer'), NEW j \in i + 1..Len(buffer')
      PROVE  buffer'[j] = buffer[j + 1] /\ j + 1 \in (i + 1) + 1..Len(buffer)
  <2>1. j \in 1..Len(buffer) - 1 /\ j + 1 \in (i + 1) + 1..Len(buffer)
    BY <1>1
  <2>2. QED
    BY <1>2, <2>1
<1>4. \A i \in 1..Len(buffer') : i + 1 \in 1..Len(buffer) /\ buffer'[i] = buffer[i + 1]
  BY <1>1, <1>2
<1>5. ASSUME NEW d \in Clients, NEW i \in 1..Len(buffer'), Before(d, i)' PROVE Before(d, i + 1)
  <2>1. CASE share'[d] > 0
    <3>1. CASE share[d] > 0
      BY <3>1 DEF Before
    <3>2. CASE d = buffer[1].client
      <4>1. 1 \in 1..(i + 1) - 1
        BY <1>1
      <4>2. QED
        BY <3>2, <4>1 DEF Before
    <3>3. QED
      BY <1>1, <2>1, <3>1, <3>2
  <2>2. ASSUME NEW j \in 1..i - 1, buffer'[j].client = d PROVE Before(d, i + 1)
    <3>1. j \in 1..Len(buffer) - 1 /\ j + 1 \in 1..(i + 1) - 1
      BY <1>1
    <3>2. buffer[j + 1].client = d
      BY <1>2, <2>2, <3>1
    <3>3. QED
      BY <3>1, <3>2 DEF Before
  <2>3. QED
    BY <1>5, <2>1, <2>2 DEF Before
<1>6. ASSUME NEW d \in Clients, NEW i \in 1..Len(buffer'), After(d, i)' PROVE After(d, i + 1)
  <2>1. ASSUME NEW j \in i + 1..Len(buffer'), buffer'[j].client = d PROVE After(d, i + 1)
    BY <1>3, <2>1 DEF After
  <2>2. QED
    BY <1>6, <2>1 DEF After
<1>7. Contiguous'
  <2>1. SUFFICES ASSUME NEW d \in Clients, NEW i \in 1..Len(buffer'),
                        buffer'[i].client # d, Before(d, i)', After(d, i)'
                 PROVE  FALSE
    BY DEF Contiguous
  <2>2. i + 1 \in 1..Len(buffer) /\ buffer[i + 1].client # d
    BY <1>4, <2>1
  <2>3. QED
    BY <1>5, <1>6, <2>1, <2>2 DEF InTurn, Contiguous
<1>8. ASSUME NEW i \in 1..Len(buffer'), buffer'[i].end
      PROVE  /\ pc'[buffer'[i].client] = "ok"
             /\ \A j \in i + 1..Len(buffer') : buffer'[j].client # buffer'[i].client
  <2>1. i + 1 \in 1..Len(buffer) /\ buffer'[i] = buffer[i + 1]
    BY <1>4
  <2>2. /\ pc[buffer[i + 1].client] = "ok"
        /\ \A j \in (i + 1) + 1..Len(buffer) : buffer[j].client # buffer[i + 1].client
    BY <1>8, <2>1 DEF InTurn, Ordered
  <2>3. QED
    BY <1>3, <2>1, <2>2
<1>9. QED
  BY <1>7, <1>8 DEF InTurn, OneSends

\* A chunk that is counted goes from the buffer to the share of its client.
LEMMA ReceivePayloadKeeps ==
  ASSUME Typed, Typed', harness, InTurn, ReceivePayload
  PROVE  InTurn'
<1> DEFINE h == Head(buffer).client
<1>1. /\ buffer # <<>> /\ ~Head(buffer).end /\ buffer' = Tail(buffer)
      /\ share' = [share EXCEPT ![h] = @ + 1]
      /\ UNCHANGED <<pc, sent, dropped, endLost, report>>
  BY DEF ReceivePayload, Count, clientVars
<1>2. /\ Head(buffer) = buffer[1] /\ Len(buffer) \in Nat \ {0} /\ h \in Clients
      /\ \A d : EndInBuffer(d) => EndInBuffer(d)'
      /\ \A d : Absent(d) => Absent(d)'
      /\ \A d \in Clients : InBuffer(d) = InBuffer(d)' + IF d = h THEN 1 ELSE 0
  BY <1>1, Taken DEF Datagram
<1>3. \A d : EndInBuffer(d)' => EndInBuffer(d)
  <2>1. \A d : EndInBuffer(d)' => \E j \in 2..Len(buffer) : buffer[j].client = d /\ buffer[j].end
    BY <1>1, Taken
  <2>2. 2..Len(buffer) \subseteq 1..Len(buffer)
    BY <1>2
  <2>3. QED
    BY <2>1, <2>2 DEF EndInBuffer
<1>4. share'[h] = share[h] + 1 /\ \A d \in Clients \ {h} : share'[d] = share[d]
  BY <1>1, <1>2 DEF Typed, TypeOK
<1>5. ~Absent(h)
  BY <1>2 DEF Absent
<1>6. /\ OneSends' /\ Contiguous'
      /\ \A i \in 1..Len(buffer') : buffer'[i].end =>
           /\ pc'[buffer'[i].client] = "ok"
           /\ \A j \in i + 1..Len(buffer') : buffer'[j].client # buffer'[i].client
  BY <1>1, <1>4, FrontTaken
<1>7. Ordered'
  <2>1. \A d \in Clients : pc'[d] = "idle" =>
          sent'[d] = 0 /\ dropped'[d] = 0 /\ share'[d] = 0 /\ Absent(d)' /\ d \notin endLost'
    BY <1>1, <1>2, <1>4, <1>5 DEF InTurn, Ordered
  <2>2. \A d \in Clients : pc'[d] = "ok" /\ d \notin endLost' /\ ~EndInBuffer(d)' =>
          share'[d] = 0 /\ Absent(d)'
    BY <1>1, <1>2, <1>4, <1>5 DEF InTurn, Ordered
  <2>3. QED
    BY <1>6, <2>1, <2>2 DEF Ordered
<1>8. Complete'
  <2>1. ASSUME NEW d \in Clients PROVE share'[d] + InBuffer(d)' = share[d] + InBuffer(d)
    <3>1. share[d] \in Nat /\ InBuffer(d) \in Nat /\ InBuffer(d)' \in Nat
      BY <1>1, Sorts, Taken
    <3>2. CASE d = h
      BY <1>2, <1>4, <3>1, <3>2
    <3>3. CASE d # h
      BY <1>2, <1>4, <3>1, <3>3
    <3>4. QED
      BY <3>2, <3>3
  <2>2. QED
    BY <1>1, <1>3, <2>1 DEF InTurn, Complete
<1>9. Reports'
  BY <1>1, <1>3 DEF InTurn, Reports, Reported
<1>10. QED
  BY <1>6, <1>7, <1>8, <1>9 DEF InTurn

\* At the end of a client its share is all of it, and of the others only those have one that
\* left without an end.
LEMMA ReceiveEndKeeps ==
  ASSUME Typed, Typed', harness, InTurn, ReceiveEnd
  PROVE  InTurn'
<1>0. PICK h \in Clients : h = Head(buffer).client
  <2>1. Head(buffer) \in Datagram
    BY Taken DEF ReceiveEnd
  <2>2. QED
    BY <2>1 DEF Datagram
<1>1. /\ buffer # <<>> /\ Head(buffer).end /\ buffer' = Tail(buffer)
      /\ report' = [report EXCEPT ![h] = share] /\ share' = NoShare
      /\ UNCHANGED <<pc, sent, dropped, endLost>>
  BY <1>0 DEF ReceiveEnd, PrintAndReset, clientVars
<1>2. /\ Head(buffer) = buffer[1] /\ Len(buffer) \in Nat \ {0} /\ buffer[1].client = h
      /\ \A d : EndInBuffer(d) => EndInBuffer(d)' \/ d = h
      /\ \A d : EndInBuffer(d)' => \E j \in 2..Len(buffer) : buffer[j].client = d /\ buffer[j].end
      /\ \A d : Absent(d) => Absent(d)'
      /\ \A d \in Clients : InBuffer(d) = InBuffer(d)' + 0
  BY <1>0, <1>1, Taken
<1>3. \A d \in Clients : share'[d] = 0
  BY <1>1 DEF NoShare
<1>4. 1 \in 1..Len(buffer) /\ 2..Len(buffer) \subseteq 1..Len(buffer)
  BY <1>2
<1>5. pc[h] = "ok" /\ \A j \in 2..Len(buffer) : buffer[j].client # h
  <2>1. pc[h] = "ok" /\ \A j \in 1 + 1..Len(buffer) : buffer[j].client # h
    BY <1>1, <1>2, <1>4 DEF InTurn, Ordered
  <2>2. QED
    BY <2>1
<1>6. ~EndInBuffer(h)' /\ Absent(h)' /\ EndInBuffer(h)
  <2>1. \A i \in 1..Len(buffer') : buffer'[i].client # h
    <3>1. Len(buffer') = Len(buffer) - 1 /\ \A i \in 1..Len(buffer) - 1 : buffer'[i] = buffer[i + 1]
      BY <1>1, Taken
    <3>2. \A i \in 1..Len(buffer) - 1 : i + 1 \in 2..Len(buffer)
      BY <1>2
    <3>3. QED
      <4>1. SUFFICES ASSUME NEW i \in 1..Len(buffer') PROVE buffer'[i].client # h
        OBVIOUS
      <4>2. i \in 1..Len(buffer) - 1 /\ buffer'[i] = buffer[i + 1] /\ i + 1 \in 2..Len(buffer)
        BY <3>1, <3>2
      <4>3. QED
        BY <1>5, <4>2
  <2>2. ~EndInBuffer(h)' /\ Absent(h)'
    BY <2>1 DEF EndInBuffer, Absent
  <2>3. EndInBuffer(h)
    <3>1. buffer[1].client = h /\ buffer[1].end
      BY <1>1, <1>2
    <3>2. QED
      BY <1>4, <3>1 DEF EndInBuffer
  <2>4. QED
    BY <2>2, <2>3
<1>7. \A d \in Clients : EndInBuffer(d)' => EndInBuffer(d)
  BY <1>2, <1>4 DEF EndInBuffer
<1>8. ASSUME NEW d \in Clients \ {h}, pc[d] \in {"idle", "send"} \/ EndInBuffer(d)
      PROVE  share[d] = 0
  <2>1. CASE pc[d] = "idle"
    BY <2>1 DEF InTurn, Ordered
  <2>2. CASE pc[d] = "send" \/ EndInBuffer(d)
    <3>1. After(d, 1)
      <4>1. CASE pc[d] = "send"
        BY <4>1 DEF After
      <4>2. CASE EndInBuffer(d)
        <5>1. PICK j \in 1..Len(buffer) : buffer[j].client = d
          BY <4>2 DEF EndInBuffer
        <5>2. j # 1
          BY <1>2, <5>1
        <5>3. j \in 1 + 1..Len(buffer)
          BY <1>2, <5>2
        <5>4. QED
          BY <5>1, <5>3 DEF After
      <4>3. QED
        BY <2>2, <4>1, <4>2
    <3>2. ~Before(d, 1)
      BY <1>2, <1>4, <3>1 DEF InTurn, Contiguous
    <3>3. QED
      BY <3>2, Sorts DEF Before
  <2>3. QED
    BY <1>8, <2>1, <2>2
<1>9. /\ OneSends' /\ Contiguous'
      /\ \A i \in 1..Len(buffer') : buffer'[i].end =>
           /\ pc'[buffer'[i].client] = "ok"
           /\ \A j \in i + 1..Len(buffer') : buffer'[j].client # buffer'[i].client
  <2>1. \A d \in Clients : ~(share'[d] > 0)
    BY <1>3
  <2>2. QED
    BY <1>1, <2>1, FrontTaken
<1>10. Ordered'
  <2>1. \A d \in Clients : pc'[d] = "idle" =>
          sent'[d] = 0 /\ dropped'[d] = 0 /\ share'[d] = 0 /\ Absent(d)' /\ d \notin endLost'
    BY <1>1, <1>2, <1>3 DEF InTurn, Ordered
  <2>2. \A d \in Clients : pc'[d] = "ok" /\ d \notin endLost' /\ ~EndInBuffer(d)' =>
          share'[d] = 0 /\ Absent(d)'
    BY <1>1, <1>2, <1>3, <1>6 DEF InTurn, Ordered
  <2>3. QED
    BY <1>9, <2>1, <2>2 DEF Ordered
<1>11. \A d \in Clients : InBuffer(d) = InBuffer(d)'
  <2>1. \A d \in Clients : InBuffer(d) = InBuffer(d)' + 0 /\ InBuffer(d)' \in Nat
    BY <1>1, <1>2, Taken
  <2>2. QED
    BY <2>1
<1>12. Complete'
  <2>1. SUFFICES ASSUME NEW d \in Clients, pc[d] \in {"idle", "send"} \/ EndInBuffer(d)'
                 PROVE  share'[d] + InBuffer(d)' + dropped'[d] = sent'[d]
    BY <1>1 DEF Complete
  <2>2. d # h
    BY <1>5, <1>6, <2>1
  <2>3. share[d] = 0 /\ share[d] + InBuffer(d) + dropped[d] = sent[d]
    BY <1>7, <1>8, <2>1, <2>2 DEF InTurn, Complete
  <2>4. QED
    BY <1>1, <1>3, <1>11, <2>3
<1>13. Reports'
  <2>1. report'[h] = share /\ \A d \in Clients \ {h} : report'[d] = report[d]
    BY <1>1, <1>2 DEF Typed
  <2>2. share[h] + dropped[h] = sent[h]
    <3>1. share[h] + InBuffer(h) + dropped[h] = sent[h]
      BY <1>2, <1>6 DEF InTurn, Complete
    <3>2. Places(buffer, {h})' = {}
      BY <1>6 DEF Places, Absent
    <3>3. InBuffer(h) = 0
      BY <1>2, <1>11, <3>2, FS_EmptySet DEF InBuffer
    <3>4. QED
      BY <1>2, <3>1, <3>3, Sorts
  <2>3. ASSUME NEW d \in Clients \ {h}, share[d] > 0 PROVE pc[d] = "aborted" \/ d \in endLost
    <3>1. share[d] # 0
      BY <2>3
    <3>2. pc[d] \in {"idle", "send", "ok", "aborted"}
      BY DEF Typed, TypeOK
    <3>3. pc[d] \in {"ok", "aborted"} /\ ~EndInBuffer(d)
      BY <1>8, <3>1, <3>2
    <3>4. QED
      BY <3>1, <3>3 DEF InTurn, Ordered
  <2>4. ASSUME NEW c \in Clients, Reported(c)'
        PROVE  /\ pc'[c] = "ok" /\ ~EndInBuffer(c)'
               /\ report'[c][c] + dropped'[c] = sent'[c]
               /\ \A d \in Clients \ {c} : report'[c][d] > 0 => pc'[d] = "aborted" \/ d \in endLost'
    <3>1. CASE c = h
      BY <1>1, <1>5, <1>6, <2>1, <2>2, <2>3, <3>1
    <3>2. CASE c # h
      BY <1>1, <1>7, <2>1, <2>4, <3>2 DEF InTurn, Reports, Reported
    <3>3. QED
      BY <3>1, <3>2
  <2>5. QED
    BY <2>4 DEF Reports
<1>14. QED
  BY <1>9, <1>10, <1>12, <1>13 DEF InTurn

-----------------------------------------------------------------------------
\* Where the clients are run one at a time, every step keeps them in turn.
LEMMA InTurnStep ==
  ASSUME Typed, Typed', harness, InTurn, [Next]_vars
  PROVE  InTurn'
<1>1. CASE ServerStops \/ UNCHANGED vars
  <2>1. UNCHANGED <<pc, sent, buffer, dropped, endLost, share, report>>
    BY <1>1 DEF ServerStops, vars, clientVars, serverVars
  <2>2. /\ \A d : /\ EndInBuffer(d)' <=> EndInBuffer(d)
                  /\ Absent(d)' <=> Absent(d)
                  /\ InBuffer(d)' = InBuffer(d)
        /\ \A d, i : Before(d, i)' <=> Before(d, i)
    BY <2>1, SameBuffer
  <2>3. \A d, i : After(d, i)' <=> After(d, i)
    BY <2>1 DEF After
  <2>4. OneSends' /\ Contiguous' /\ Ordered'
    BY <2>1, <2>2, <2>3 DEF InTurn, OneSends, Contiguous, Ordered
  <2>5. Complete' /\ Reports'
    BY <2>1, <2>2 DEF InTurn, Complete, Reports, Reported
  <2>6. QED
    BY <2>4, <2>5 DEF InTurn
<1>2. QED
  BY <1>1, StartKeeps, AbortKeeps, SendKeeps, FinishKeeps, ReceivePayloadKeeps, ReceiveEndKeeps
     DEF Next, ClientStep, ServerStep

\* At the start everything is nothing, of its type.
LEMMA TypedInit == Init => Typed
<1> SUFFICES ASSUME Init PROVE Typed
  OBVIOUS
<1>1. /\ pc = [c \in Clients |-> "idle"] /\ sent = NoShare /\ buffer = <<>> /\ stopped = FALSE
      /\ stats = 0 /\ dropped = NoShare /\ endLost = {} /\ share = NoShare
      /\ report = [c \in Clients |-> None]
  BY DEF Init
<1>2. buffer \in Seq([client : Clients, end : BOOLEAN]) /\ Len(buffer) <= BufferLimit
  BY <1>1
<1>3. /\ dropped \in [Clients -> Nat] /\ share \in [Clients -> Nat] /\ sent \in [Clients -> Nat]
      /\ \A c \in Clients : sent[c] \in 0..Blocks[c]
  BY <1>1 DEF NoShare
<1>4. QED
  BY <1>1, <1>2, <1>3 DEF Typed, TypeOK

\* The invariant holds at the start, and is kept.
LEMMA Inductive == Spec => []IInv
<1>1. Init => IInv
  <2> SUFFICES ASSUME Init PROVE IInv
    OBVIOUS
  <2>1. /\ pc = [c \in Clients |-> "idle"] /\ sent = NoShare /\ buffer = <<>> /\ stopped = FALSE
        /\ stats = 0 /\ dropped = NoShare /\ endLost = {} /\ share = NoShare
        /\ report = [c \in Clients |-> None]
    BY DEF Init
  <2>2. Len(buffer) = 0 /\ \A i : i \notin 1..Len(buffer)
    BY <2>1
  <2>3. \A c \in Clients : sent[c] = 0 /\ dropped[c] = 0 /\ share[c] = 0 /\ pc[c] = "idle"
                           /\ ~Reported(c)
    BY <2>1 DEF NoShare, Reported
  <2>4. \A c \in Clients : Absent(c) /\ ~EndInBuffer(c) /\ InBuffer(c) = 0
    <3>1. \A c : Absent(c) /\ ~EndInBuffer(c) /\ Places(buffer, c) = {}
      BY <2>2 DEF Absent, EndInBuffer, Places
    <3>2. QED
      BY <3>1, FS_EmptySet DEF InBuffer
  <2>5. Typed
    BY TypedInit
  <2>6. OneSends /\ Contiguous /\ Ordered
    BY <2>1, <2>2, <2>3, <2>4 DEF OneSends, Contiguous, Ordered
  <2>7. Complete /\ Reports
    BY <2>3, <2>4 DEF Complete, Reports
  <2>8. QED
    BY <2>5, <2>6, <2>7 DEF IInv, InTurn
<1>2. IInv /\ [Next]_vars => IInv'
  <2>1. [Next]_vars => harness' = harness
    BY DEF Next, ClientStep, Start, Send, Finish, Abort, ServerStep, ReceivePayload, ReceiveEnd,
           ServerStops, vars
  <2>2. QED
    BY <2>1, TypedStep, InTurnStep DEF IInv
<1>3. QED
  BY <1>1, <1>2, PTL DEF Spec

\* Every variable has its type, for any number of clients, files, buffer and faults: no count
\* exceeds its file and the buffer keeps to its limit.
THEOREM UdpTypeCorrect == Spec => []TypeOK
<1>1. IInv => TypeOK
  BY DEF IInv, Typed
<1>2. QED
  BY <1>1, Inductive, PTL

\* Run one at a time, as run_experiments.py does, a client whose empty datagram arrives is
\* reported with all of its chunks that were not dropped, and what is counted of another
\* client is of one that left without an empty datagram reaching the server.
THEOREM InTurnReports == Spec => []HarnessReport
<1>1. IInv => HarnessReport
  <2> SUFFICES ASSUME IInv, harness, NEW c \in Clients, Reported(c)
               PROVE  /\ report[c][c] = sent[c] - dropped[c]
                      /\ \A d \in Clients \ {c} :
                           report[c][d] > 0 => pc[d] = "aborted" \/ d \in endLost
    BY DEF HarnessReport
  <2>1. /\ report[c][c] + dropped[c] = sent[c]
        /\ \A d \in Clients \ {c} : report[c][d] > 0 => pc[d] = "aborted" \/ d \in endLost
    BY DEF IInv, InTurn, Reports
  <2>2. report[c] \in [Clients -> Nat]
    BY DEF IInv, Typed, TypeOK, Reported
  <2>3. report[c][c] \in Nat /\ dropped[c] \in Nat /\ sent[c] \in Nat
    BY <2>2, Sorts DEF IInv
  <2>4. QED
    BY <2>1, <2>3
<1>2. QED
  BY <1>1, Inductive, PTL

-----------------------------------------------------------------------------
\* The sums of Conserved are folds, and a fold is a recursive function on sets: that there
\* is one comes by induction over a set of numbers.
\* The element a fold takes next, and the equation of its recursion over subsets of D.
Pick(s) == CHOOSE x \in s : TRUE
IsFold(g, D, f) ==
  g = [s \in SUBSET D |-> IF s = {} THEN 0 ELSE f[Pick(s)] + g[s \ {Pick(s)}]]

-----------------------------------------------------------------------------
\* A set of numbers that has 0, and with a number the next, has all of them.
LEMMA NatSetInduction ==
  ASSUME NEW T, 0 \in T, \A n \in Nat : n \in T => n + 1 \in T
  PROVE  Nat \subseteq T
<1> DEFINE B == Nat \ T
<1>1. SUFFICES ASSUME B # {} PROVE FALSE
  OBVIOUS
<1>2. PICK m \in B : \A k \in B : <<k, m>> \notin OpToRel(<, Nat)
  <2>1. B \subseteq Nat
    OBVIOUS
  <2> HIDE DEF B
  <2>2. QED
    BY <1>1, <2>1, WFMin, NatLessThanWellFounded
<1>3. m - 1 \in Nat /\ m - 1 \in B
  OBVIOUS
<1>4. <<m - 1, m>> \in OpToRel(<, Nat)
  BY <1>3 DEF OpToRel
<1>5. QED
  BY <1>2, <1>3, <1>4

\* What a fold takes from a set leaves a set with one element less.
LEMMA PickLess ==
  ASSUME NEW D, IsFiniteSet(D), NEW s \in SUBSET D, s # {}
  PROVE  /\ Pick(s) \in s /\ Pick(s) \in D /\ s \ {Pick(s)} \in SUBSET D
         /\ Cardinality(s) \in Nat /\ Cardinality(s \ {Pick(s)}) = Cardinality(s) - 1
<1>1. Pick(s) \in s
  BY DEF Pick
<1>2. IsFiniteSet(s)
  BY FS_Subset
<1>3. Cardinality(s) \in Nat /\ Cardinality(s \ {Pick(s)}) = Cardinality(s) - 1
  BY <1>1, <1>2, FS_RemoveElement, FS_CardinalityType
<1>4. QED
  BY <1>1, <1>3

\* The recursion has a solution: one for sets of at most n elements extends to n + 1.
LEMMA FoldExists ==
  ASSUME NEW D, IsFiniteSet(D), NEW f
  PROVE  \E g : IsFold(g, D, f)
<1> DEFINE Upto(n) == {s \in SUBSET D : Cardinality(s) <= n}
           Step(g, n) == [s \in Upto(n) |-> IF s = {} THEN 0 ELSE f[Pick(s)] + g[s \ {Pick(s)}]]
           T == {n \in Nat : \E g : g = Step(g, n)}
<1>1. 0 \in T
  <2> DEFINE g == [s \in Upto(0) |-> 0]
  <2>1. ASSUME NEW s \in Upto(0) PROVE s = {}
    <3>1. IsFiniteSet(s) /\ Cardinality(s) \in Nat /\ Cardinality(s) <= 0
      BY FS_Subset, FS_CardinalityType
    <3>2. QED
      BY <3>1, FS_EmptySet
  <2>2. g = Step(g, 0)
    BY <2>1
  <2>3. QED
    BY <2>2
<1>2. ASSUME NEW n \in Nat, n \in T PROVE n + 1 \in T
  <2>1. PICK g : g = Step(g, n)
    BY <1>2
  <2> DEFINE h == Step(g, n + 1)
  <2>2. ASSUME NEW s \in Upto(n + 1), s # {} PROVE s \ {Pick(s)} \in Upto(n)
    BY <2>2, PickLess
  <2>3. ASSUME NEW s \in Upto(n) PROVE h[s] = g[s]
    <3>1. s \in Upto(n + 1)
      <4>1. Cardinality(s) \in Nat
        BY FS_Subset, FS_CardinalityType
      <4>2. QED
        BY <4>1
    <3>2. h[s] = IF s = {} THEN 0 ELSE f[Pick(s)] + g[s \ {Pick(s)}]
      BY <3>1
    <3>3. g[s] = IF s = {} THEN 0 ELSE f[Pick(s)] + g[s \ {Pick(s)}]
      BY <2>1
    <3>4. QED
      BY <3>2, <3>3, Zenon
  <2>4. h = Step(h, n + 1)
    <3>1. \A s \in Upto(n + 1) : s # {} => g[s \ {Pick(s)}] = h[s \ {Pick(s)}]
      BY <2>2, <2>3
    <3> HIDE DEF Upto
    <3>2. \A s \in Upto(n + 1) : h[s] = Step(h, n + 1)[s]
      BY <3>1
    <3>3. QED
      BY <3>2
  <2> HIDE DEF h, Step
  <2>5. QED
    BY <2>4
<1>3. Cardinality(D) \in T
  <2>1. Nat \subseteq T
    <3> HIDE DEF T
    <3>1. QED
      BY <1>1, <1>2, NatSetInduction
  <2>2. QED
    BY <2>1, FS_CardinalityType
<1>4. Upto(Cardinality(D)) = SUBSET D
  BY FS_Subset
<1>5. QED
  BY <1>3, <1>4 DEF IsFold

\* The sum is what a solution of the recursion has for the whole domain.
LEMMA SumIsFold ==
  ASSUME NEW f, IsFiniteSet(DOMAIN f)
  PROVE  \E g : IsFold(g, DOMAIN f, f) /\ Total(f) = g[DOMAIN f]
<1>1. Total(f) = (CHOOSE g : IsFold(g, DOMAIN f, f))[DOMAIN f]
  BY DEF Total, FoldFunction, FoldFunctionOnSet, MapThenFoldSet, IsFold, Pick
<1>2. IsFold(CHOOSE g : IsFold(g, DOMAIN f, f), DOMAIN f, f)
  BY FoldExists
<1>3. QED
  BY <1>1, <1>2

\* What a solution has for a set, from what it has for one element less.
LEMMA FoldStep ==
  ASSUME NEW D, IsFiniteSet(D), NEW f, NEW g, IsFold(g, D, f), NEW s \in SUBSET D
  PROVE  g[s] = IF s = {} THEN 0 ELSE f[Pick(s)] + g[s \ {Pick(s)}]
BY DEF IsFold

\* A sum of numbers is a number, and one value more or less in the function is as much more
\* or less in the sum.
LEMMA FoldChange ==
  ASSUME NEW D, IsFiniteSet(D), NEW f \in [D -> Nat], NEW e \in [D -> Nat], NEW c \in D,
         \A d \in D \ {c} : e[d] = f[d],
         NEW g, IsFold(g, D, f), NEW h, IsFold(h, D, e)
  PROVE  \A s \in SUBSET D :
           /\ g[s] \in Nat /\ h[s] \in Nat
           /\ c \notin s => h[s] = g[s]
           /\ c \in s => h[s] + f[c] = g[s] + e[c]
<1> DEFINE Good(s) == /\ g[s] \in Nat /\ h[s] \in Nat
                      /\ c \notin s => h[s] = g[s]
                      /\ c \in s => h[s] + f[c] = g[s] + e[c]
           T == {n \in Nat : \A s \in SUBSET D : Cardinality(s) = n => Good(s)}
<1>1. 0 \in T
  <2>1. ASSUME NEW s \in SUBSET D, Cardinality(s) = 0 PROVE Good(s)
    <3>1. s = {}
      BY <2>1, FS_Subset, FS_EmptySet
    <3>2. g[s] = 0 /\ h[s] = 0
      BY ZenonT(60), <3>1, FoldStep
    <3>3. QED
      BY <3>1, <3>2
  <2>2. QED
    BY <2>1
<1>2. ASSUME NEW n \in Nat, n \in T PROVE n + 1 \in T
  <2>1. ASSUME NEW s \in SUBSET D, Cardinality(s) = n + 1 PROVE Good(s)
    <3> DEFINE x == Pick(s)
               t == s \ {Pick(s)}
    <3>1. s # {}
      BY <2>1, FS_EmptySet
    <3>2. x \in s /\ x \in D /\ t \in SUBSET D /\ Cardinality(t) = n
      BY <2>1, <3>1, PickLess
    <3>3. Good(t)
      BY <1>2, <3>2
    <3>4. g[s] = f[x] + g[t] /\ h[s] = e[x] + h[t]
      BY <3>1, FoldStep
    <3>5. f[x] \in Nat /\ e[x] \in Nat /\ f[c] \in Nat /\ e[c] \in Nat
      BY <3>2
    <3>6. CASE x = c
      <4>1. c \notin t /\ c \in s
        BY <3>2, <3>6
      <4>2. h[t] = g[t] /\ g[t] \in Nat
        BY <3>3, <4>1
      <4> HIDE DEF x, t
      <4>3. QED
        BY <3>4, <3>5, <3>6, <4>1, <4>2
    <3>7. CASE x # c
      <4>1. (c \in t <=> c \in s) /\ e[x] = f[x]
        BY <3>2, <3>7
      <4> HIDE DEF x, t
      <4>2. QED
        BY <3>3, <3>4, <3>5, <4>1
    <3>8. QED
      BY <3>6, <3>7
  <2>2. QED
    BY <2>1
<1>3. Nat \subseteq T
  <2> HIDE DEF T
  <2>1. QED
    BY <1>1, <1>2, NatSetInduction
<1>4. \A s \in SUBSET D : Cardinality(s) \in Nat
  BY FS_Subset, FS_CardinalityType
<1>5. QED
  BY <1>3, <1>4

-----------------------------------------------------------------------------
\* Two functions that differ in one value.
LEMMA SumDiffer ==
  ASSUME NEW D, IsFiniteSet(D), NEW f \in [D -> Nat], NEW e \in [D -> Nat], NEW c \in D,
         \A d \in D \ {c} : e[d] = f[d]
  PROVE  Total(f) \in Nat /\ Total(e) \in Nat /\ Total(e) + f[c] = Total(f) + e[c]
<1>1. DOMAIN e = D /\ DOMAIN f = D
  OBVIOUS
<1>2. PICK g : IsFold(g, D, f) /\ Total(f) = g[D]
  BY <1>1, SumIsFold
<1>3. PICK h : IsFold(h, D, e) /\ Total(e) = h[D]
  BY <1>1, SumIsFold
<1>4. g[D] \in Nat /\ h[D] \in Nat /\ h[D] + f[c] = g[D] + e[c]
  BY <1>1, <1>2, <1>3, FoldChange
<1>5. QED
  BY <1>1, <1>2, <1>3, <1>4

\* The sum of nothing but zeros, and of nothing.
LEMMA SumZero ==
  ASSUME NEW D, IsFiniteSet(D)
  PROVE  Total([d \in D |-> 0]) = 0
<1> DEFINE f == [d \in D |-> 0]
<1>1. DOMAIN f = D /\ f \in [D -> Nat] /\ \A d \in D : f[d] = 0
  OBVIOUS
<1> HIDE DEF f
<1>2. PICK g : IsFold(g, D, f) /\ Total(f) = g[D]
  BY <1>1, SumIsFold
<1> DEFINE T == {n \in Nat : \A s \in SUBSET D : Cardinality(s) = n => g[s] = 0}
<1>3. 0 \in T
  <2>1. ASSUME NEW s \in SUBSET D, Cardinality(s) = 0 PROVE g[s] = 0
    <3>1. s = {}
      BY <2>1, FS_Subset, FS_EmptySet
    <3>2. QED
      BY <1>2, <3>1, FoldStep
  <2>2. QED
    BY <2>1
<1>4. ASSUME NEW n \in Nat, n \in T PROVE n + 1 \in T
  <2>1. ASSUME NEW s \in SUBSET D, Cardinality(s) = n + 1 PROVE g[s] = 0
    <3>1. s # {}
      BY <2>1, FS_EmptySet
    <3>2. Pick(s) \in D /\ s \ {Pick(s)} \in SUBSET D /\ Cardinality(s \ {Pick(s)}) = n
      BY <2>1, <3>1, PickLess
    <3>3. g[s] = f[Pick(s)] + g[s \ {Pick(s)}]
      BY <1>2, <3>1 DEF IsFold
    <3>4. f[Pick(s)] = 0 /\ g[s \ {Pick(s)}] = 0
      BY <1>1, <1>4, <3>2
    <3>5. QED
      BY <3>3, <3>4
  <2>2. QED
    BY <2>1
<1>5. Nat \subseteq T
  <2> HIDE DEF T
  <2>1. QED
    BY <1>3, <1>4, NatSetInduction
<1>6. QED
  BY <1>2, <1>5, FS_CardinalityType DEF f

\* The sum of numbers is a number.
LEMMA SumType ==
  ASSUME NEW D, IsFiniteSet(D), NEW f \in [D -> Nat]
  PROVE  Total(f) \in Nat
<1>1. CASE D = {}
  <2>1. f = [d \in D |-> 0]
    BY <1>1
  <2>2. QED
    BY <2>1, SumZero
<1>2. CASE D # {}
  BY <1>2, SumDiffer
<1>3. QED
  BY <1>1, <1>2

-----------------------------------------------------------------------------
\* However the clients are run, a client sends one end, after which it sends nothing, and is
\* reported when that is received.
Once ==
  /\ \A i \in 1..Len(buffer) : buffer[i].end =>
       /\ pc[buffer[i].client] = "ok"
       /\ \A j \in i + 1..Len(buffer) : buffer[j].end => buffer[j].client # buffer[i].client
  /\ \A c \in Clients : Reported(c) => pc[c] = "ok" /\ ~EndInBuffer(c)

\* The counter is the sum of its shares, and what the clients sent is the sum of what became
\* of it.
ReportTotals == [c \in Clients |-> Total(report[c])]
Account ==
  /\ stats = Total(share)
  /\ Total(sent) = Total(dropped) + stats + Total(ReportTotals)
                   + Cardinality(Places(buffer, Clients))

\* No step sends or reports an end twice.
LEMMA OnceStep ==
  ASSUME Typed, Typed', Once, [Next]_vars
  PROVE  Once'
<1>0. Len(buffer) \in Nat
  BY Sorts
<1>1. ASSUME NEW c \in Clients, pc[c] \in {"idle", "send"}, UNCHANGED <<buffer, report>>,
             pc' = pc \/ \E to \in {"send", "ok", "aborted"} : pc' = [pc EXCEPT ![c] = to]
      PROVE  Once'
  <2>1. \A d \in Clients : pc[d] = "ok" => pc'[d] = "ok"
    BY <1>1 DEF Typed, TypeOK
  <2>2. \A d : EndInBuffer(d)' <=> EndInBuffer(d)
    BY <1>1 DEF EndInBuffer
  <2>3. QED
    BY <1>1, <2>1, <2>2, Sorts DEF Once, Reported
<1>2. ASSUME NEW c \in Clients, NEW e \in BOOLEAN, pc[c] = "send", UNCHANGED <<share, report>>,
             buffer' = Append(buffer, [client |-> c, end |-> e]),
             \A d \in Clients \ {c} : pc'[d] = pc[d], e => pc'[c] = "ok"
      PROVE  Once'
  <2>1. /\ Len(buffer') = Len(buffer) + 1 /\ buffer'[Len(buffer) + 1] = [client |-> c, end |-> e]
        /\ \A i \in 1..Len(buffer) : buffer'[i] = buffer[i]
        /\ \A d : EndInBuffer(d)' <=> EndInBuffer(d) \/ (d = c /\ e)
    BY <1>2, Added
  <2>2. \A i \in 1..Len(buffer) : buffer[i].end => buffer[i].client \in Clients \ {c}
    BY <1>2, Sorts DEF Once
  <2>3. ASSUME NEW i \in 1..Len(buffer'), buffer'[i].end
        PROVE  /\ pc'[buffer'[i].client] = "ok"
               /\ \A j \in i + 1..Len(buffer') :
                    buffer'[j].end => buffer'[j].client # buffer'[i].client
    <3>1. CASE i = Len(buffer) + 1
      BY <1>0, <1>2, <2>1, <2>3, <3>1
    <3>2. CASE i # Len(buffer) + 1
      <4>1. i \in 1..Len(buffer)
        BY <1>0, <2>1, <3>2
      <4>2. /\ buffer[i].client \in Clients \ {c} /\ pc[buffer[i].client] = "ok"
            /\ \A j \in i + 1..Len(buffer) : buffer[j].end => buffer[j].client # buffer[i].client
        BY <2>1, <2>2, <2>3, <4>1 DEF Once
      <4>3. ASSUME NEW j \in i + 1..Len(buffer'), buffer'[j].end
            PROVE  buffer'[j].client # buffer[i].client
        <5>1. CASE j = Len(buffer) + 1
          BY <2>1, <4>2, <5>1
        <5>2. CASE j # Len(buffer) + 1
          <6>1. Len(buffer') = Len(buffer) + 1
            BY <2>1
          <6>2. j \in i + 1..Len(buffer)
            BY <1>0, <5>2, <6>1
          <6>3. j \in 1..Len(buffer)
            BY <1>0, <4>1, <6>2
          <6>4. QED
            BY <2>1, <4>2, <4>3, <6>2, <6>3
        <5>3. QED
          BY <5>1, <5>2
      <4>4. QED
        BY <1>2, <2>1, <4>1, <4>2, <4>3
    <3>3. QED
      BY <3>1, <3>2
  <2>4. \A d \in Clients : Reported(d)' => pc'[d] = "ok" /\ ~EndInBuffer(d)'
    BY <1>2, <2>1 DEF Once, Reported
  <2>5. QED
    BY <2>3, <2>4 DEF Once
<1>3. ASSUME buffer # <<>>, buffer' = Tail(buffer), pc' = pc,
             \A d \in Clients : Reported(d)' =>
               Reported(d) \/ (d = Head(buffer).client /\ Head(buffer).end)
      PROVE  Once'
  <2>1. /\ Len(buffer) \in Nat \ {0} /\ Len(buffer') = Len(buffer) - 1 /\ Head(buffer) = buffer[1]
        /\ \A i \in 1..Len(buffer) - 1 : buffer'[i] = buffer[i + 1]
        /\ \A d : EndInBuffer(d)' => \E j \in 2..Len(buffer) : buffer[j].client = d /\ buffer[j].end
    BY <1>3, Taken
  <2>2. ASSUME NEW i \in 1..Len(buffer'), buffer'[i].end
        PROVE  /\ pc'[buffer'[i].client] = "ok"
               /\ \A j \in i + 1..Len(buffer') :
                    buffer'[j].end => buffer'[j].client # buffer'[i].client
    <3>1. i + 1 \in 1..Len(buffer) /\ buffer'[i] = buffer[i + 1]
      BY <2>1
    <3>2. /\ pc[buffer[i + 1].client] = "ok"
          /\ \A j \in (i + 1) + 1..Len(buffer) :
               buffer[j].end => buffer[j].client # buffer[i + 1].client
      BY <2>2, <3>1 DEF Once
    <3>3. ASSUME NEW j \in i + 1..Len(buffer')
          PROVE  j + 1 \in (i + 1) + 1..Len(buffer) /\ buffer'[j] = buffer[j + 1]
      <4>1. Len(buffer) \in Nat \ {0} /\ Len(buffer') = Len(buffer) - 1
        BY <2>1
      <4>2. j + 1 \in (i + 1) + 1..Len(buffer) /\ j \in 1..Len(buffer) - 1
        BY <4>1
      <4>3. QED
        BY <2>1, <4>2
    <3>4. QED
      BY <1>3, <3>1, <3>2, <3>3
  <2>3. ASSUME NEW d \in Clients, Reported(d)'
        PROVE  pc'[d] = "ok" /\ ~EndInBuffer(d)'
    <3>1. 1 \in 1..Len(buffer) /\ 2..Len(buffer) \subseteq 1..Len(buffer)
      BY <2>1
    <3>2. CASE Reported(d)
      BY <1>3, <2>1, <3>1, <3>2 DEF Once, EndInBuffer
    <3>3. CASE d = Head(buffer).client /\ Head(buffer).end
      <4>1. /\ pc[d] = "ok"
            /\ \A j \in 1 + 1..Len(buffer) : buffer[j].end => buffer[j].client # d
        BY <2>1, <3>1, <3>3 DEF Once
      <4>2. QED
        BY <1>3, <2>1, <4>1
    <3>4. QED
      BY <1>3, <2>3, <3>2, <3>3
  <2>4. QED
    BY <2>2, <2>3 DEF Once
<1>4. ASSUME NEW c \in Clients, Start(c) \/ Abort(c) PROVE Once'
  BY <1>1, <1>4 DEF Start, MayStart, Abort, serverVars
<1>5. ASSUME NEW c \in Clients, Send(c) PROVE Once'
  <2>1. pc[c] = "send" /\ UNCHANGED <<pc, share, report>>
    BY <1>5 DEF Send, serverVars
  <2>2. CASE Fits
    BY <1>2, <1>5, <2>1, <2>2 DEF Send
  <2>3. CASE ~Fits
    BY <1>1, <1>5, <2>1, <2>3 DEF Send
  <2>4. QED
    BY <2>2, <2>3
<1>6. ASSUME NEW c \in Clients, Finish(c) PROVE Once'
  <2>1. /\ pc[c] = "send" /\ UNCHANGED <<share, report>> /\ pc' = [pc EXCEPT ![c] = "ok"]
        /\ pc'[c] = "ok" /\ \A d \in Clients \ {c} : pc'[d] = pc[d]
    BY <1>6 DEF Finish, serverVars, Typed, TypeOK
  <2>2. CASE Fits
    BY <1>2, <1>6, <2>1, <2>2 DEF Finish
  <2>3. CASE ~Fits
    BY <1>1, <1>6, <2>1, <2>3 DEF Finish
  <2>4. QED
    BY <2>2, <2>3
<1>7. CASE ReceivePayload
  BY <1>3, <1>7 DEF ReceivePayload, clientVars, Reported
<1>8. CASE ReceiveEnd
  <2>1. \A d \in Clients \ {Head(buffer).client} : report'[d] = report[d]
    BY <1>8 DEF ReceiveEnd, Typed
  <2>2. QED
    BY <1>3, <1>8, <2>1 DEF ReceiveEnd, clientVars, Reported
<1>9. CASE ServerStops \/ UNCHANGED vars
  BY <1>9 DEF ServerStops, vars, clientVars, Once, Reported, EndInBuffer
<1>10. QED
  BY <1>4, <1>5, <1>6, <1>7, <1>8, <1>9 DEF Next, ClientStep, ServerStep

\* One chunk more in a sum.
LEMMA OneMore ==
  ASSUME IsFiniteSet(Clients), NEW f \in [Clients -> Nat], NEW e \in [Clients -> Nat],
         NEW c \in Clients, e[c] = f[c] + 1, \A d \in Clients \ {c} : e[d] = f[d]
  PROVE  Total(f) \in Nat /\ Total(e) = Total(f) + 1
<1>1. Total(f) \in Nat /\ Total(e) \in Nat /\ Total(e) + f[c] = Total(f) + e[c]
  BY SumDiffer
<1>2. f[c] \in Nat
  OBVIOUS
<1>3. QED
  BY <1>1, <1>2

\* The totals are numbers.
LEMMA TotalsTyped ==
  ASSUME IsFiniteSet(Clients), Typed
  PROVE  /\ Total(sent) \in Nat /\ Total(dropped) \in Nat /\ Total(share) \in Nat
         /\ ReportTotals \in [Clients -> Nat] /\ Total(ReportTotals) \in Nat
         /\ Cardinality(Places(buffer, Clients)) \in Nat
<1>1. Total(sent) \in Nat /\ Total(dropped) \in Nat /\ Total(share) \in Nat
  BY SumType DEF Typed, TypeOK
<1>2. ReportTotals \in [Clients -> Nat]
  <2>1. Total(None) = 0
    BY SumZero, FS_EmptySet DEF None
  <2>2. ASSUME NEW c \in Clients PROVE Total(report[c]) \in Nat
    <3>1. report[c] = None \/ report[c] \in [Clients -> Nat]
      BY DEF Typed
    <3>2. QED
      BY <2>1, <3>1, SumType
  <2>3. QED
    BY <2>2 DEF ReportTotals
<1>3. Total(ReportTotals) \in Nat
  BY <1>2, SumType
<1>4. Cardinality(Places(buffer, Clients)) \in Nat
  BY PlacesFinite DEF Typed, TypeOK
<1>5. QED
  BY <1>1, <1>2, <1>3, <1>4

\* Every step keeps the account.
LEMMA AccountStep ==
  ASSUME IsFiniteSet(Clients), Typed, Typed', Once, Account, [Next]_vars
  PROVE  Account'
<1> DEFINE Q == Cardinality(Places(buffer, Clients))
<1>1. /\ buffer \in Seq(Datagram)
      /\ \A c \in Clients, e \in BOOLEAN : [client |-> c, end |-> e] \in Datagram
  BY DEF Typed, TypeOK, Datagram
<1>2. ASSUME UNCHANGED <<sent, dropped, stats, share, report, buffer>> PROVE Account'
  BY <1>2 DEF Account, ReportTotals, Places
<1>3. report' = report => Total(ReportTotals)' = Total(ReportTotals)
  BY DEF ReportTotals
<1>4. ASSUME NEW c \in Clients, Send(c) PROVE Account'
  <2>1. /\ UNCHANGED <<stats, share, report>>
        /\ sent'[c] = sent[c] + 1 /\ \A d \in Clients \ {c} : sent'[d] = sent[d]
    BY <1>4 DEF Send, serverVars, Typed
  <2>2. Total(sent') = Total(sent) + 1
    BY <2>1, OneMore DEF Typed
  <2>3. CASE Fits
    <3>1. UNCHANGED dropped /\ buffer' = Append(buffer, [client |-> c, end |-> FALSE])
      BY <1>4, <2>3 DEF Send
    <3>2. Q' = Q + 1
      <4> DEFINE d == [client |-> c, end |-> FALSE]
      <4>1. d \in Datagram /\ d.client \in Clients /\ ~d.end
        BY <1>1
      <4> HIDE DEF d
      <4>2. Cardinality(Places(Append(buffer, d), Clients)) = Q + 1
        BY <1>1, <4>1, AppendPlaces
      <4>3. QED
        BY <3>1, <4>2 DEF d, Places
    <3>3. QED
      BY <1>3, <2>1, <2>2, <3>1, <3>2, TotalsTyped DEF Account
  <2>4. CASE ~Fits
    <3>1. /\ UNCHANGED buffer
          /\ dropped'[c] = dropped[c] + 1 /\ \A d \in Clients \ {c} : dropped'[d] = dropped[d]
      BY <1>4, <2>4 DEF Send, Typed, TypeOK
    <3>2. Total(dropped') = Total(dropped) + 1 /\ Q' = Q
      BY <3>1, OneMore DEF Typed, TypeOK, Places
    <3>3. QED
      BY <1>3, <2>1, <2>2, <3>2, TotalsTyped DEF Account
  <2>5. QED
    BY <2>3, <2>4
<1>5. ASSUME NEW c \in Clients, Finish(c) PROVE Account'
  <2>1. UNCHANGED <<sent, dropped, stats, share, report>>
    BY <1>5 DEF Finish, serverVars
  <2>2. CASE Fits
    <3> DEFINE d == [client |-> c, end |-> TRUE]
    <3>1. d \in Datagram /\ d.end /\ buffer' = Append(buffer, d)
      BY <1>1, <1>5, <2>2 DEF Finish
    <3> HIDE DEF d
    <3>2. Cardinality(Places(Append(buffer, d), Clients)) = Q + 0
      BY <1>1, <3>1, AppendPlaces
    <3>3. Q' = Q
      <4>1. Q' = Cardinality(Places(Append(buffer, d), Clients))
        BY <3>1 DEF Places
      <4>2. Q \in Nat
        BY TotalsTyped
      <4> HIDE DEF Q
      <4>3. QED
        BY <3>2, <4>1, <4>2 DEF Q
    <3>4. QED
      BY <1>3, <2>1, <3>3 DEF Account
  <2>3. CASE ~Fits
    BY <1>2, <1>5, <2>1, <2>3 DEF Finish
  <2>4. QED
    BY <2>2, <2>3
<1>6. ASSUME buffer # <<>>, buffer' = Tail(buffer)
      PROVE  /\ Head(buffer).client \in Clients /\ Head(buffer).end \in BOOLEAN
             /\ Q = Q' + IF ~Head(buffer).end THEN 1 ELSE 0
  <2>1. Head(buffer) \in Datagram
    BY <1>1, <1>6, Popped
  <2>2. Q = Cardinality(Places(Tail(buffer), Clients))
              + IF Head(buffer).client \in Clients /\ ~Head(buffer).end THEN 1 ELSE 0
    BY <1>1, <1>6, TailPlaces
  <2>3. Head(buffer).client \in Clients /\ Head(buffer).end \in BOOLEAN
    BY <2>1 DEF Datagram
  <2>4. Q' = Cardinality(Places(Tail(buffer), Clients))
    BY <1>6 DEF Places
  <2>5. QED
    BY <2>2, <2>3, <2>4
<1>7. Q \in Nat /\ Q' \in Nat
  <2>1. buffer' \in Seq(Datagram)
    BY DEF Typed, TypeOK, Datagram
  <2>2. QED
    BY <1>1, <2>1, PlacesFinite
<1>8. CASE ReceivePayload
  <2>1. /\ UNCHANGED <<sent, dropped, report>> /\ stats' = stats + 1
        /\ buffer # <<>> /\ ~Head(buffer).end /\ buffer' = Tail(buffer)
        /\ share' = [share EXCEPT ![Head(buffer).client] = @ + 1]
    BY <1>8 DEF ReceivePayload, Count, clientVars
  <2>2. PICK h \in Clients : h = Head(buffer).client
    BY <1>6, <2>1
  <2>3. Q = Q' + 1
    BY <1>6, <2>1
  <2>4. Total(share') = Total(share) + 1
    <3>1. share'[h] = share[h] + 1 /\ \A d \in Clients \ {h} : share'[d] = share[d]
      BY <2>1, <2>2 DEF Typed, TypeOK
    <3>2. QED
      BY <3>1, OneMore DEF Typed, TypeOK
  <2>5. Total(ReportTotals)' = Total(ReportTotals)
    BY <1>3, <2>1
  <2> HIDE DEF Q
  <2>6. QED
    BY SMTT(60), <1>7, <2>1, <2>3, <2>4, <2>5, TotalsTyped DEF Account, Q
<1>9. CASE ReceiveEnd
  <2>1. /\ UNCHANGED <<sent, dropped>> /\ stats' = 0 /\ share' = NoShare
        /\ buffer # <<>> /\ Head(buffer).end /\ buffer' = Tail(buffer)
        /\ report' = [report EXCEPT ![Head(buffer).client] = share]
    BY <1>9 DEF ReceiveEnd, PrintAndReset, clientVars
  <2>2. PICK h \in Clients : h = Head(buffer).client
    BY <1>6, <2>1
  <2>3. Q = Q'
    BY <1>6, <1>7, <2>1
  <2>4. report[h] = None
    <3>1. EndInBuffer(h)
      <4>1. 1 \in 1..Len(buffer) /\ Head(buffer) = buffer[1]
        BY <1>1, <2>1, Popped
      <4>2. QED
        BY <2>1, <2>2, <4>1 DEF EndInBuffer
    <3>2. QED
      BY <3>1 DEF Once, Reported
  <2>5. /\ Total(ReportTotals') \in Nat
        /\ Total(ReportTotals') + 0 = Total(ReportTotals) + Total(share)
    <3>1. /\ ReportTotals \in [Clients -> Nat] /\ ReportTotals' \in [Clients -> Nat]
          /\ ReportTotals[h] = 0 /\ ReportTotals'[h] = Total(share)
          /\ \A d \in Clients \ {h} : ReportTotals'[d] = ReportTotals[d]
      <4>1. Total(report[h]) = 0
        BY <2>4, SumZero, FS_EmptySet DEF None
      <4>2. report'[h] = share /\ \A d \in Clients \ {h} : report'[d] = report[d]
        BY <2>1, <2>2 DEF Typed
      <4>3. /\ ReportTotals = [d \in Clients |-> Total(report[d])]
            /\ ReportTotals' = [d \in Clients |-> Total(report'[d])]
        BY DEF ReportTotals
      <4>4. ReportTotals \in [Clients -> Nat] /\ Total(share) \in Nat
        BY TotalsTyped
      <4>5. \A d \in Clients : ReportTotals'[d] \in Nat
        BY <4>2, <4>3, <4>4
      <4>6. QED
        BY <4>1, <4>2, <4>3, <4>4, <4>5
    <3>2. QED
      BY <3>1, SumDiffer
  <2>6. Total(share') = 0
    BY <2>1, SumZero DEF NoShare
  <2>7. QED
    BY <1>7, <2>1, <2>3, <2>5, <2>6, TotalsTyped DEF Account
<1>10. ASSUME NEW c \in Clients, Start(c) \/ Abort(c) PROVE Account'
  BY <1>2, <1>10 DEF Start, Abort, serverVars
<1>11. CASE ServerStops \/ UNCHANGED vars
  BY <1>2, <1>11 DEF ServerStops, vars, clientVars, serverVars
<1>12. QED
  BY <1>4, <1>5, <1>8, <1>9, <1>10, <1>11 DEF Next, ClientStep, ServerStep

\* For finitely many clients, run in turn or not, every chunk a client counts as sent is in
\* the buffer, dropped, in the server's counter or in exactly one printed report.
THEOREM ChunksConserved ==
  ASSUME IsFiniteSet(Clients)
  PROVE  Spec => []Conserved
<1> DEFINE CInv == Typed /\ Once /\ Account
<1>1. Init => CInv
  <2> SUFFICES ASSUME Init PROVE CInv
    OBVIOUS
  <2>1. Typed
    BY TypedInit
  <2>2. /\ buffer = <<>> /\ stats = 0 /\ sent = NoShare /\ dropped = NoShare /\ share = NoShare
        /\ report = [c \in Clients |-> None]
    BY DEF Init
  <2>3. Once
    BY <2>2 DEF Once, Reported
  <2>4. Total(NoShare) = 0
    BY SumZero DEF NoShare
  <2>5. Total(ReportTotals) = 0
    <3>1. Total(None) = 0
      BY SumZero, FS_EmptySet DEF None
    <3>2. ReportTotals = [c \in Clients |-> 0]
      BY <2>2, <3>1 DEF ReportTotals
    <3>3. QED
      BY <3>2, SumZero
  <2>6. Cardinality(Places(buffer, Clients)) = 0
    <3>1. Places(buffer, Clients) = {}
      BY <2>2 DEF Places
    <3>2. QED
      BY <3>1, FS_EmptySet
  <2>7. Account
    BY <2>2, <2>4, <2>5, <2>6 DEF Account
  <2>8. QED
    BY <2>1, <2>3, <2>7
<1>2. CInv /\ [Next]_vars => CInv'
  BY TypedStep, OnceStep, AccountStep
<1>3. CInv => Conserved
  <2> SUFFICES ASSUME CInv PROVE Conserved
    OBVIOUS
  <2>1. [c \in Clients |-> Total(report[c])] = ReportTotals
    BY DEF ReportTotals
  <2>2. {i \in 1..Len(buffer) : ~buffer[i].end} = Places(buffer, Clients)
    BY Sorts DEF Places
  <2>3. QED
    BY <2>1, <2>2 DEF Conserved, Account, Typed
<1>4. QED
  BY <1>1, <1>2, <1>3, PTL DEF Spec

==============================================================================
