--------------------------- MODULE GpsRoverProofs ---------------------------
(***************************************************************************)
(* Proofs about GpsRover, for every limit and all lengths of bursts that   *)
(* satisfy RoverAssumption.                                                *)
(***************************************************************************)
EXTENDS GpsRover, TLAPS

-----------------------------------------------------------------------------
(* The invariants.                                                         *)

\* The types, by what the provers can handle together.
Places == pc \in Location /\ uniform \in BOOLEAN /\ arrived \in BOOLEAN

Counts ==
  /\ size \in Sizes \cup {0} /\ size \in Nat
  /\ due \in Nat /\ due <= size /\ indexin \in Nat /\ indexin <= size
  /\ oldindexin \in Nat /\ count \in Nat

Buffers ==
  /\ message \in Seq(Nat) /\ output \in Seq(Nat)
  /\ Len(message) \in Nat /\ Len(output) \in Nat

\* What the thread reads of message has been stored, in this burst.
BufferInv ==
  /\ indexin + due <= size /\ indexin <= Len(message)
  /\ pc = "writing" => count <= indexin

\* For bursts of any lengths: message goes forward, from where the last write
\* of the burst ended.
ForwardInv ==
  /\ \A i, j \in 1..indexin : i < j => message[i] < message[j]
  /\ \A i \in 1..indexin : message[i] <= size - due
  /\ \A k \in 1..Len(output) : output[k] <= size - due
  /\ pc # "restart"
       => \A k \in 1..Len(output), i \in 1..indexin : output[k] < message[i]
  /\ \A k, l \in 1..Len(output) : k < l => output[k] < output[l]

InOrder(s, n) == \A i \in 1..n : s[i] = i

\* For bursts of one length.  That of the last burst, which oldindexin keeps, is
\* not reached before the burst is complete; nor are two samples alike.
UniformInv ==
  uniform =>
    /\ size = 0 => pc = "sample" /\ oldindexin = 0 /\ ~arrived
    /\ pc = "sample" /\ (due > 0 \/ indexin > 0)
         => /\ output = << >> /\ indexin = size - due
            /\ InOrder(message, indexin)
            /\ \/ oldindexin = size \/ oldindexin < indexin
               \/ oldindexin = indexin /\ ~arrived
    /\ pc = "sample" /\ due = 0 /\ indexin = 0
         => /\ oldindexin = size
            /\ Len(output) = Least(size, LIMIT) /\ InOrder(output, Len(output))
    /\ pc # "sample" => due = 0 /\ oldindexin = size
    /\ pc = "limit" => indexin = size
    /\ pc \in {"write", "writing", "restart"} => indexin = Least(size, LIMIT)
    /\ pc \in {"limit", "write", "writing"}
         => output = << >> /\ InOrder(message, indexin)
    /\ pc = "restart" => Len(output) = indexin /\ InOrder(output, indexin)
    /\ count = IF pc = "writing" THEN indexin ELSE 0

RInv == Places /\ Counts /\ Buffers /\ BufferInv /\ ForwardInv /\ UniformInv

-----------------------------------------------------------------------------
(* Facts about the data, after which sequences are not built any more.     *)

\* The beginning of a sequence.
LEMMA PrefixFacts ==
  ASSUME NEW s \in Seq(Nat), NEW n \in 0..Len(s)
  PROVE  /\ SubSeq(s, 1, n) \in Seq(Nat) /\ Len(SubSeq(s, 1, n)) = n
         /\ \A i \in 1..n : SubSeq(s, 1, n)[i] = s[i]
  OBVIOUS

\* Two sequences one behind the other.
LEMMA ConcatFacts ==
  ASSUME NEW s \in Seq(Nat), NEW t \in Seq(Nat)
  PROVE  /\ s \o t \in Seq(Nat) /\ Len(s \o t) = Len(s) + Len(t)
         /\ \A i \in 1..Len(s) : (s \o t)[i] = s[i]
         /\ \A i \in 1..Len(t) : (s \o t)[Len(s) + i] = t[i]
  OBVIOUS

\* What RX_COMPLETE makes of message: the packet is at its place, what was
\* counted before it is as it was.
Store(s, n, x) == SubSeq(s, 1, n) \o <<x>> \o SubSeq(s, n + 2, Len(s))

\* It fits behind the counted part of message, which stays as it was.
LEMMA StoreFacts ==
  ASSUME NEW s \in Seq(Nat), NEW n \in 0..Len(s), NEW x \in Nat
  PROVE  /\ Store(s, n, x) \in Seq(Nat) /\ n + 1 <= Len(Store(s, n, x))
         /\ Store(s, n, x)[n + 1] = x
         /\ \A i \in 1..n : Store(s, n, x)[i] = s[i]
<1> DEFINE a == SubSeq(s, 1, n)
           b == SubSeq(s, n + 2, Len(s))
           c == a \o <<x>>
<1>1. a \in Seq(Nat) /\ Len(a) = n /\ \A i \in 1..n : a[i] = s[i]
  BY PrefixFacts
<1>2. b \in Seq(Nat) /\ Len(b) \in Nat /\ n \in Nat
  OBVIOUS
<1>3. c \in Seq(Nat) /\ Len(c) = n + 1 /\ c[n + 1] = x
      /\ \A i \in 1..n : c[i] = s[i]
  <2> HIDE DEF a
  <2>1. c = Append(a, x)
    BY <1>1
  <2> QED BY <1>1, <2>1
<1>4. Store(s, n, x) = c \o b
  BY DEF Store
<1> HIDE DEF a, b, c
<1>5. /\ c \o b \in Seq(Nat) /\ Len(c \o b) = Len(c) + Len(b)
      /\ \A i \in 1..Len(c) : (c \o b)[i] = c[i]
  BY <1>2, <1>3, ConcatFacts
<1>6. \A i \in 1..n : i \in 1..(n + 1)
  BY <1>2
<1>7. n + 1 \in 1..(n + 1) /\ n + 1 <= n + 1 + Len(b)
  BY <1>2
<1> QED BY <1>3, <1>4, <1>5, <1>6, <1>7

\* What a write adds to the output.
Written(o, s, n) == o \o SubSeq(s, 1, n)

\* The output keeps what it had, and goes on with the beginning of message.
LEMMA WriteFacts ==
  ASSUME NEW s \in Seq(Nat), NEW o \in Seq(Nat), NEW n \in 0..Len(s)
  PROVE  /\ Written(o, s, n) \in Seq(Nat)
         /\ Len(Written(o, s, n)) = Len(o) + n
         /\ \A k \in 1..Len(o) : Written(o, s, n)[k] = o[k]
         /\ \A i \in 1..n : Written(o, s, n)[Len(o) + i] = s[i]
<1> DEFINE a == SubSeq(s, 1, n)
<1>1. a \in Seq(Nat) /\ Len(a) = n /\ \A i \in 1..n : a[i] = s[i]
  BY PrefixFacts
<1>2. Written(o, s, n) = o \o a
  BY DEF Written
<1> HIDE DEF a
<1>3. /\ o \o a \in Seq(Nat) /\ Len(o \o a) = Len(o) + Len(a)
      /\ \A i \in 1..Len(o) : (o \o a)[i] = o[i]
      /\ \A i \in 1..Len(a) : (o \o a)[Len(o) + i] = a[i]
  BY <1>1, ConcatFacts
<1> QED BY <1>1, <1>2, <1>3

USE RoverAssumption DEF RoverAssumption, Location, lineVars

\* They are TypeOK.
LEMMA Types == TypeOK <=> Places /\ Counts /\ Buffers
<1>1. TypeOK => Places
  BY DEF TypeOK, Places
<1>2. TypeOK => Counts
  BY DEF TypeOK, Counts
<1>3. TypeOK => Buffers
  BY DEF TypeOK, Buffers
<1>4. ASSUME Places, Counts, Buffers PROVE TypeOK
  <2>1. indexin \in 0..size /\ due \in 0..size
    BY <1>4 DEF Counts
  <2> QED BY <1>4, <2>1 DEF TypeOK, Places, Counts, Buffers
<1> QED BY <1>1, <1>2, <1>3, <1>4

-----------------------------------------------------------------------------
(* Each action preserves them.                                             *)

\* Before the first burst everything is empty.
LEMMA InitRInv == Init => RInv
<1> SUFFICES ASSUME Init PROVE RInv
  OBVIOUS
<1>1. message \in Seq(Nat) /\ Len(message) = 0 /\ output \in Seq(Nat)
      /\ Len(output) = 0
  BY DEF Init
<1>2. Places
  BY DEF Init, Places
<1>3. Counts
  BY DEF Init, Counts
<1>4. Buffers
  BY <1>1 DEF Buffers
<1>5. BufferInv
  BY <1>1 DEF Init, BufferInv
<1>6. ForwardInv
  BY <1>1 DEF Init, ForwardInv
<1>7. UniformInv
  BY <1>1 DEF Init, UniformInv, InOrder, Least
<1> QED BY <1>2, <1>3, <1>4, <1>5, <1>6, <1>7, Types DEF RInv

\* RX_COMPLETE, wherever the thread is: the packet is the latest of the burst.
LEMMA ReceiveRInv == ASSUME RInv, Receive PROVE RInv'
<1>1. Places /\ Counts /\ Buffers /\ BufferInv /\ ForwardInv /\ UniformInv
  BY DEF RInv
<1>2. /\ due > 0 /\ due' = due - 1 /\ indexin' = indexin + 1 /\ arrived' = TRUE
      /\ UNCHANGED <<pc, oldindexin, count, size, uniform, output>>
  BY DEF Receive
<1>3. indexin \in 0..Len(message) /\ size - due + 1 \in Nat
  BY <1>1 DEF Counts, Buffers, BufferInv
<1>4. message' = Store(message, indexin, size - due + 1)
  BY DEF Receive, Store
<1>5. /\ message' \in Seq(Nat) /\ indexin + 1 <= Len(message')
      /\ message'[indexin + 1] = size - due + 1
      /\ \A i \in 1..indexin : message'[i] = message[i]
  BY <1>1, <1>3, <1>4, StoreFacts DEF Buffers
<1>6. Places'
  BY <1>1, <1>2 DEF Places
<1>7. Counts' /\ Buffers' /\ BufferInv'
  BY <1>1, <1>2, <1>5 DEF Counts, Buffers, BufferInv
<1>8. ForwardInv'
  <2>1. \A i \in 1..indexin' : i \in 1..indexin \/ i = indexin + 1
    BY <1>1, <1>2 DEF Counts
  <2>2. size' - due' = size - due + 1 /\ size - due \in Int
    BY <1>1, <1>2 DEF Counts
  <2>3. /\ \A i \in 1..indexin : message[i] \in Nat
        /\ \A k \in 1..Len(output) : output[k] \in Nat
    BY <1>1, <1>3 DEF Buffers
  <2>4. \A i \in 1..indexin : message'[i] <= size - due
    BY <1>1, <1>5 DEF ForwardInv
  <2>5. \A i \in 1..indexin' : message'[i] <= size' - due'
    BY <1>5, <2>1, <2>2, <2>3, <2>4
  <2>6. \A i, j \in 1..indexin' : i < j => message'[i] < message'[j]
    <3>1. \A i, j \in 1..indexin : i < j => message'[i] < message'[j]
      BY <1>1, <1>5 DEF ForwardInv
    <3>2. \A i \in 1..indexin : message'[i] < message'[indexin + 1]
      BY <1>5, <2>2, <2>3, <2>4
    <3> QED BY <2>1, <3>1, <3>2, <1>3
  <2>7. \A k \in 1..Len(output) : output[k] <= size' - due'
    BY <1>1, <2>2, <2>3 DEF ForwardInv
  <2>8. pc # "restart"
          => \A k \in 1..Len(output), i \in 1..indexin' : output[k] < message'[i]
    BY <1>1, <1>5, <2>1, <2>2, <2>3 DEF ForwardInv
  <2> QED BY <1>1, <1>2, <2>5, <2>6, <2>7, <2>8 DEF ForwardInv
<1>9. UniformInv'
  BY <1>1, <1>2, <1>5 DEF Counts, BufferInv, UniformInv, InOrder
<1> QED BY <1>6, <1>7, <1>8, <1>9 DEF RInv

\* The numbers of a burst of which nothing has come yet.
LEMMA NothingYet ==
  ASSUME NEW n \in Nat, NEW d, NEW i, d = n, i = 0
  PROVE  /\ d \in Nat /\ i \in Nat /\ d <= n /\ i <= n /\ i + d <= n
         /\ i = n - d /\ (n > 0 => d # 0)
  OBVIOUS

\* A burst begins while message is free and the thread samples.
LEMMA BurstStartsRInv == ASSUME RInv, BurstStarts PROVE RInv'
<1> USE DEF RInv, BurstStarts
<1>1. size' \in Sizes /\ size' \in Nat /\ size' > 0 /\ due' = size'
  BY DEF Counts
<1>2. /\ due = 0 /\ pc = "sample" /\ indexin = 0
      /\ UNCHANGED <<pc, indexin, oldindexin, message, count, uniform, arrived>>
  OBVIOUS
<1>3. output' = << >> /\ Len(output') = 0 /\ output' \in Seq(Nat)
  OBVIOUS
<1> HIDE DEF BurstStarts
<1>4. Places'
  BY <1>2 DEF Places
<1> USE DEF Counts, Buffers, BufferInv
<1>5. Counts' /\ BufferInv'
  <2>1. size' \in Sizes \cup {0}
    BY <1>1
  <2>2. due' <= size' /\ indexin' <= size' /\ due' \in Nat
        /\ indexin' + due' <= size'
    <3> HIDE DEF Counts, Buffers, BufferInv, RInv
    <3>1. size' \in Nat /\ due' = size' /\ indexin' = 0
      BY <1>1, <1>2
    <3> QED BY <3>1, NothingYet
  <2>3. indexin' <= Len(message') /\ pc' # "writing"
    BY <1>2
  <2>4. indexin' \in Nat /\ oldindexin' \in Nat /\ count' \in Nat
    BY <1>2
  <2> QED BY <1>1, <2>1, <2>2, <2>3, <2>4
<1>6. Buffers'
  BY <1>2, <1>3
<1>7. ForwardInv'
  BY <1>1, <1>2, <1>3 DEF ForwardInv
<1>8. UniformInv'
  <2> SUFFICES ASSUME uniform PROVE UniformInv'
    BY <1>2 DEF UniformInv
  <2>1. oldindexin = size /\ (size = 0 => oldindexin = 0 /\ ~arrived) /\ count = 0
    BY <1>2 DEF UniformInv
  <2>2. oldindexin = size' \/ (oldindexin = indexin /\ ~arrived)
    BY <1>2, <2>1 DEF BurstStarts
  <2> HIDE DEF Counts, Buffers, BufferInv, RInv
  <2>3. indexin' = 0 /\ due' # 0 /\ indexin' = size' - due'
    <3>1. size' \in Nat /\ size' > 0 /\ due' = size' /\ indexin' = 0
      BY <1>1, <1>2
    <3>2. indexin' = size' - due' /\ due' # 0
      BY <3>1, NothingYet
    <3> QED BY <3>1, <3>2
  <2>4. InOrder(message, indexin)'
    BY <2>3 DEF InOrder
  <2>5. size' # 0 /\ pc' = "sample"
    BY <1>1, <1>2
  <2>6. oldindexin' = size' \/ (oldindexin' = indexin' /\ ~arrived')
    BY <1>2, <2>2
  <2>7. count' = 0 /\ output' = << >>
    BY <1>2, <1>3, <2>1
  <2> QED BY <2>3, <2>4, <2>5, <2>6, <2>7, Zenon DEF UniformInv
<1> QED BY <1>4, <1>5, <1>6, <1>7, <1>8

\* Two samples alike, of bursts of one length, mean a complete burst.
LEMMA SampleRInv == ASSUME RInv, Sample PROVE RInv'
<1> USE DEF RInv, Sample
<1>1. Places' /\ Counts' /\ Buffers' /\ BufferInv'
  BY DEF Places, Counts, Buffers, BufferInv
<1>2. ForwardInv'
  BY DEF ForwardInv
<1>3. UniformInv'
  BY DEF Places, Counts, BufferInv, UniformInv, InOrder
<1> QED BY <1>1, <1>2, <1>3

\* Limiting indexin only takes packets off the end.
LEMMA LimitRInv == ASSUME RInv, Limit PROVE RInv'
<1> USE DEF RInv, Limit
<1>1. indexin' \in Nat /\ indexin' <= indexin /\ indexin \in Nat
  BY DEF Counts
<1>2. Places' /\ Counts' /\ Buffers' /\ BufferInv'
  BY <1>1 DEF Places, Counts, Buffers, BufferInv
<1>3. ForwardInv'
  BY <1>1 DEF ForwardInv
<1>4. UniformInv'
  BY <1>1 DEF Places, Counts, UniformInv, InOrder, Least
<1> QED BY <1>2, <1>3, <1>4

\* The write takes the length that was limited, or more that has come since.
LEMMA WriteBeginsRInv == ASSUME RInv, WriteBegins PROVE RInv'
<1> USE DEF RInv, WriteBegins
<1>1. Places' /\ Counts' /\ Buffers' /\ BufferInv'
  BY DEF Places, Counts, Buffers, BufferInv
<1>2. ForwardInv' /\ UniformInv'
  BY DEF Places, ForwardInv, UniformInv, InOrder
<1> QED BY <1>1, <1>2

\* What is written follows what was written before, in this burst.
LEMMA WriteEndsRInv == ASSUME RInv, WriteEnds PROVE RInv'
<1>1. Places /\ Counts /\ Buffers /\ BufferInv /\ ForwardInv /\ UniformInv
  BY DEF RInv
<1>2. /\ pc = "writing" /\ pc' = "restart" /\ count' = 0
      /\ UNCHANGED <<indexin, oldindexin, message, due, size, uniform, arrived>>
  BY DEF WriteEnds
<1>3. output' = Written(output, message, count)
  BY DEF WriteEnds, Written
<1>4. count \in 0..Len(message) /\ count <= indexin
  BY <1>1, <1>2 DEF Counts, Buffers, BufferInv
<1>5. /\ output' \in Seq(Nat) /\ Len(output') = Len(output) + count
      /\ \A k \in 1..Len(output) : output'[k] = output[k]
      /\ \A i \in 1..count : output'[Len(output) + i] = message[i]
  <2> DEFINE w == Written(output, message, count)
  <2>1. /\ w \in Seq(Nat) /\ Len(w) = Len(output) + count
        /\ \A k \in 1..Len(output) : w[k] = output[k]
        /\ \A i \in 1..count : w[Len(output) + i] = message[i]
    BY <1>1, <1>4, WriteFacts DEF Buffers
  <2> HIDE DEF w
  <2>2. output' = w
    BY <1>3 DEF w
  <2> QED BY <2>1, <2>2
<1>6. Places' /\ Counts' /\ BufferInv'
  BY <1>1, <1>2 DEF Places, Counts, BufferInv
<1>7. Buffers'
  BY <1>1, <1>2, <1>5 DEF Counts, Buffers
<1>8. ForwardInv'
  <2>1. \A k \in 1..Len(output') :
          \/ k \in 1..Len(output)
          \/ \E i \in 1..count : k = Len(output) + i
    <3> SUFFICES ASSUME NEW k \in 1..Len(output'), k \notin 1..Len(output)
                 PROVE  \E i \in 1..count : k = Len(output) + i
      OBVIOUS
    <3>1. k - Len(output) \in 1..count /\ k = Len(output) + (k - Len(output))
      BY <1>1, <1>5 DEF Counts, Buffers
    <3> QED BY <3>1
  <2>2. \A i \in 1..count : i \in 1..indexin
    BY <1>1, <1>4 DEF Counts
  <2>3. \A k \in 1..Len(output') : output'[k] <= size - due
    BY <1>1, <1>5, <2>1, <2>2 DEF ForwardInv
  <2>4. \A k, l \in 1..Len(output') : k < l => output'[k] < output'[l]
    <3> SUFFICES ASSUME NEW k \in 1..Len(output'), NEW l \in 1..Len(output'),
                        k < l
                 PROVE  output'[k] < output'[l]
      OBVIOUS
    <3>1. CASE l \in 1..Len(output)
      BY <1>1, <1>5, <3>1 DEF ForwardInv, Buffers
    <3>2. CASE k \in 1..Len(output) /\ l \notin 1..Len(output)
      BY <1>1, <1>2, <1>5, <2>1, <2>2, <3>2 DEF ForwardInv
    <3>3. CASE k \notin 1..Len(output) /\ l \notin 1..Len(output)
      <4>1. PICK i \in 1..count : k = Len(output) + i
        BY <2>1, <3>3
      <4>2. PICK j \in 1..count : l = Len(output) + j
        BY <2>1, <3>3
      <4>3. i < j
        BY <1>1, <4>1, <4>2 DEF Counts, Buffers
      <4> QED BY <1>1, <1>5, <2>2, <4>1, <4>2, <4>3 DEF ForwardInv
    <3> QED BY <3>1, <3>2, <3>3
  <2> QED BY <1>1, <1>2, <2>3, <2>4 DEF ForwardInv
<1>9. UniformInv'
  <2>1. uniform => output = << >> /\ count = indexin /\ Len(output) = 0
    BY <1>1, <1>2 DEF UniformInv
  <2> QED BY <1>1, <1>2, <1>5, <2>1 DEF Places, Counts, UniformInv, InOrder
<1> QED BY <1>6, <1>7, <1>8, <1>9 DEF RInv

\* indexin = 0 leaves no packet that could precede the output.
LEMMA RestartRInv == ASSUME RInv, Restart PROVE RInv'
<1> USE DEF RInv, Restart
<1>1. Places' /\ Counts' /\ Buffers' /\ BufferInv' /\ ForwardInv'
  BY DEF Places, Counts, Buffers, BufferInv, ForwardInv
<1>2. UniformInv'
  BY DEF Places, Counts, UniformInv, InOrder, Least
<1> QED BY <1>1, <1>2

\* RInv holds of every reachable state.
THEOREM RoverInvariance == Spec => []RInv
<1>1. Init => RInv
  BY InitRInv
<1>2. RInv /\ [Next]_vars => RInv'
  <2> SUFFICES ASSUME RInv, [Next]_vars PROVE RInv'
    OBVIOUS
  <2>1. CASE UNCHANGED vars
    BY <2>1 DEF vars, RInv, Places, Counts, Buffers, BufferInv, ForwardInv,
       UniformInv, InOrder
  <2> QED BY <2>1, ReceiveRInv, BurstStartsRInv, SampleRInv, LimitRInv,
             WriteBeginsRInv, WriteEndsRInv, RestartRInv DEF Next, Thread
<1> QED BY <1>1, <1>2, PTL DEF Spec

-----------------------------------------------------------------------------
(* The results.                                                            *)

\* Every variable keeps its type, and indexin never exceeds the burst.
THEOREM IndexInBurst == Spec => []TypeOK
<1>1. RInv => TypeOK
  BY Types DEF RInv
<1> QED BY <1>1, RoverInvariance, PTL

\* Nothing is written twice or out of order, whatever the lengths of the bursts
\* and wherever the interrupt comes in the thread.
THEOREM WritesForward == Spec => []WritesGoForward
<1>1. RInv => WritesGoForward
  <2> SUFFICES ASSUME RInv PROVE WritesGoForward
    OBVIOUS
  <2>1. DOMAIN output = 1..Len(output)
    BY DEF RInv, Buffers
  <2> QED BY <2>1 DEF RInv, ForwardInv, WritesGoForward
<1> QED BY <1>1, RoverInvariance, PTL

\* Bursts of one length are written whole, in order, up to the limit.
THEOREM BurstIsWrittenWhole == Spec => []BurstWrittenWhole
<1>1. RInv => BurstWrittenWhole
  <2> SUFFICES ASSUME RInv, uniform, pc = "sample", indexin = 0, due = 0
               PROVE  output = [i \in 1..Least(size, LIMIT) |-> i]
    BY DEF BurstWrittenWhole
  <2>1. output \in Seq(Nat) /\ Len(output) = Least(size, LIMIT)
    BY DEF RInv, Counts, Buffers, UniformInv
  <2>2. \A i \in 1..Len(output) : output[i] = i
    BY DEF RInv, UniformInv, InOrder
  <2> HIDE DEF Least
  <2>3. output = [i \in 1..Len(output) |-> output[i]]
    BY <2>1
  <2> QED BY <2>1, <2>2, <2>3
<1> QED BY <1>1, RoverInvariance, PTL

\* The write is called with a length within the limit.
THEOREM WriteIsLimited == Spec => []WriteLimited
<1>1. RInv => WriteLimited
  BY DEF RInv, Counts, Buffers, UniformInv, WriteLimited, Least
<1> QED BY <1>1, RoverInvariance, PTL

\* No packet comes between the sample that ends a burst and indexin = 0.
THEOREM NothingForgotten == Spec => NoPacketForgotten
<1>1. RInv /\ [Next]_vars
        => [uniform /\ pc = "restart" /\ pc' = "sample"
              => due = 0 /\ indexin = Least(size, LIMIT)]_vars
  BY DEF RInv, Counts, UniformInv
<1> QED BY <1>1, RoverInvariance, PTL DEF Spec, NoPacketForgotten
=============================================================================
