---------------------------- MODULE ReadUntilProofs ----------------------------
(***************************************************************************)
(* Proofs about ReadUntil and the streambuf it reads into, for every       *)
(* stream, delimiter, growth of the array and size of read.                *)
(***************************************************************************)
EXTENDS ReadUntil, SequenceTheorems, WellFoundedInduction, TLAPS

-----------------------------------------------------------------------------
(* The inductive invariant.                                                *)

(* The offsets are in order and within the array and max_size_, and what   *)
(* lies between the two areas was written.                                 *)
Sound(b) ==
  /\ b.get <= b.put /\ b.put <= b.end
  /\ b.end <= Len(b.array) /\ b.end <= MaxSize
  /\ \A i \in b.get + 1 .. b.put : b.array[i] \in Bytes

TypeOK ==
  /\ stream \in Streams
  /\ net \in Seq(Bytes) /\ taken \in Seq(Bytes)
  /\ sb \in StreamBufs
  /\ search \in Nat \cup {NotFound}
  /\ asked \in Nat
  /\ op \in {"search", "read", "found", "notFound", "eof", "thrown"}
  /\ first \in BOOLEAN

(* There is room for all that the read in flight may bring.                *)
Prepared == op = "read" => asked <= sb.end - sb.put

(* No match of the delimiter, not even of its beginning up to the end of   *)
(* the data, starts in front of position n.                                *)
NoneBefore(data, n) == \A j \in 0 .. n - 1 : ~MatchesAt(data, j)

(* The next search starts behind nothing that more data could complete.    *)
Searching ==
  op = "search" \/ (op = "read" /\ asked > 0) =>
    search \in Nat /\ search <= Size(sb) /\ NoneBefore(Data(sb), search)

(* What is reported, now or after the read of no bytes, ends the first     *)
(* match.                                                                  *)
FirstMatch(data, at) ==
  at <= Len(data) /\ IsWhole(data, at) /\ MatchesAt(data, at) /\ NoneBefore(data, at)
Reporting ==
  op = "found" \/ (op = "read" /\ asked = 0 /\ search # NotFound) =>
    \E at \in Nat : search = at + Len(Delim) /\ FirstMatch(Data(sb), at)

IInv == /\ TypeOK /\ Sound(sb) /\ Prepared /\ Intact /\ NeverThrows
        /\ Searching /\ Reporting
-----------------------------------------------------------------------------
(* Numbers and sequences.                                                  *)

(* The least-number principle, for a set.                                  *)
LEMMA LeastNumber ==
  ASSUME NEW N, N \subseteq Nat, N # {}
  PROVE  \E n \in N : \A m \in N : n <= m
<1>1. PICK R : /\ IsWellFoundedOn(R, Nat)
               /\ \A m, n \in Nat : m < n => <<m, n>> \in R
  <2>1. \A m, n \in Nat : m < n => <<m, n>> \in OpToRel(<, Nat)
    BY DEF OpToRel
  <2> QED  BY <2>1, NatLessThanWellFounded
<1>2. IsWellFoundedOn(R, Nat)
  BY <1>1
<1>3. PICK n \in N : \A m \in N : <<m, n>> \notin R
  BY <1>2, WFMin
<1>4. \A m \in N : ~(m < n)
  BY <1>1, <1>3, Zenon
<1>5. \A m \in N : n <= m
  BY <1>4
<1> QED  BY <1>5

(* A function on the numbers up to n is a sequence.                        *)
LEMMA FunctionIsSeq ==
  ASSUME NEW S, NEW n \in Nat, NEW f \in [1 .. n -> S]
  PROVE  f \in Seq(S) /\ Len(f) = n
<1>1. f \in Seq(S)
  OBVIOUS
<1>2. DOMAIN f = 1 .. Len(f) /\ Len(f) \in Nat
  BY <1>1, LenProperties
<1> QED  BY <1>1, <1>2

(* A sequence cut in two.                                                  *)
LEMMA Cut ==
  ASSUME NEW S, NEW s \in Seq(S), NEW n \in 0 .. Len(s)
  PROVE  /\ SubSeq(s, 1, n) \in Seq(S) /\ SubSeq(s, n + 1, Len(s)) \in Seq(S)
         /\ Len(SubSeq(s, 1, n)) = n /\ Len(SubSeq(s, n + 1, Len(s))) = Len(s) - n
         /\ \A i \in 1 .. n : SubSeq(s, 1, n)[i] = s[i]
         /\ \A i \in 1 .. Len(s) - n : SubSeq(s, n + 1, Len(s))[i] = s[n + i]
         /\ SubSeq(s, 1, n) \o SubSeq(s, n + 1, Len(s)) = s
<1> DEFINE a == SubSeq(s, 1, n)
           b == SubSeq(s, n + 1, Len(s))
<1>1. Len(s) \in Nat /\ n \in Nat /\ n <= Len(s)
  BY LenProperties
<1>2. (\A i \in 1 .. n : s[i] \in S) /\ (\A i \in n + 1 .. Len(s) : s[i] \in S)
  BY <1>1, ElementOfSeq
<1>3. a \in Seq(S) /\ Len(a) = n /\ \A i \in 1 .. n : a[i] = s[i]
  BY <1>1, <1>2, SubSeqProperties
<1>4. /\ b \in Seq(S) /\ Len(b) = Len(s) - n
      /\ \A i \in 1 .. Len(s) - n : b[i] = s[n + i]
  BY <1>1, <1>2, SubSeqProperties
<1> HIDE DEF a, b
<1>5. /\ a \o b \in Seq(S) /\ Len(a \o b) = Len(s)
      /\ \A i \in 1 .. Len(s) : (a \o b)[i] = IF i <= n THEN a[i] ELSE b[i - n]
  BY <1>1, <1>3, <1>4, ConcatProperties
<1>6. \A i \in 1 .. Len(s) : (a \o b)[i] = s[i]
  <2> TAKE i \in 1 .. Len(s)
  <2>1. CASE i <= n
    BY <1>1, <1>3, <1>5, <2>1
  <2>2. CASE i > n
    <3>1. i - n \in 1 .. Len(s) - n /\ n + (i - n) = i
      BY <1>1, <2>2
    <3> QED  BY <1>1, <1>4, <1>5, <2>2, <3>1
  <2>3. i <= n \/ i > n
    BY <1>1
  <2> QED  BY <2>1, <2>2, <2>3
<1>7. a \o b = s
  BY <1>5, <1>6, SeqEqual
<1> QED  BY <1>3, <1>4, <1>7 DEF a, b

-----------------------------------------------------------------------------
(* The streambuf.                                                          *)

(* The offsets and the array of a streambuf, and the data in it.           *)
LEMMA DataProperties ==
  ASSUME NEW b \in StreamBufs, Sound(b)
  PROVE  /\ b.array \in Seq(Bytes \cup {Blank}) /\ Len(b.array) \in Nat
         /\ b.get \in Nat /\ b.put \in Nat /\ b.end \in Nat
         /\ Size(b) \in Nat /\ Size(b) = b.put - b.get /\ Size(b) <= MaxSize
         /\ Data(b) \in Seq(Bytes) /\ Len(Data(b)) = Size(b)
         /\ \A i \in 1 .. Size(b) : Data(b)[i] = b.array[b.get + i]
<1>1. /\ b.array \in Seq(Bytes \cup {Blank}) /\ Len(b.array) \in Nat
      /\ b.get \in Nat /\ b.put \in Nat /\ b.end \in Nat
  BY LenProperties DEF StreamBufs
<1>2. /\ Size(b) \in Nat /\ Size(b) = b.put - b.get /\ Size(b) <= MaxSize
  BY <1>1, StreamBufAssumption DEF Sound, Size
<1>3. \A i \in b.get + 1 .. b.put : b.array[i] \in Bytes
  BY DEF Sound
<1>4. /\ Data(b) \in Seq(Bytes)
      /\ Len(Data(b)) = IF b.get + 1 <= b.put THEN b.put - (b.get + 1) + 1 ELSE 0
      /\ \A i \in 1 .. b.put - (b.get + 1) + 1 : Data(b)[i] = b.array[b.get + 1 + i - 1]
  BY <1>1, <1>3, SubSeqProperties, SMTT(30) DEF Data
<1>5. Len(Data(b)) = Size(b)
  <2>1. b.put - (b.get + 1) + 1 = Size(b) /\ (~(b.get + 1 <= b.put) => Size(b) = 0)
    BY <1>1, <1>2
  <2> QED  BY <1>4, <2>1
<1>6. \A i \in 1 .. Size(b) : Data(b)[i] = b.array[b.get + i]
  <2> TAKE i \in 1 .. Size(b)
  <2>1. i \in 1 .. b.put - (b.get + 1) + 1 /\ b.get + 1 + i - 1 = b.get + i
    BY <1>1, <1>2
  <2> QED  BY <1>4, <2>1
<1> QED  BY <1>1, <1>2, <1>4, <1>5, <1>6

(* A new streambuf is empty.                                               *)
LEMMA EmptyProperties ==
  Empty \in StreamBufs /\ Sound(Empty) /\ Size(Empty) = 0 /\ Data(Empty) = <<>>
<1> DEFINE pend == Least(MaxSize, BufferDelta)
           array == [i \in 1 .. Most(pend, 1) |-> Blank]
<1>1. pend \in Nat /\ pend <= MaxSize /\ Most(pend, 1) \in Nat /\ pend <= Most(pend, 1)
  BY StreamBufAssumption DEF Least, Most
<1> HIDE DEF pend
<1>2. array \in Seq(Bytes \cup {Blank}) /\ Len(array) = Most(pend, 1)
  <2>1. array \in [1 .. Most(pend, 1) -> Bytes \cup {Blank}]
    OBVIOUS
  <2> QED  BY <1>1, <2>1, FunctionIsSeq
<1>3. Empty = [array |-> array, get |-> 0, put |-> 0, end |-> pend]
  BY DEF Empty, pend
<1> HIDE DEF array
<1>4. Empty \in StreamBufs
  BY <1>1, <1>2, <1>3 DEF StreamBufs
<1>5. Sound(Empty) /\ Size(Empty) = 0
  BY <1>1, <1>2, <1>3 DEF Sound, Size
<1>6. Data(Empty) = <<>>
  BY <1>3, SubSeqEmpty DEF Data
<1> QED  BY <1>4, <1>5, <1>6

(* prepare makes room for n bytes, within max_size_, and neither the move  *)
(* of the content nor a larger array changes the data.                     *)
LEMMA PrepareKeeps ==
  ASSUME NEW b \in StreamBufs, Sound(b), NEW n \in Nat, CanPrepare(b, n)
  PROVE  /\ Prepare(b, n) \in StreamBufs /\ Sound(Prepare(b, n))
         /\ n <= Prepare(b, n).end - Prepare(b, n).put
         /\ Size(Prepare(b, n)) = Size(b) /\ Data(Prepare(b, n)) = Data(b)
<1> DEFINE P == Prepare(b, n)
<1>0. /\ b.array \in Seq(Bytes \cup {Blank}) /\ Len(b.array) \in Nat
      /\ b.get \in Nat /\ b.put \in Nat /\ b.end \in Nat
      /\ Size(b) \in Nat /\ Size(b) = b.put - b.get /\ Size(b) <= MaxSize
      /\ Data(b) \in Seq(Bytes) /\ Len(Data(b)) = Size(b)
      /\ \A i \in 1 .. Size(b) : Data(b)[i] = b.array[b.get + i]
  BY DataProperties
<1>1. CASE n <= b.end - b.put
  <2>1. P = b
    BY <1>1 DEF Prepare
  <2> QED  BY <1>1, <2>1
<1>2. CASE ~(n <= b.end - b.put)
  <2> DEFINE size  == Size(b)
             pend  == IF n > b.end - size THEN size + n ELSE b.end
             moved == Shifted(b)
             array == IF pend = b.end THEN moved ELSE Resized(moved, Most(pend, 1))
  <2>0. MaxSize \in Nat /\ size + n <= MaxSize
    BY <1>2, StreamBufAssumption DEF CanPrepare
  <2>1. P = [array |-> array, get |-> 0, put |-> size, end |-> pend]
    BY <1>2 DEF Prepare
  <2>2. /\ b.get <= b.put /\ b.put <= b.end
        /\ b.end <= Len(b.array) /\ b.end <= MaxSize
        /\ \A i \in b.get + 1 .. b.put : b.array[i] \in Bytes
    BY DEF Sound
  <2> HIDE DEF size
  <2>3. size \in Nat /\ size = b.put - b.get /\ size <= b.end
    BY <1>0, <2>2 DEF size
  <2>4. /\ pend \in Nat /\ pend <= MaxSize /\ size <= pend /\ n <= pend - size
        /\ b.end <= pend
    BY <1>0, <2>0, <2>2, <2>3
  <2>5. /\ moved \in Seq(Bytes \cup {Blank}) /\ Len(moved) = Len(b.array)
        /\ \A i \in 1 .. size : moved[i] = b.array[b.get + i]
    <3>1. \A i \in 1 .. Len(b.array) : b.array[i] \in Bytes \cup {Blank}
      BY <1>0, ElementOfSeq
    <3>2. \A i \in 1 .. size : /\ b.get + i \in b.get + 1 .. b.put
                               /\ i \in 1 .. Len(b.array)
      BY <1>0, <2>2, <2>3
    <3>3. moved \in [1 .. Len(b.array) -> Bytes \cup {Blank}]
      BY <2>2, <3>1, <3>2 DEF Shifted, size
    <3>4. moved \in Seq(Bytes \cup {Blank}) /\ Len(moved) = Len(b.array)
      BY <1>0, <3>3, FunctionIsSeq
    <3>5. \A i \in 1 .. size : moved[i] = b.array[b.get + i]
      BY <3>2 DEF Shifted, size
    <3> QED  BY <3>4, <3>5
  <2> HIDE DEF moved, pend
  <2>6. /\ array \in Seq(Bytes \cup {Blank}) /\ pend <= Len(array)
        /\ \A i \in 1 .. size : array[i] = b.array[b.get + i]
    <3>1. CASE pend = b.end
      BY <2>2, <2>5, <3>1
    <3>2. CASE pend # b.end
      <4>1. Most(pend, 1) \in Nat /\ pend <= Most(pend, 1)
        BY <2>4 DEF Most
      <4>2. \A i \in 1 .. Len(moved) : moved[i] \in Bytes \cup {Blank}
        BY <2>5, ElementOfSeq
      <4>3. array = Resized(moved, Most(pend, 1))
        BY <3>2
      <4>4. array \in [1 .. Most(pend, 1) -> Bytes \cup {Blank}]
        BY <1>0, <2>5, <4>2, <4>3 DEF Resized
      <4>5. array \in Seq(Bytes \cup {Blank}) /\ Len(array) = Most(pend, 1)
        BY <4>1, <4>4, FunctionIsSeq
      <4>6. \A i \in 1 .. size : i \in 1 .. Most(pend, 1) /\ i <= Len(moved)
        BY <1>0, <2>2, <2>3, <2>4, <2>5, <4>1, SMTT(30)
      <4>7. \A i \in 1 .. size : array[i] = moved[i]
        BY <4>3, <4>6 DEF Resized
      <4> QED  BY <2>5, <4>1, <4>5, <4>7
    <3> QED  BY <3>1, <3>2
  <2> HIDE DEF array
  <2>7. P \in StreamBufs
    BY <2>1, <2>3, <2>4, <2>6 DEF StreamBufs
  <2>8. Sound(P)
    <3>1. \A i \in 0 + 1 .. size : array[i] \in Bytes
      <4> TAKE i \in 0 + 1 .. size
      <4>1. i \in 1 .. size /\ b.get + i \in b.get + 1 .. b.put
        BY <1>0, <2>3
      <4> QED  BY <2>2, <2>6, <4>1
    <3> QED  BY <2>1, <2>3, <2>4, <2>6, <3>1 DEF Sound
  <2>9. Size(P) = size
    BY <2>1, <2>3 DEF Size
  <2>10. Data(P) = Data(b)
    <3>1. /\ Data(P) \in Seq(Bytes) /\ Len(Data(P)) = size
          /\ \A i \in 1 .. size : Data(P)[i] = P.array[P.get + i]
      BY <2>7, <2>8, <2>9, DataProperties
    <3>2. \A i \in 1 .. size : Data(P)[i] = Data(b)[i]
      <4> TAKE i \in 1 .. size
      <4>1. P.array[P.get + i] = array[i]
        BY <2>1, <2>3
      <4> QED  BY <1>0, <2>6, <3>1, <4>1 DEF size
    <3> QED  BY <1>0, <3>1, <3>2, SeqEqual DEF size
  <2> QED  BY <2>1, <2>4, <2>7, <2>8, <2>9, <2>10 DEF size
<1> QED  BY <1>1, <1>2

(* What is read into the room prepared and committed follows the data.     *)
LEMMA CommitAppends ==
  ASSUME NEW b \in StreamBufs, Sound(b), NEW bytes \in Seq(Bytes),
         Len(bytes) <= b.end - b.put
  PROVE  LET C == Commit(Fill(b, bytes), Len(bytes))
         IN  /\ C \in StreamBufs /\ Sound(C)
             /\ Size(C) = Size(b) + Len(bytes) /\ Data(C) = Data(b) \o bytes
<1> DEFINE n == Len(bytes)
           C == Commit(Fill(b, bytes), n)
           array == [i \in 1 .. Len(b.array) |->
                       IF i \in b.put + 1 .. b.put + n THEN bytes[i - b.put] ELSE b.array[i]]
<1>0. /\ b.array \in Seq(Bytes \cup {Blank}) /\ Len(b.array) \in Nat
      /\ b.get \in Nat /\ b.put \in Nat /\ b.end \in Nat
      /\ Size(b) \in Nat /\ Size(b) = b.put - b.get
      /\ Data(b) \in Seq(Bytes) /\ Len(Data(b)) = Size(b)
      /\ \A i \in 1 .. Size(b) : Data(b)[i] = b.array[b.get + i]
  BY DataProperties
<1>1. n \in Nat /\ n <= b.end - b.put /\ \A i \in 1 .. n : bytes[i] \in Bytes
  BY LenProperties, ElementOfSeq
<1>2. /\ b.get <= b.put /\ b.put <= b.end
      /\ b.end <= Len(b.array) /\ b.end <= MaxSize
      /\ \A i \in b.get + 1 .. b.put : b.array[i] \in Bytes
  BY DEF Sound
<1> HIDE DEF n
<1>3. Fill(b, bytes) = [b EXCEPT !.array = array]
  BY DEF Fill, n
<1>4. C = [array |-> array, get |-> b.get, put |-> b.put + n, end |-> b.end]
  <2> DEFINE F == Fill(b, bytes)
  <2>1. F = [array |-> array, get |-> b.get, put |-> b.put, end |-> b.end]
    BY <1>3 DEF StreamBufs
  <2>2. C = [F EXCEPT !.put = F.put + Least(n, F.end - F.put)]
    BY DEF Commit
  <2> HIDE DEF F, C, array
  <2>3. n \in Nat /\ b.end - b.put \in Int /\ n <= b.end - b.put
    BY <1>0, <1>1
  <2>4. Least(n, b.end - b.put) = n
    BY <2>3 DEF Least
  <2> QED  BY <2>1, <2>2, <2>4
<1>5. /\ array \in Seq(Bytes \cup {Blank}) /\ Len(array) = Len(b.array)
      /\ \A i \in b.get + 1 .. b.put : array[i] = b.array[i]
      /\ \A i \in 1 .. n : array[b.put + i] = bytes[i]
  <2>1. \A i \in 1 .. Len(b.array) : b.array[i] \in Bytes \cup {Blank}
    BY <1>0, ElementOfSeq
  <2>2. \A i \in b.put + 1 .. b.put + n : i - b.put \in 1 .. n
    BY <1>0, <1>1, SMTT(30)
  <2>3. array \in [1 .. Len(b.array) -> Bytes \cup {Blank}]
    BY <1>1, <2>1, <2>2
  <2>4. array \in Seq(Bytes \cup {Blank}) /\ Len(array) = Len(b.array)
    <3>1. Len(b.array) \in Nat
      BY <1>0
    <3> HIDE DEF array
    <3> QED  BY <2>3, <3>1, FunctionIsSeq
  <2>5. \A i \in b.get + 1 .. b.put : i \in 1 .. Len(b.array) /\ i \notin b.put + 1 .. b.put + n
    BY <1>0, <1>1, <1>2
  <2>6. \A i \in 1 .. n : /\ b.put + i \in 1 .. Len(b.array)
                          /\ b.put + i \in b.put + 1 .. b.put + n /\ b.put + i - b.put = i
    BY <1>0, <1>1, <1>2, SMTT(30)
  <2>7. \A i \in b.get + 1 .. b.put : array[i] = b.array[i]
    BY <2>5
  <2>8. \A i \in 1 .. n : array[b.put + i] = bytes[i]
    <3> TAKE i \in 1 .. n
    <3>1. PICK k \in 1 .. Len(b.array) : k = b.put + i
      BY <2>6
    <3>2. k \in b.put + 1 .. b.put + n /\ k - b.put = i
      BY <1>0, <1>1, <3>1
    <3>3. array[k] = bytes[k - b.put]
      BY <3>2
    <3> HIDE DEF array
    <3> QED  BY <3>1, <3>2, <3>3
  <2> QED  BY <2>4, <2>7, <2>8
<1> HIDE DEF array
<1>6. C \in StreamBufs
  BY <1>0, <1>1, <1>4, <1>5 DEF StreamBufs
<1>7. Sound(C)
  <2>1. ASSUME NEW i \in b.get + 1 .. b.put + n
        PROVE  array[i] \in Bytes
    <3>1. CASE i <= b.put
      <4>1. i \in b.get + 1 .. b.put
        BY <1>0, <3>1
      <4> QED  BY <1>2, <1>5, <4>1
    <3>2. CASE i > b.put
      <4>1. i - b.put \in 1 .. n /\ b.put + (i - b.put) = i
        BY <1>0, <1>1, <3>2, SMTT(30)
      <4> QED  BY <1>1, <1>5, <4>1
    <3> QED  BY <1>0, <3>1, <3>2
  <2> QED  BY <1>0, <1>1, <1>2, <1>4, <1>5, <2>1 DEF Sound
<1>8. Size(C) = Size(b) + n
  BY <1>0, <1>1, <1>4 DEF Size
<1>9. Data(C) = Data(b) \o bytes
  <2> HIDE DEF C
  <2>1. /\ Data(C) \in Seq(Bytes) /\ Len(Data(C)) = Size(b) + n
        /\ \A i \in 1 .. Size(b) + n : Data(C)[i] = array[b.get + i]
    <3>1. /\ Data(C) \in Seq(Bytes) /\ Len(Data(C)) = Size(C)
          /\ \A i \in 1 .. Size(C) : Data(C)[i] = C.array[C.get + i]
      BY <1>6, <1>7, DataProperties
    <3> QED  BY <1>4, <1>8, <3>1
  <2>2. /\ Data(b) \o bytes \in Seq(Bytes) /\ Len(Data(b) \o bytes) = Size(b) + n
        /\ \A i \in 1 .. Size(b) + n :
             (Data(b) \o bytes)[i] = IF i <= Size(b) THEN Data(b)[i] ELSE bytes[i - Size(b)]
    <3>1. bytes \in Seq(Bytes) /\ Len(bytes) = n
      BY DEF n
    <3>2. /\ Data(b) \o bytes \in Seq(Bytes)
          /\ Len(Data(b) \o bytes) = Len(Data(b)) + Len(bytes)
          /\ \A i \in 1 .. Len(Data(b)) + Len(bytes) :
               (Data(b) \o bytes)[i] =
                 IF i <= Len(Data(b)) THEN Data(b)[i] ELSE bytes[i - Len(Data(b))]
      BY <1>0, <3>1, ConcatProperties
    <3>3. Len(Data(b)) = Size(b)
      BY <1>0
    <3> QED  BY <3>1, <3>2, <3>3, Zenon
  <2>3. ASSUME NEW i \in 1 .. Size(b) + n
        PROVE  Data(C)[i] = (Data(b) \o bytes)[i]
    <3>1. CASE i <= Size(b)
      <4>1. i \in 1 .. Size(b) /\ b.get + i \in b.get + 1 .. b.put
        BY <1>0, <3>1
      <4> QED  BY <1>0, <1>5, <2>1, <2>2, <3>1, <4>1
    <3>2. CASE i > Size(b)
      <4>1. i - Size(b) \in 1 .. n /\ b.get + i = b.put + (i - Size(b))
        BY <1>0, <1>1, <3>2, SMTT(30)
      <4>2. array[b.get + i] = bytes[i - Size(b)]
        BY <1>5, <4>1
      <4>3. ~(i <= Size(b))
        BY <1>0, <1>1, <3>2
      <4> QED  BY <2>1, <2>2, <4>2, <4>3
    <3>3. i <= Size(b) \/ i > Size(b)
      BY <1>0, <1>1
    <3> QED  BY <3>1, <3>2, <3>3
  <2> QED  BY <2>1, <2>2, <2>3, SeqEqual
<1> QED  BY <1>6, <1>7, <1>8, <1>9 DEF n

(* consume takes from the front of the data, and no more than there is.    *)
LEMMA ConsumeTakes ==
  ASSUME NEW b \in StreamBufs, Sound(b), NEW n \in Nat
  PROVE  LET k == Least(n, Size(b))
         IN  /\ Consume(b, n) \in StreamBufs /\ Sound(Consume(b, n))
             /\ k \in 0 .. Size(b)
             /\ Data(Consume(b, n)) = SubSeq(Data(b), k + 1, Len(Data(b)))
<1> DEFINE k == Least(n, Size(b))
           C == Consume(b, n)
<1>0. /\ b.array \in Seq(Bytes \cup {Blank}) /\ Len(b.array) \in Nat
      /\ b.get \in Nat /\ b.put \in Nat /\ b.end \in Nat
      /\ Size(b) \in Nat /\ Size(b) = b.put - b.get
      /\ Data(b) \in Seq(Bytes) /\ Len(Data(b)) = Size(b)
      /\ \A i \in 1 .. Size(b) : Data(b)[i] = b.array[b.get + i]
  BY DataProperties
<1>1. k \in 0 .. Size(b)
  BY <1>0 DEF Least
<1>2. C = [array |-> b.array, get |-> b.get + k, put |-> b.put, end |-> b.end]
  BY DEF Consume, StreamBufs
<1> HIDE DEF k
<1>3. C \in StreamBufs
  BY <1>0, <1>1, <1>2 DEF StreamBufs
<1>4. Sound(C)
  BY <1>0, <1>1, <1>2 DEF Sound
<1>5. Size(C) = Size(b) - k
  BY <1>0, <1>1, <1>2 DEF Size
<1>6. Data(C) = SubSeq(Data(b), k + 1, Len(Data(b)))
  <2>1. /\ SubSeq(Data(b), k + 1, Len(Data(b))) \in Seq(Bytes)
        /\ Len(SubSeq(Data(b), k + 1, Len(Data(b)))) = Size(b) - k
        /\ \A i \in 1 .. Size(b) - k :
             SubSeq(Data(b), k + 1, Len(Data(b)))[i] = Data(b)[k + i]
    <3> DEFINE d == Data(b)
    <3>1. d \in Seq(Bytes) /\ Len(d) = Size(b)
      BY <1>0
    <3> HIDE DEF d
    <3>2. k \in 0 .. Len(d)
      BY <1>1, <3>1
    <3>3. /\ SubSeq(d, k + 1, Len(d)) \in Seq(Bytes)
          /\ Len(SubSeq(d, k + 1, Len(d))) = Len(d) - k
          /\ \A i \in 1 .. Len(d) - k : SubSeq(d, k + 1, Len(d))[i] = d[k + i]
      BY <3>1, <3>2, Cut
    <3> QED  BY <3>1, <3>3 DEF d
  <2> HIDE DEF C
  <2>2. /\ Data(C) \in Seq(Bytes) /\ Len(Data(C)) = Size(C)
        /\ \A i \in 1 .. Size(C) : Data(C)[i] = C.array[C.get + i]
    BY <1>3, <1>4, DataProperties
  <2>3. ASSUME NEW i \in 1 .. Size(C)
        PROVE  Data(C)[i] = SubSeq(Data(b), k + 1, Len(Data(b)))[i]
    <3>1. i \in 1 .. Size(b) - k /\ k + i \in 1 .. Size(b) /\ b.get + k + i = b.get + (k + i)
      BY <1>0, <1>1, <1>5
    <3>2. Data(C)[i] = b.array[b.get + (k + i)]
      BY <1>2, <2>2, <3>1
    <3> QED  BY <1>0, <2>1, <3>1, <3>2
  <2> QED  BY <1>5, <2>1, <2>2, <2>3, SeqEqual
<1> QED  BY <1>1, <1>3, <1>4, <1>6 DEF k

-----------------------------------------------------------------------------
(* The search.                                                             *)

(* The loop finds a first match, if need be that of nothing at the end.    *)
LEMMA SearchProperties ==
  ASSUME NEW data \in Seq(Bytes), NEW from \in 0 .. Len(data), NoneBefore(data, from)
  PROVE  /\ PartialSearch(data, from) \in from .. Len(data)
         /\ MatchesAt(data, PartialSearch(data, from))
         /\ NoneBefore(data, PartialSearch(data, from))
<1> DEFINE Matches == {i \in from .. Len(data) : MatchesAt(data, i)}
           IsFirst(i) == /\ MatchesAt(data, i)
                         /\ \A j \in from .. i - 1 : ~MatchesAt(data, j)
<1>0. Len(data) \in Nat /\ from \in Nat /\ Len(Delim) \in Nat
  BY LenProperties, ReadUntilAssumption
<1>1. Len(data) \in Matches
  <2>1. Least(Len(Delim), Len(data) - Len(data)) = 0
    BY <1>0 DEF Least
  <2>2. Len(data) \in from .. Len(data)
    BY <1>0
  <2> QED  BY <2>1, <2>2 DEF MatchesAt
<1>2. Matches # {} /\ Matches \subseteq Nat
  BY <1>0, <1>1
<1>3. PICK i \in Matches : \A j \in Matches : i <= j
  <2> HIDE DEF Matches
  <2> QED  BY <1>2, LeastNumber
<1>4. i \in from .. Len(data) /\ IsFirst(i)
  <2>1. ASSUME NEW j \in from .. i - 1, MatchesAt(data, j)
        PROVE  FALSE
    <3>1. j \in Matches
      BY <1>0, <2>1
    <3> QED  BY <1>0, <1>3, <2>1, <3>1
  <2> QED  BY <2>1
<1> DEFINE at == PartialSearch(data, from)
<1>5. at \in from .. Len(data) /\ IsFirst(at)
  BY <1>4 DEF PartialSearch
<1> HIDE DEF at
<1>6. NoneBefore(data, at)
  <2> SUFFICES ASSUME NEW j \in 0 .. at - 1
               PROVE  ~MatchesAt(data, j)
    BY DEF NoneBefore
  <2>1. j \in 0 .. from - 1 \/ j \in from .. at - 1
    BY <1>0, <1>5
  <2> QED  BY <1>5, <2>1 DEF NoneBefore
<1> QED  BY <1>5, <1>6 DEF at

(* What no more data could complete stays so when more comes.              *)
LEMMA NoneBeforeAppend ==
  ASSUME NEW data \in Seq(Bytes), NEW more \in Seq(Bytes), NEW n \in 0 .. Len(data),
         NoneBefore(data, n)
  PROVE  NoneBefore(data \o more, n)
<1> SUFFICES ASSUME NEW j \in 0 .. n - 1
             PROVE  ~MatchesAt(data \o more, j)
  BY DEF NoneBefore
<1>0. Len(data) \in Nat /\ Len(more) \in Nat /\ n \in Nat /\ Len(Delim) \in Nat
  BY LenProperties, ReadUntilAssumption
<1>1. PICK k \in 1 .. Least(Len(Delim), Len(data) - j) : data[j + k] # Delim[k]
  BY DEF NoneBefore, MatchesAt
<1>2. /\ Len(data \o more) = Len(data) + Len(more)
      /\ \A i \in 1 .. Len(data) + Len(more) :
           (data \o more)[i] = IF i <= Len(data) THEN data[i] ELSE more[i - Len(data)]
  BY ConcatProperties
<1>3. /\ j + k \in 1 .. Len(data) + Len(more) /\ j + k <= Len(data)
      /\ k \in 1 .. Least(Len(Delim), Len(data) + Len(more) - j)
  BY <1>0, <1>1 DEF Least
<1>4. (data \o more)[j + k] # Delim[k]
  BY <1>1, <1>2, <1>3
<1>5. k \in 1 .. Least(Len(Delim), Len(data \o more) - j)
  BY <1>2, <1>3
<1> QED  BY <1>4, <1>5 DEF MatchesAt

(* The end of the first whole match is that of the first delimiter.        *)
LEMMA FirstMatchEnds ==
  ASSUME NEW data \in Seq(Bytes), NEW at \in Nat, FirstMatch(data, at)
  PROVE  /\ EndsAt(data, at + Len(Delim))
         /\ \A n \in 0 .. at + Len(Delim) - 1 : ~EndsAt(data, n)
<1> DEFINE m == Len(Delim)
<1>0. Len(data) \in Nat /\ m \in Nat /\ Delim \in Seq(Bytes)
  BY LenProperties, ReadUntilAssumption
<1>1. at <= Len(data) /\ at + m <= Len(data) /\ MatchesAt(data, at) /\ NoneBefore(data, at)
  BY DEF FirstMatch, IsWhole
<1>2. \A i \in 1 .. m : data[at + i] = Delim[i]
  <2>1. Least(m, Len(data) - at) = m
    BY <1>0, <1>1 DEF Least
  <2> QED  BY <1>1, <2>1 DEF MatchesAt
<1>3. \A n \in m .. Len(data) :
        /\ SubSeq(data, n - m + 1, n) \in Seq(Bytes)
        /\ Len(SubSeq(data, n - m + 1, n)) = m
        /\ \A i \in 1 .. m : SubSeq(data, n - m + 1, n)[i] = data[n - m + i]
  <2> TAKE n \in m .. Len(data)
  <2>1. /\ n - m + 1 \in Int /\ n \in Int
        /\ \A i \in n - m + 1 .. n : i \in 1 .. Len(data)
    BY <1>0
  <2>2. \A i \in n - m + 1 .. n : data[i] \in Bytes
    BY <2>1, ElementOfSeq
  <2> HIDE DEF m
  <2>3. /\ SubSeq(data, n - m + 1, n) \in Seq(Bytes)
        /\ Len(SubSeq(data, n - m + 1, n)) =
             IF n - m + 1 <= n THEN n - (n - m + 1) + 1 ELSE 0
        /\ \A i \in 1 .. n - (n - m + 1) + 1 :
             SubSeq(data, n - m + 1, n)[i] = data[n - m + 1 + i - 1]
    BY <2>1, <2>2, SubSeqProperties
  <2>4. /\ n - (n - m + 1) + 1 = m /\ (~(n - m + 1 <= n) => m = 0)
        /\ \A i \in 1 .. m : n - m + 1 + i - 1 = n - m + i
    BY <1>0
  <2> QED  BY <2>3, <2>4
<1> HIDE DEF m
<1>4. EndsAt(data, at + m)
  <2> DEFINE n == at + m
  <2>1. n \in m .. Len(data) /\ \A i \in 1 .. m : n - m + i = at + i
    BY <1>0, <1>1
  <2>2. /\ SubSeq(data, n - m + 1, n) \in Seq(Bytes)
        /\ Len(SubSeq(data, n - m + 1, n)) = m
        /\ \A i \in 1 .. m : SubSeq(data, n - m + 1, n)[i] = data[n - m + i]
    BY <1>3, <2>1
  <2>3. \A i \in 1 .. m : SubSeq(data, n - m + 1, n)[i] = Delim[i]
    BY <1>2, <2>1, <2>2
  <2>4. SubSeq(data, n - m + 1, n) = Delim
    BY <1>0, <2>2, <2>3, SeqEqual DEF m
  <2> QED  BY <1>0, <1>1, <2>1, <2>4 DEF EndsAt, m
<1>5. ASSUME NEW n \in 0 .. at + m - 1, EndsAt(data, n)
      PROVE  FALSE
  <2>1. /\ n >= m /\ n <= Len(data) /\ n \in m .. Len(data)
        /\ SubSeq(data, n - m + 1, n) = Delim
    BY <1>0, <1>5 DEF EndsAt, m
  <2>2. n - m \in 0 .. at - 1
    BY <1>0, <2>1
  <2>3. \A i \in 1 .. m : data[n - m + i] = Delim[i]
    BY <1>3, <2>1
  <2>4. \A i \in 1 .. Least(m, Len(data) - (n - m)) : i \in 1 .. m
    BY <1>0, <2>1 DEF Least
  <2>5. MatchesAt(data, n - m)
    BY <2>3, <2>4 DEF MatchesAt, m
  <2> QED  BY <1>1, <2>2, <2>5 DEF NoneBefore
<1> QED  BY <1>4, <1>5 DEF m
-----------------------------------------------------------------------------
(* The invariant's steps.                                                  *)

(* The state as the lemmas above see it.                                   *)
LEMMA State ==
  ASSUME IInv
  PROVE  /\ sb \in StreamBufs /\ Sound(sb)
         /\ net \in Seq(Bytes) /\ taken \in Seq(Bytes) /\ stream \in Seq(Bytes)
         /\ Data(sb) \in Seq(Bytes) /\ Len(Data(sb)) = Size(sb)
         /\ Size(sb) \in Nat /\ Size(sb) <= MaxSize
         /\ Len(net) \in Nat /\ MaxSize \in Nat /\ Len(Delim) \in Nat
         /\ Len(sb.array) \in Nat /\ Size(sb) <= Len(sb.array)
<1>1. sb \in StreamBufs /\ Sound(sb) /\ net \in Seq(Bytes) /\ taken \in Seq(Bytes)
  BY DEF IInv, TypeOK
<1>2. /\ stream \in Seq(Bytes) /\ MaxSize \in Nat /\ Len(Delim) \in Nat
      /\ Len(net) \in Nat
  BY <1>1, ReadUntilAssumption, StreamBufAssumption, LenProperties DEF IInv, TypeOK
<1>3. /\ Data(sb) \in Seq(Bytes) /\ Len(Data(sb)) = Size(sb)
      /\ Size(sb) \in Nat /\ Size(sb) <= MaxSize /\ Size(sb) = sb.put - sb.get
      /\ sb.get \in Nat /\ sb.put \in Nat /\ sb.end \in Nat /\ Len(sb.array) \in Nat
  BY <1>1, DataProperties
<1>4. Size(sb) <= Len(sb.array)
  BY <1>1, <1>3 DEF Sound
<1> QED  BY <1>1, <1>2, <1>3, <1>4

(* prepare never throws on what a search asks of it.                       *)
LEMMA ReadSomeEffect ==
  ASSUME IInv, NEW n \in Nat, n = 0 \/ Size(sb) + n <= MaxSize, ReadSome(n)
  PROVE  /\ op' = "read" /\ asked' = n /\ sb' \in StreamBufs /\ Sound(sb')
         /\ n <= sb'.end - sb'.put
         /\ Size(sb') = Size(sb) /\ Data(sb') = Data(sb)
<1>1. CanPrepare(sb, n)
  <2>1. n = 0 => n <= sb.end - sb.put
    BY State, DataProperties DEF Sound
  <2> QED  BY <2>1 DEF CanPrepare
<1>2. op' = "read" /\ asked' = n /\ sb' = Prepare(sb, n)
  BY <1>1 DEF ReadSome
<1>3. sb \in StreamBufs /\ Sound(sb)
  BY State
<1> QED  BY <1>1, <1>2, <1>3, PrepareKeeps

(* What a turn of the loop comes to, apart from the streambuf.             *)
TurnEnds(what, n) ==
  LET at == PartialSearch(Data(sb), search)
  IN  /\ what \in {"read", "found", "notFound"}
      /\ what = "read" => n = 0 \/ Size(sb) + n <= MaxSize
      /\ \/ what = "read" /\ ReadSome(n)
         \/ what # "read" /\ Done(what)
      /\ search' \in Nat \cup {NotFound}
      /\ what = "read" /\ n > 0 => search' = at
      /\ what = "found" \/ (what = "read" /\ n = 0 /\ search' # NotFound) =>
           search' = at + Len(Delim) /\ IsWhole(Data(sb), at)

(* A turn of the loop: what it reports is the first match, and what it     *)
(* reads is asked of a streambuf that has room for it.                     *)
LEMMA SearchStep ==
  ASSUME IInv, Search
  PROVE  IInv'
<1> DEFINE data == Data(sb)
           at   == PartialSearch(data, search)
<1>0. /\ data \in Seq(Bytes) /\ Len(data) = Size(sb) /\ Size(sb) \in Nat
      /\ Size(sb) <= MaxSize /\ MaxSize \in Nat /\ Len(Delim) \in Nat
      /\ sb \in StreamBufs /\ Sound(sb)
      /\ Len(sb.array) \in Nat /\ Size(sb) <= Len(sb.array)
  BY State
<1>1. op = "search" /\ first' = FALSE /\ UNCHANGED <<stream, net, taken>>
  BY DEF Search
<1>2. at \in 0 .. Len(data) /\ MatchesAt(data, at) /\ NoneBefore(data, at)
  <2>1. search \in 0 .. Len(data) /\ NoneBefore(data, search)
    BY <1>0, <1>1 DEF IInv, Searching
  <2>2. /\ at \in search .. Len(data) /\ MatchesAt(data, at)
        /\ NoneBefore(data, at)
    BY <1>0, <2>1, SearchProperties
  <2> QED  BY <1>0, <2>1, <2>2
<1> HIDE DEF at
<1>3. PICK what \in {"read", "found", "notFound"}, n \in Nat : TurnEnds(what, n)
  <2>1. CASE /\ IsWhole(data, at) /\ search' = at + Len(Delim)
             /\ IF first THEN ReadSome(0) ELSE Done("found")
    <3>1. search' \in Nat \cup {NotFound}
      BY <1>0, <1>2, <2>1
    <3>2. CASE first
      <4>1. TurnEnds("read", 0)
        BY <2>1, <3>1, <3>2 DEF TurnEnds, at, data
      <4> QED  BY <4>1
    <3>3. CASE ~first
      <4>1. TurnEnds("found", 0)
        BY <2>1, <3>1, <3>3 DEF TurnEnds, at, data
      <4> QED  BY <4>1
    <3> QED  BY <3>2, <3>3
  <2>2. CASE /\ search' = NotFound
             /\ IF first THEN ReadSome(0) ELSE Done("notFound")
    <3>1. CASE first
      <4>1. TurnEnds("read", 0)
        BY <2>2, <3>1 DEF TurnEnds
      <4> QED  BY <4>1
    <3>2. CASE ~first
      <4>1. TurnEnds("notFound", 0)
        BY <2>2, <3>2 DEF TurnEnds
      <4> QED  BY <4>1
    <3> QED  BY <3>1, <3>2
  <2>3. CASE /\ Size(sb) # MaxSize /\ search' = at
             /\ \E capacity \in {Len(sb.array), 2 * Len(sb.array)} :
                  ReadSome(BytesToRead(capacity))
    <3>1. PICK capacity \in {Len(sb.array), 2 * Len(sb.array)} :
            ReadSome(BytesToRead(capacity))
      BY <2>3
    <3>2. capacity \in Nat /\ capacity >= Size(sb)
      BY <1>0
    <3>3. /\ BytesToRead(capacity) \in Nat \ {0}
          /\ Size(sb) + BytesToRead(capacity) <= MaxSize
      BY <1>0, <2>3, <3>2, ReadUntilAssumption DEF BytesToRead, Least, Most
    <3>4. search' \in Nat \cup {NotFound}
      BY <1>0, <1>2, <2>3
    <3>5. TurnEnds("read", BytesToRead(capacity))
      BY <2>3, <3>1, <3>3, <3>4 DEF TurnEnds, at, data
    <3> QED  BY <3>3, <3>5
  <2> QED  BY <2>1, <2>2, <2>3 DEF Search, at
<1>10. /\ what \in {"read", "found", "notFound"}
       /\ what = "read" => n = 0 \/ Size(sb) + n <= MaxSize
       /\ \/ what = "read" /\ ReadSome(n)
          \/ what # "read" /\ Done(what)
       /\ search' \in Nat \cup {NotFound}
       /\ what = "read" /\ n > 0 => search' = at
       /\ what = "found" \/ (what = "read" /\ n = 0 /\ search' # NotFound) =>
            search' = at + Len(Delim) /\ IsWhole(data, at)
  BY <1>3 DEF TurnEnds, at
<1>4. /\ op' = what /\ sb' \in StreamBufs /\ Sound(sb')
      /\ Data(sb') = data /\ Size(sb') = Size(sb) /\ asked' \in Nat
      /\ what = "read" => asked' = n /\ asked' <= sb'.end - sb'.put
  <2>1. CASE what = "read"
    BY <1>10, <2>1, ReadSomeEffect
  <2>2. CASE what # "read"
    BY <1>0, <1>10, <2>2 DEF Done, IInv, TypeOK
  <2> QED  BY <2>1, <2>2
<1> HIDE DEF data
<1>5. TypeOK' /\ NeverThrows'
  BY <1>1, <1>10, <1>4 DEF IInv, TypeOK, NeverThrows
<1>6. Sound(sb)' /\ Prepared'
  BY <1>4 DEF Prepared, Sound
<1>7. Intact'
  BY <1>1, <1>4 DEF IInv, Intact, data
<1>8. Searching'
  <2> SUFFICES ASSUME what = "read", n > 0
               PROVE  /\ search' \in Nat /\ search' <= Size(sb')
                      /\ NoneBefore(Data(sb'), search')
    BY <1>10, <1>4 DEF Searching
  <2> QED  BY <1>0, <1>2, <1>10, <1>4
<1>9. Reporting'
  <2> SUFFICES ASSUME what = "found" \/ (what = "read" /\ n = 0 /\ search' # NotFound)
               PROVE  \E i \in Nat : /\ search' = i + Len(Delim)
                                     /\ FirstMatch(Data(sb'), i)
    BY <1>10, <1>4 DEF Reporting
  <2>1. search' = at + Len(Delim) /\ IsWhole(data, at)
    BY <1>10
  <2>2. at \in Nat /\ FirstMatch(data, at)
    BY <1>0, <1>2, <2>1 DEF FirstMatch
  <2> QED  BY <1>4, <2>1, <2>2
<1> QED  BY <1>5, <1>6, <1>7, <1>8, <1>9 DEF IInv

(* What is received goes from the socket to the end of the data.           *)
LEMMA ReceivedStep ==
  ASSUME IInv, Received
  PROVE  IInv'
<1>0. /\ sb \in StreamBufs /\ Sound(sb)
      /\ net \in Seq(Bytes) /\ taken \in Seq(Bytes)
      /\ Data(sb) \in Seq(Bytes) /\ Len(Data(sb)) = Size(sb) /\ Size(sb) \in Nat
      /\ Len(net) \in Nat /\ asked \in Nat
  BY State DEF IInv, TypeOK
<1>1. PICK n \in 1 .. Least(asked, Len(net)) :
        /\ sb' = Commit(Fill(sb, SubSeq(net, 1, n)), n)
        /\ net' = SubSeq(net, n + 1, Len(net))
  BY DEF Received
<1>2. /\ op = "read" /\ asked > 0 /\ op' = "search" /\ asked' = 0
      /\ UNCHANGED <<stream, search, first, taken>>
  BY DEF Received
<1>3. n \in 0 .. Len(net) /\ n <= asked
  BY <1>0 DEF Least
<1> DEFINE bytes == SubSeq(net, 1, n)
<1>4. /\ bytes \in Seq(Bytes) /\ net' \in Seq(Bytes) /\ Len(bytes) = n
      /\ bytes \o net' = net
  BY <1>0, <1>1, <1>3, Cut
<1> HIDE DEF bytes
<1>5. /\ sb' \in StreamBufs /\ Sound(sb')
      /\ Size(sb') = Size(sb) + n /\ Data(sb') = Data(sb) \o bytes
  <2>1. n <= sb.end - sb.put
    <3>1. asked <= sb.end - sb.put /\ sb.end \in Nat /\ sb.put \in Nat
      BY <1>0, <1>2, DataProperties DEF IInv, Prepared
    <3> QED  BY <1>0, <1>3, <3>1
  <2>2. sb' = Commit(Fill(sb, bytes), Len(bytes))
    BY <1>1, <1>4 DEF bytes
  <2>3. Len(bytes) <= sb.end - sb.put
    BY <1>4, <2>1
  <2>4. LET C == Commit(Fill(sb, bytes), Len(bytes))
        IN  /\ C \in StreamBufs /\ Sound(C)
            /\ Size(C) = Size(sb) + Len(bytes) /\ Data(C) = Data(sb) \o bytes
    BY <1>0, <1>4, <2>3, CommitAppends
  <2> QED  BY <1>4, <2>2, <2>4
<1>6. TypeOK' /\ NeverThrows'
  BY <1>2, <1>4, <1>5 DEF IInv, TypeOK, NeverThrows
<1>7. Sound(sb)' /\ Prepared'
  BY <1>2, <1>5 DEF Prepared, Sound
<1>8. Intact'
  <2>1. taken \o Data(sb) \o net = stream
    BY DEF IInv, Intact
  <2>2. taken \o (Data(sb) \o bytes) \o net' = taken \o Data(sb) \o (bytes \o net')
    <3>1. /\ taken \in Seq(Bytes) /\ Data(sb) \in Seq(Bytes)
          /\ bytes \in Seq(Bytes) /\ net' \in Seq(Bytes)
      BY <1>0, <1>4
    <3>2. taken \o Data(sb) \in Seq(Bytes)
      BY <3>1, ConcatProperties
    <3>3. \A a, b, c \in Seq(Bytes) : a \o b \o c = a \o (b \o c)
      <4> TAKE a, b, c \in Seq(Bytes)
      <4> QED  BY ConcatAssociative, SMTT(60)
    <3>4. taken \o Data(sb) \o bytes = taken \o (Data(sb) \o bytes)
      BY <3>1, <3>3, Zenon
    <3>5. taken \o Data(sb) \o bytes \o net' = taken \o Data(sb) \o (bytes \o net')
      BY <3>1, <3>2, <3>3, Zenon
    <3> QED  BY <3>4, <3>5
  <2> QED  BY <1>2, <1>4, <1>5, <2>1, <2>2 DEF Intact
<1>9. Searching'
  <2>1. search \in Nat /\ search <= Size(sb) /\ NoneBefore(Data(sb), search)
    BY <1>2 DEF IInv, Searching
  <2>2. search \in 0 .. Len(Data(sb))
    BY <1>0, <2>1
  <2>3. NoneBefore(Data(sb) \o bytes, search)
    BY <1>0, <1>4, <2>1, <2>2, NoneBeforeAppend
  <2>4. search <= Size(sb')
    BY <1>0, <1>3, <1>5, <2>1
  <2> QED  BY <1>2, <1>5, <2>1, <2>3, <2>4 DEF Searching
<1>10. Reporting'
  BY <1>2 DEF Reporting
<1> QED  BY <1>6, <1>7, <1>8, <1>9, <1>10 DEF IInv

(* A read of no bytes hands on what the search before it found.            *)
LEMMA ReceivedNothingStep ==
  ASSUME IInv, ReceivedNothing
  PROVE  IInv'
<1>1. /\ op = "read" /\ asked' = 0 /\ UNCHANGED <<stream, net, sb, search, first, taken>>
      /\ op' \in {"found", "notFound", "eof"}
      /\ op' = "found" => asked = 0 /\ search # NotFound
  BY DEF ReceivedNothing
<1>2. UNCHANGED <<Data(sb), Size(sb)>>
  BY <1>1
<1>3. TypeOK' /\ NeverThrows'
  BY <1>1 DEF IInv, TypeOK, NeverThrows
<1>4. Sound(sb)' /\ Prepared' /\ Searching'
  BY <1>1 DEF IInv, Sound, Prepared, Searching
<1>5. Intact' /\ Reporting'
  BY <1>1, <1>2 DEF IInv, Intact, Reporting
<1> QED  BY <1>3, <1>4, <1>5 DEF IInv

(* What the caller consumes goes from the front of the data to taken.      *)
LEMMA CallStep ==
  ASSUME IInv, Call
  PROVE  IInv'
<1>0. /\ sb \in StreamBufs /\ Sound(sb)
      /\ net \in Seq(Bytes) /\ taken \in Seq(Bytes)
      /\ Data(sb) \in Seq(Bytes) /\ Len(Data(sb)) = Size(sb) /\ Size(sb) \in Nat
      /\ Len(Delim) \in Nat
  BY State
<1>1. PICK n \in {search, Size(sb), Size(sb) + search} :
        /\ sb' = Consume(sb, n)
        /\ taken' = taken \o SubSeq(Data(sb), 1, Least(n, Size(sb)))
  BY DEF Call
<1>2. /\ op = "found" /\ op' = "search" /\ first' = TRUE /\ search' = 0
      /\ UNCHANGED <<stream, net, asked>>
  BY DEF Call
<1>3. n \in Nat
  <2>1. search \in Nat
    BY <1>0, <1>2 DEF IInv, Reporting
  <2> QED  BY <1>0, <2>1
<1> DEFINE k == Least(n, Size(sb))
           piece == SubSeq(Data(sb), 1, k)
           after == SubSeq(Data(sb), k + 1, Len(Data(sb)))
<1>4. /\ sb' \in StreamBufs /\ Sound(sb') /\ k \in 0 .. Size(sb) /\ Data(sb') = after
  BY <1>0, <1>1, <1>3, ConsumeTakes
<1> HIDE DEF k
<1>5. piece \in Seq(Bytes) /\ after \in Seq(Bytes) /\ piece \o after = Data(sb)
  BY <1>0, <1>4, Cut
<1>6. taken' = taken \o piece
  BY <1>1 DEF k
<1> HIDE DEF piece, after
<1>7. TypeOK' /\ NeverThrows'
  <2>1. taken' \in Seq(Bytes)
    BY <1>0, <1>5, <1>6, ConcatProperties
  <2> QED  BY <1>2, <1>4, <2>1 DEF IInv, TypeOK, NeverThrows
<1>8. Sound(sb)' /\ Prepared'
  BY <1>2, <1>4 DEF Prepared, Sound
<1>9. Intact'
  <2>1. taken \o (piece \o after) \o net = stream
    BY <1>5 DEF IInv, Intact
  <2>2. taken \o piece \o after = taken \o (piece \o after)
    <3>1. taken \in Seq(Bytes) /\ piece \in Seq(Bytes) /\ after \in Seq(Bytes)
      BY <1>0, <1>5
    <3> QED  BY <3>1, ConcatAssociative, SMTT(60)
  <2> QED  BY <1>2, <1>4, <1>6, <2>1, <2>2 DEF Intact
<1>10. Searching'
  <2>1. Size(sb') \in Nat
    BY <1>4, DataProperties
  <2> QED  BY <1>2, <2>1 DEF Searching, NoneBefore
<1>11. Reporting'
  BY <1>2 DEF Reporting
<1> QED  BY <1>7, <1>8, <1>9, <1>10, <1>11 DEF IInv

(* All is in the socket, and a search begins on an empty buffer.           *)
LEMMA InitInvariant == Init => IInv
<1> SUFFICES ASSUME Init
             PROVE  IInv
  OBVIOUS
<1>1. /\ stream \in Streams /\ net = stream /\ sb = Empty /\ search = 0 /\ asked = 0
      /\ op = "search" /\ first = TRUE /\ taken = <<>>
  BY DEF Init
<1>2. net \in Seq(Bytes) /\ <<>> \in Seq(Bytes)
  BY <1>1, ReadUntilAssumption, EmptySeq
<1>3. sb \in StreamBufs /\ Sound(sb) /\ Size(sb) = 0 /\ Data(sb) = <<>>
  BY <1>1, EmptyProperties
<1>4. TypeOK /\ Prepared /\ NeverThrows
  BY <1>1, <1>2, <1>3 DEF TypeOK, Prepared, NeverThrows
<1>5. Intact
  <2>1. <<>> \o <<>> = <<>> /\ <<>> \o net = net
    BY <1>2, ConcatEmptySeq
  <2> QED  BY <1>1, <1>3, <2>1 DEF Intact
<1>6. Searching /\ Reporting
  BY <1>1, <1>3 DEF Searching, Reporting, NoneBefore
<1> QED  BY <1>3, <1>4, <1>5, <1>6 DEF IInv

(* A step that changes nothing keeps the invariant.                        *)
LEMMA StutterInvariant ==
  ASSUME IInv, UNCHANGED vars
  PROVE  IInv'
<1>1. UNCHANGED <<stream, net, sb, search, asked, op, first, taken>>
  BY DEF vars
<1>2. UNCHANGED <<Data(sb), Size(sb)>>
  BY <1>1
<1> QED
  BY <1>1, <1>2 DEF IInv, TypeOK, Sound, Prepared, Intact, NeverThrows, Searching,
                    Reporting
-----------------------------------------------------------------------------
(* Theorems.                                                               *)

(* The streambuf stays sound, has room for what is asked of each read, and *)
(* no search begins behind a delimiter that is yet to be completed.        *)
THEOREM Inductive == Spec => []IInv
<1>1. IInv /\ [Next]_vars => IInv'
  BY SearchStep, ReceivedStep, ReceivedNothingStep, CallStep, StutterInvariant DEF Next
<1> QED  BY <1>1, InitInvariant, PTL DEF Spec

(* Moves and growth of the array, reads of any size and consumes of more   *)
(* than there is lose, repeat and reorder no byte.                         *)
THEOREM BytesIntact == Spec => []Intact
<1>1. IInv => Intact
  BY DEF IInv
<1> QED  BY <1>1, Inductive, PTL

(* No call of prepare exceeds max_size_.                                   *)
THEOREM PrepareNeverThrows == Spec => []NeverThrows
<1>1. IInv => NeverThrows
  BY DEF IInv
<1> QED  BY <1>1, Inductive, PTL

(* Each read_until reports the end of the first delimiter, in however many *)
(* pieces it came.                                                         *)
THEOREM FirstDelimiterFound == Spec => []FirstDelimiter
<1>1. IInv => FirstDelimiter
  <2> SUFFICES ASSUME IInv, op = "found"
               PROVE  /\ EndsAt(Data(sb), search)
                      /\ \A n \in 0 .. search - 1 : ~EndsAt(Data(sb), n)
    BY DEF FirstDelimiter
  <2>1. PICK at \in Nat : search = at + Len(Delim) /\ FirstMatch(Data(sb), at)
    BY DEF IInv, Reporting
  <2>2. Data(sb) \in Seq(Bytes)
    BY State
  <2> QED  BY <2>1, <2>2, FirstMatchEnds
<1> QED  BY <1>1, Inductive, PTL
=============================================================================
