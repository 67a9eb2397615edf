------------------------------- MODULE StreamBuf -------------------------------
(***************************************************************************)
(* asio::basic_streambuf (include/camille/utils/asio/basic_streambuf.hpp), *)
(* the stream_buffer_ of a session, as values and the operators on them:   *)
(* one array and the offsets in it of the next byte to get, of the next    *)
(* byte to put and of the end of the put area.                             *)
(***************************************************************************)
EXTENDS Naturals, Sequences

CONSTANTS
  Bytes,         (* The bytes a stream is made of.                         *)
  Blank,         (* One that was never written.                            *)
  MaxSize,       (* max_size_                                              *)
  BufferDelta    (* buffer_delta                                           *)

ASSUME StreamBufAssumption ==
  /\ Blank \notin Bytes
  /\ MaxSize \in Nat
  /\ BufferDelta \in Nat \ {0}

Least(m, n) == IF m < n THEN m ELSE n
Most(m, n)  == IF m < n THEN n ELSE m

StreamBufs == [array : Seq(Bytes \cup {Blank}), get : Nat, put : Nat, end : Nat]

Empty ==
  LET pend == Least(MaxSize, BufferDelta)
  IN  [array |-> [i \in 1 .. Most(pend, 1) |-> Blank], get |-> 0, put |-> 0, end |-> pend]

Size(sb) == sb.put - sb.get
Data(sb) == SubSeq(sb.array, sb.get + 1, sb.put)

MutShifted(sb) ==         \* the content that is kept begins one byte late
  IF sb.get = 0 THEN sb.array
  ELSE [i \in 1 .. Len(sb.array) |->
          IF i <= sb.put - sb.get THEN sb.array[Least(sb.get + i + 1, Len(sb.array))]
          ELSE sb.array[i]]
(* reserve's memmove of the content to the start of the array.             *)
Shifted(sb) ==
  [i \in 1 .. Len(sb.array) |->
     IF i <= Size(sb) THEN sb.array[sb.get + i] ELSE sb.array[i]]

Resized(array, n) == [i \in 1 .. n |-> IF i <= Len(array) THEN array[i] ELSE Blank]

(* prepare(n) can be had without throwing length_error.                    *)
CanPrepare(sb, n) == n <= sb.end - sb.put \/ Size(sb) + n <= MaxSize

(* prepare: reserve(n) makes room for n bytes, by moving the content to    *)
(* the front and, if that does not do, by a larger array.                  *)
Prepare(sb, n) ==
  LET pnext == Size(sb)
      pend  == IF n > sb.end - pnext THEN pnext + n ELSE sb.end
  IN  IF n <= sb.end - sb.put THEN sb
      ELSE [array |-> IF pend = sb.end THEN Shifted(sb)
                      ELSE Resized(Shifted(sb), Most(pend, 1)),
            get   |-> 0, put |-> pnext, end |-> pend]

(* What async_read_some writes into what was prepared.                     *)
Fill(sb, bytes) ==
  [sb EXCEPT !.array = [i \in 1 .. Len(@) |->
     IF i \in sb.put + 1 .. sb.put + Len(bytes) THEN bytes[i - sb.put] ELSE @[i]]]

Commit(sb, n)  == [sb EXCEPT !.put = @ + Least(n, sb.end - @)]

Consume(sb, n) == [sb EXCEPT !.get = @ + Least(n, Size(sb))]
=============================================================================
