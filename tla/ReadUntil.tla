------------------------------- MODULE ReadUntil -------------------------------
(***************************************************************************)
(* asio::async_read_until on a session's socket and stream_buffer_         *)
(* (include/camille/utils/asio/impl/read_until.hpp), one call of it after  *)
(* another: the search for the delimiter in what the buffer holds, that    *)
(* goes on where the search before it stopped, and the reads of some more. *)
(* The client's bytes arrive in pieces of any size.                        *)
(***************************************************************************)
EXTENDS StreamBuf, FiniteSets

CONSTANTS
  Delim,      (* The delimiter.                                            *)
  Streams,    (* What a client may send.                                   *)
  MinRead,    (* The least that is asked of a read: 512                    *)
  MaxRead,    (* The most: 65536                                           *)
  NotFound    (* not_found, a search position that is none                 *)

ASSUME ReadUntilAssumption ==
  /\ Delim \in Seq(Bytes) /\ Delim # <<>>
  /\ Streams \subseteq Seq(Bytes)
  /\ MinRead \in Nat \ {0} /\ MaxRead \in Nat \ {0}
  /\ NotFound \notin Nat

VARIABLES
  stream,     (* all that the client sends                                 *)
  net,        (* what of it is still to be read                            *)
  sb,         (* the streambuf                                             *)
  search,     (* search_position_                                          *)
  asked,      (* how many bytes the read in flight may bring               *)
  op,         (* search, read (in flight), found, notFound, eof, thrown    *)
  first,      (* whether the operation is being initiated (start = 1)      *)
  taken       (* history: the bytes consumed by the callers                *)

vars == <<stream, net, sb, search, asked, op, first, taken>>

Init ==
  /\ stream \in Streams /\ net = stream
  /\ sb = Empty /\ search = 0 /\ asked = 0
  /\ op = "search" /\ first = TRUE
  /\ taken = <<>>
-----------------------------------------------------------------------------
(* A match of the delimiter at offset i of data: of as much as there is.   *)
MatchesAt(data, i) ==
  \A j \in 1 .. Least(Len(Delim), Len(data) - i) : data[i + j] = Delim[j]

(* partial_search: the first match, whole or cut short by the end of data, *)
(* and else the end.                                                       *)
PartialSearch(data, from) ==
  CHOOSE i \in from .. Len(data) :
    /\ MatchesAt(data, i)
    /\ \A j \in from .. i - 1 : ~MatchesAt(data, j)

IsWhole(data, i) == i + Len(Delim) <= Len(data)

MutSpareOnly(capacity) ==             \* no more than there is room for
  Least(capacity - Size(sb), Least(MaxRead, MaxSize - Size(sb)))
MutBytesToRead(capacity) ==           \* regardless of what is left of max_size
  Least(Most(MinRead, capacity - Size(sb)), MaxRead)
BytesToRead(capacity) ==
  Least(Most(MinRead, capacity - Size(sb)), Least(MaxRead, MaxSize - Size(sb)))

(* The read of some more: into n prepared bytes.  A read of none, which    *)
(* only the initiation starts, completes at once.                          *)
ReadSome(n) ==
  IF CanPrepare(sb, n)
    THEN sb' = Prepare(sb, n) /\ asked' = n /\ op' = "read"
    ELSE op' = "thrown" /\ UNCHANGED <<sb, asked>>

Done(what) == op' = what /\ UNCHANGED <<sb, asked>>

(* The loop's body, the search and what follows from it.  capacity() is    *)
(* anything from the size of the vector on; two values will do.            *)
Search ==
  /\ op = "search"
  /\ LET data == Data(sb)
         at   == PartialSearch(data, search)
     IN  \/ /\ IsWhole(data, at)
            /\ search' = at + Len(Delim)
            /\ IF first THEN ReadSome(0) ELSE Done("found")
         \/ /\ ~IsWhole(data, at) /\ Size(sb) = MaxSize
            /\ search' = NotFound
            /\ IF first THEN ReadSome(0) ELSE Done("notFound")
         \/ /\ ~IsWhole(data, at) /\ Size(sb) # MaxSize
            /\ search' = at
            /\ \E capacity \in {Len(sb.array), 2 * Len(sb.array)} :
                 ReadSome(BytesToRead(capacity))
  /\ first' = FALSE
  /\ UNCHANGED <<stream, net, taken>>

(* The handler of async_read_some: what came is committed, and the loop    *)
(* goes on.                                                                *)
Received ==
  /\ op = "read" /\ asked > 0
  /\ \E n \in 1 .. Least(asked, Len(net)) :
       /\ sb' = Commit(Fill(sb, SubSeq(net, 1, n)), n)
       /\ net' = SubSeq(net, n + 1, Len(net))
  /\ op' = "search" /\ asked' = 0
  /\ UNCHANGED <<stream, search, first, taken>>

(* A read of no bytes, or one that ends with the client's end.             *)
ReceivedNothing ==
  /\ op = "read"
  /\ \/ asked = 0 /\ op' = IF search = NotFound THEN "notFound" ELSE "found"
     \/ asked > 0 /\ net = <<>> /\ op' = "eof"
  /\ asked' = 0
  /\ UNCHANGED <<stream, net, sb, search, first, taken>>

(* The caller: it consumes the piece, or like a session also what follows  *)
(* it, and once more to_consume; then it calls again.                      *)
Call ==
  /\ op = "found"
  /\ \E n \in {search, Size(sb), Size(sb) + search} :
       /\ sb' = Consume(sb, n)
       /\ taken' = taken \o SubSeq(Data(sb), 1, Least(n, Size(sb)))
  /\ op' = "search" /\ first' = TRUE /\ search' = 0
  /\ UNCHANGED <<stream, net, asked>>

Next == Search \/ Received \/ ReceivedNothing \/ Call
Spec == Init /\ [][Next]_vars
-----------------------------------------------------------------------------
(* Properties.                                                             *)

(* Through every move and growth of the array, and every size of read, the *)
(* buffer holds what was received and not consumed, and nothing else.      *)
Intact == taken \o Data(sb) \o net = stream

EndsAt(data, n) ==
  n >= Len(Delim) /\ n <= Len(data) /\ SubSeq(data, n - Len(Delim) + 1, n) = Delim

(* The handler is told the end of the first delimiter in the buffer, even  *)
(* of one that came in several pieces or was there before the call.        *)
FirstDelimiter ==
  op = "found" =>
    EndsAt(Data(sb), search) /\ \A n \in 0 .. search - 1 : ~EndsAt(Data(sb), n)

(* What is asked of prepare it can always provide.                         *)
NeverThrows == op # "thrown"
=============================================================================
