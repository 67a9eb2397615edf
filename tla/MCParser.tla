------------------------------ MODULE MCParser ------------------------------
(***************************************************************************)
(* Instances of Parser for TLC.  The data a client passes are the prefixes *)
(* and the suffixes of a few messages: whole messages, messages cut        *)
(* anywhere, and what is left of them.                                     *)
(***************************************************************************)
EXTENDS Parser

CONSTANT MessageSet   (* Names of the messages, members of Catalogue's domain. *)

L(kind) == [kind |-> kind]
EOL     == <<L("CR"), L("LF")>>
Line(name, value) == <<[kind |-> "field", name |-> name, value |-> value]>> \o EOL

MCValues   == {"h:1", "h", "0", "2", "x"}
MCWithPort == {"h:1"}
MCLengthOf == [v \in MCValues |-> CASE v = "0" -> 0 [] v = "2" -> 2 [] OTHER -> Invalid]

RequestLine == <<L("method"), L("SP"), L("uri"), L("SP"), L("version")>> \o EOL
Host        == Line("Host", "h:1")
Body        == <<L("byte"), L("byte")>>

Catalogue ==
  [plain    |-> RequestLine \o Host \o EOL,
   body     |-> RequestLine \o Host \o Line("Content-Length", "2") \o EOL \o Body,
   zero     |-> RequestLine \o Host \o Line("Content-Length", "0") \o EOL \o Body,
   badSize  |-> RequestLine \o Host \o Line("Content-Length", "x") \o EOL \o Body,
   twoSizes |-> RequestLine \o Host \o Line("Content-Length", "2")
                  \o Line("Content-Length", "x") \o EOL,
   chunked  |-> RequestLine \o Host \o Line("Content-Length", "2")
                  \o Line("Transfer-Encoding", "x") \o EOL \o Body,
   twoEncodings |-> RequestLine \o Host \o Line("Content-Length", "2")
                      \o Line("Transfer-Encoding", "x")
                      \o Line("Transfer-Encoding", "x") \o EOL \o Body,
   encoding |-> RequestLine \o Host \o Line("Transfer-Encoding", "x") \o EOL \o Body,
   noPort   |-> RequestLine \o Line("Host", "h") \o EOL,
   noPortBad |-> RequestLine \o Line("Host", "h") \o <<L("badField")>> \o EOL \o EOL,
   lower    |-> RequestLine \o Line("host", "h:1") \o EOL \o Body,
   twoHosts |-> RequestLine \o Line("host", "h:1") \o Host \o EOL \o Body,
   badField |-> RequestLine \o <<L("badField")>> \o EOL,
   badUri   |-> <<L("method"), L("SP"), L("badUri"), L("SP"), L("junk")>>,
   noSlash  |-> <<L("method"), L("SP"), L("junk")>>,
   cutWord  |-> <<L("method"), L("SP"), L("uri"), L("SP"), L("http")>>,
   lowWord  |-> <<L("method"), L("lower")>>,
   noSpace  |-> <<L("method"), L("SP"), L("uri"), L("CR")>>,
   badLine  |-> <<L("method"), L("SP"), L("uri"), L("SP"), L("version"),
                  L("CR"), L("CR")>>]

MCInputs ==
  UNION {{SubSeq(m, 1, n) : n \in 1 .. Len(m)}
                  \cup {SubSeq(m, n, Len(m)) : n \in 1 .. Len(m)} :
                m \in {Catalogue[name] : name \in MessageSet}}
=============================================================================
