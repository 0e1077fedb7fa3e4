---------------------------- MODULE TcpTransfer ----------------------------
(***************************************************************************)
(* One connection of the "tcp" transport of tema1: handle_tcp of the       *)
(* client and handle_connection of the server.  TCP carries a stream of    *)
(* bytes, in order, that it may cut anywhere; the frames in it are a       *)
(* little-endian length and that many bytes, and a length of 0 ends the    *)
(* transfer.                                                               *)
(*                                                                         *)
(* A byte is a digit below Base.  The bytes of a file are all Filler, a    *)
(* digit that would be taken for a length by a reader that lost the frame  *)
(* boundaries.                                                             *)
(***************************************************************************)
EXTENDS Naturals, Sequences, BlockIterator

CONSTANTS MaxFile, MaxBlock,  \* bounds of the file's length and --block-size
          Base, HeaderBytes,  \* a header: 4 digits below 256 in the code
          Window,             \* bytes the connection holds before writes wait
          Faults              \* subset of {"kill", "reset"}

Filler == 1

ASSUME SizesAssumption == MaxFile \in Nat /\ MaxBlock \in Nat \ {0}
ASSUME WindowAssumption == Window \in Nat \ {0} /\ Faults \subseteq {"kill", "reset"}

VARIABLES
  file, block,         \* the length of the file and --block-size
  cpc,                 \* where the client is, or what it returned
  pos,                 \* current_pos of its iterator
  out,                 \* bytes its write_all calls have still to write
  cpackets, cbytes,    \* its stats
  stream, fin, reset,  \* the connection: bytes, end of stream, reset
  spc,                 \* where the server's task is, or what it returned
  buf, need,           \* what read_exact has read, and how much it wants
  spackets, sbytes     \* its stats

clientVars == <<cpc, pos, out, cpackets, cbytes>>
connVars   == <<stream, fin, reset>>
serverVars == <<spc, buf, need, spackets, sbytes>>
vars == <<file, block, clientVars, connVars, serverVars>>

Init ==
  /\ file \in 0..MaxFile /\ block \in 1..MaxBlock
  /\ cpc = "next" /\ pos = 0 /\ out = <<>> /\ cpackets = 0 /\ cbytes = 0
  /\ stream = <<>> /\ fin = FALSE /\ reset = FALSE
  /\ spc = "header" /\ buf = <<>> /\ need = HeaderBytes
  /\ spackets = 0 /\ sbytes = 0

-----------------------------------------------------------------------------
\* LenHeader::to_bytes and from_bytes.

\* What is left of n when its i lowest digits are taken.
Left(n) ==
  LET left[i \in 0..HeaderBytes] == IF i = 0 THEN n ELSE left[i - 1] \div Base
  IN  left

\* The length of a chunk fits the header: 65534 < 2^32.
ASSUME HeaderAssumption == /\ Base \in Nat /\ Filler < Base /\ HeaderBytes \in Nat
                           /\ Left(MaxBlock)[HeaderBytes] = 0

ToBytesBigEndian(n) == [i \in 1..HeaderBytes |-> Left(n)[HeaderBytes - i] % Base]
ToBytes(n) == [i \in 1..HeaderBytes |-> Left(n)[i - 1] % Base]
FromBytes(s) ==
  LET value[i \in 1..(Len(s) + 1)] ==
        IF i > Len(s) THEN 0 ELSE s[i] + Base * value[i + 1]
  IN  value[1]

-----------------------------------------------------------------------------
\* The client.  The bytes leave it one at a time, as the connection takes them.

SendChunk ==
  /\ cpc = "next" /\ HasNext(pos, file)
  /\ LET end == ChunkEnd(pos, block, file)
     IN  /\ out' = ToBytes(end - pos) \o [i \in 1..(end - pos) |-> Filler]
         /\ pos' = end
  /\ cpc' = "write"
  /\ UNCHANGED <<file, block, cpackets, cbytes, connVars, serverVars>>

Write ==
  /\ out # <<>> /\ ~reset /\ Len(stream) < Window
  /\ stream' = Append(stream, Head(out))
  /\ out' = Tail(out)
  /\ UNCHANGED <<file, block, cpc, pos, cpackets, cbytes, fin, reset, serverVars>>

\* Both write_all calls and the flush are done: count the chunk.
Written ==
  /\ cpc = "write" /\ out = <<>>
  /\ cpackets' = cpackets + 1
  /\ cbytes' = pos
  /\ cpc' = "next"
  /\ UNCHANGED <<file, block, pos, out, connVars, serverVars>>

\* Slip: the stream is shut down without the length of 0.
SendEndNone ==
  /\ cpc = "next" /\ ~HasNext(pos, file) /\ cpc' = "end"
  /\ UNCHANGED <<file, block, pos, out, cpackets, cbytes, connVars, serverVars>>

SendEnd ==
  /\ cpc = "next" /\ ~HasNext(pos, file)
  /\ out' = ToBytes(0)
  /\ cpc' = "end"
  /\ UNCHANGED <<file, block, pos, cpackets, cbytes, connVars, serverVars>>

Shutdown ==
  /\ cpc = "end" /\ out = <<>> /\ ~reset
  /\ fin' = TRUE
  /\ cpc' = "ok"
  /\ UNCHANGED <<file, block, pos, out, cpackets, cbytes, stream, reset, serverVars>>

\* A write, a flush or the shutdown of a broken connection is an error.
ClientError ==
  /\ cpc \in {"write", "end"} /\ reset
  /\ cpc' = "failed" /\ out' = <<>> /\ fin' = TRUE
  /\ UNCHANGED <<file, block, pos, cpackets, cbytes, stream, reset, serverVars>>

\* run_experiments.py kills a client after 300 s: the stream ends where it is.
Kill ==
  /\ "kill" \in Faults /\ cpc \in {"next", "write", "end"}
  /\ cpc' = "failed" /\ out' = <<>> /\ fin' = TRUE
  /\ UNCHANGED <<file, block, pos, cpackets, cbytes, stream, reset, serverVars>>

ClientStep == SendChunk \/ Write \/ Written \/ SendEnd \/ Shutdown \/ ClientError

-----------------------------------------------------------------------------
\* The server: read_exact of a header, then of as many bytes as it says.

Read ==
  /\ spc \in {"header", "body"} /\ Len(buf) < need /\ stream # <<>>
  /\ buf' = Append(buf, Head(stream))
  /\ stream' = Tail(stream)
  /\ UNCHANGED <<file, block, clientVars, fin, reset, spc, need, spackets, sbytes>>

HeaderRead ==
  /\ spc = "header" /\ Len(buf) = need
  /\ spc' = IF FromBytes(buf) = 0 THEN "ok" ELSE "body"
  /\ need' = FromBytes(buf) /\ buf' = <<>>
  /\ UNCHANGED <<file, block, clientVars, connVars, spackets, sbytes>>

BodyRead ==
  /\ spc = "body" /\ Len(buf) = need
  /\ sbytes' = sbytes + Len(buf) /\ spackets' = spackets + 1
  /\ spc' = "header" /\ need' = HeaderBytes /\ buf' = <<>>
  /\ UNCHANGED <<file, block, clientVars, connVars>>

\* Slips: the end of the stream between two frames ends the transfer well; a
\* read of no bytes is tried again.
EofOk == /\ spc = "header" /\ buf = <<>> /\ stream = <<>> /\ fin /\ spc' = "ok"
         /\ UNCHANGED <<file, block, clientVars, connVars, buf, need, spackets,
                        sbytes>>
EofRetried == /\ spc = "header" /\ reset /\ spc' = "error"
              /\ UNCHANGED <<file, block, clientVars, connVars, buf, need,
                             spackets, sbytes>>

\* read_exact wants more than there is: an error, even between two frames.
Eof ==
  /\ spc \in {"header", "body"} /\ Len(buf) < need
  /\ reset \/ (stream = <<>> /\ fin)
  /\ spc' = "error"
  /\ UNCHANGED <<file, block, clientVars, connVars, buf, need, spackets, sbytes>>

ServerStep == Read \/ HeaderRead \/ BodyRead \/ Eof

\* The connection breaks: what is in it is gone, for both ends.
Reset ==
  /\ "reset" \in Faults /\ ~reset
  /\ reset' = TRUE /\ stream' = <<>>
  /\ UNCHANGED <<file, block, clientVars, fin, serverVars>>

Next == ClientStep \/ Kill \/ ServerStep \/ Reset
Spec == Init /\ [][Next]_vars
\* The runtime polls both tasks while their socket is ready.
FairSpec == Spec /\ WF_vars(ClientStep) /\ WF_vars(ServerStep)

-----------------------------------------------------------------------------
\* Every variable has its type; the iterator stays inside the file.
TypeOK ==
  /\ file \in 0..MaxFile /\ block \in 1..MaxBlock
  /\ cpc \in {"next", "write", "end", "ok", "failed"}
  /\ pos \in 0..file /\ cpackets \in Nat /\ cbytes \in 0..file
  /\ out \in Seq(0..(Base - 1)) /\ stream \in Seq(0..(Base - 1))
  /\ Len(stream) <= Window
  /\ fin \in BOOLEAN /\ reset \in BOOLEAN
  /\ spc \in {"header", "body", "ok", "error"}
  /\ buf \in Seq(0..(Base - 1)) /\ Len(buf) <= need
  /\ need \in 0..MaxBlock \cup {HeaderBytes} /\ spackets \in Nat /\ sbytes \in Nat

\* What a reader that is at a frame boundary would make of the bytes s: the
\* sum of the lengths it meets, frame after frame.
Lengths(s) ==
  LET total[i \in 1..(Len(s) + 1)] ==
        IF i + HeaderBytes - 1 > Len(s) THEN 0
        ELSE LET n == FromBytes(SubSeq(s, i, i + HeaderBytes - 1))
             IN  IF n = 0 \/ i + HeaderBytes + n - 1 > Len(s) THEN n
                 ELSE n + total[i + HeaderBytes + n]
  IN  total[1]

\* Every variable has its type and, however the stream is cut, the server is in step
\* with the client: the frames it has read, is reading and has still to read are what
\* was sent.
InStep ==
  LET pipe == buf \o stream \o out
  IN  TypeOK /\ (cpc # "failed" /\ ~reset /\ spc \in {"header", "body"} =>
        pos = sbytes + (IF spc = "header" THEN Lengths(pipe)
                        ELSE need + Lengths(SubSeq(pipe, need + 1, Len(pipe)))))

\* A report of the server is of a whole file, each chunk counted once.
ReportIsWhole ==
  spc = "ok" => sbytes = file /\ spackets = NumChunks(file, block)

\* What a client reports sent is received and reported, unless the connection
\* breaks after the client has left: handle_tcp does not wait for an answer.
OkIsReceived == (cpc = "ok") ~> (spc = "ok" \/ reset)

\* Both ends return, whatever happens to the other.
BothEnd == <>(cpc \in {"ok", "failed"}) /\ <>(spc \in {"ok", "error"})

=============================================================================
