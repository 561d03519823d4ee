----------------------------- MODULE RemoteStream -----------------------------
(***************************************************************************)
(* A remote file on its way to a client: the goroutine of StreamFile that  *)
(* feeds a pipe piece by piece (pkg/clients/remote-ton-storage/client.go), *)
(* the metered reader (metrics_stream.go), and the two consumers of the    *)
(* pipe, streamWithDeadline and serveHTMLFile (pkg/httpServer/helpers.go), *)
(* in a program that may be told to stop at any time (module Lifecycle).   *)
(*                                                                         *)
(* The bytes of a bag are their positions 0, 1, ...; a file is a range of  *)
(* them.  io.Pipe, the prefetcher of the storage library and the buffers   *)
(* of the HTTP server are outside src/.  A stream that has ended on both   *)
(* sides may be opened anew.                                               *)
(***************************************************************************)
EXTENDS Lifecycle, Integers, FiniteSets

CONSTANTS
  Streams,    \* streams open at a time
  Files,      \* the files that are asked for: [from, to], to excluded
  PieceSize,  \* bytes in a piece of a bag
  ReadSize    \* the buffer of streamWithDeadline

ASSUME StreamAssumption ==
  /\ Files \subseteq [from : Nat, to : Nat] /\ \A f \in Files : f.from <= f.to
  /\ PieceSize \in Nat \ {0} /\ ReadSize \in Nat \ {0}
  /\ IsFiniteSet(Streams)

VARIABLES
  info,     \* info[s]: the FileInfo of GetFileOffsets, with the file's range
  html,     \* html[s]: the consumer is serveHTMLFile
  feeder,   \* feeder[s]: the step of the goroutine in StreamFile
  piece,    \* piece[s]: p of its loop
  rest,     \* rest[s]: what the reader has not taken yet of the present Write
  pipe,     \* pipe[s]: how the writing end was closed
  reader,   \* reader[s]: the step of the consumer
  chunk,    \* chunk[s]: what the consumer has read and not passed on
  sent,     \* sent[s]: what it has passed on to the client
  cause,    \* cause[s]: why the consumer ended
  late,     \* late[s]: the deadline has passed
  gone,     \* gone[s]: the client's connection is broken
  overdue,  \* overdue[s]: the reads that brought bytes after the deadline
  activeStreams  \* the gauge

feederVars == <<info, feeder, piece, rest, pipe>>
readerVars == <<html, reader, chunk, sent, cause, activeStreams>>
clientVars == <<late, gone, overdue>>
streamVars == <<feederVars, readerVars, clientVars>>
vars == <<lifeVars, streamVars>>

(* GetFileOffsets: the pieces that hold the first byte and the end of f. A *)
(* file that ends with a piece may be said to end with that piece or at    *)
(* the beginning of the next one.                                          *)
Offsets(f) ==
  LET FromPiece == f.from \div PieceSize
      Info(ToPiece) ==
        [range |-> f, FromPiece |-> FromPiece, FromPieceOffset |-> f.from % PieceSize,
         ToPiece |-> ToPiece, ToPieceOffset |-> f.to - ToPiece * PieceSize]
      next == f.to \div PieceSize
  IN {Info(next)} \cup
       (IF f.to % PieceSize = 0 /\ f.from < f.to THEN {Info(next - 1)} ELSE {})

Infos == UNION {Offsets(f) : f \in Files}
NoInfo == [range |-> [from |-> 0, to |-> 0], FromPiece |-> 0, FromPieceOffset |-> 0,
           ToPiece |-> 0, ToPieceOffset |-> 0]

Smaller(m, n) == IF m < n THEN m ELSE n

Between(a, b) == [k \in 1..(b - a) |-> a + k - 1]
Bytes(f) == Between(f.from, f.to)
Data(p) == Between(p * PieceSize, (p + 1) * PieceSize)

StreamTypeOK ==
  /\ info \in [Streams -> Infos \cup {NoInfo}]
  /\ html \in [Streams -> BOOLEAN]
  /\ feeder \in [Streams -> {"none", "check", "fetch", "write", "ended"}]
  /\ piece \in [Streams -> Nat]
  /\ rest \in [Streams -> Seq(Nat)]
  /\ pipe \in [Streams -> {"open", "eof", "error"}]
  /\ reader \in [Streams -> {"none", "loop", "read", "send", "flush", "ended"}]
  /\ chunk \in [Streams -> Seq(Nat)]
  /\ sent \in [Streams -> Seq(Nat)]
  /\ cause \in [Streams -> {"none", "eof", "error", "deadline", "gone", "page"}]
  /\ late \in [Streams -> BOOLEAN]
  /\ gone \in [Streams -> BOOLEAN]
  /\ overdue \in [Streams -> Nat]
  /\ activeStreams \in Int

TypeOK == LifeTypeOK /\ StreamTypeOK

StreamInit ==
  /\ info = [s \in Streams |-> NoInfo]
  /\ html = [s \in Streams |-> FALSE]
  /\ feeder = [s \in Streams |-> "none"]
  /\ piece = [s \in Streams |-> 0]
  /\ rest = [s \in Streams |-> <<>>]
  /\ pipe = [s \in Streams |-> "open"]
  /\ reader = [s \in Streams |-> "none"]
  /\ chunk = [s \in Streams |-> <<>>]
  /\ sent = [s \in Streams |-> <<>>]
  /\ cause = [s \in Streams |-> "none"]
  /\ late = [s \in Streams |-> FALSE]
  /\ gone = [s \in Streams |-> FALSE]
  /\ overdue = [s \in Streams |-> 0]
  /\ activeStreams = 0

Init == LifeInit /\ StreamInit

-----------------------------------------------------------------------------
(* The request's context is done once the server shuts down. *)
Done == stage \in {"draining", "leaving"}

(* The network brings pieces while the client's gateway is open. *)
Online == {"storageGate", "netMgr"} \subseteq open

Accepting == stage \in {"serving", "closing"} /\ listening

Idle(s) == feeder[s] \in {"none", "ended"} /\ reader[s] \in {"none", "ended"}
Consuming(s) == reader[s] \notin {"none", "ended"}

(* StreamFile for a file of the bag, and the handler's choice of consumer. *)
OpenStream(s, i, h) ==
  /\ Accepting /\ Idle(s)
  /\ info' = [info EXCEPT ![s] = i]
  /\ html' = [html EXCEPT ![s] = h]
  /\ feeder' = [feeder EXCEPT ![s] = "check"]
  /\ piece' = [piece EXCEPT ![s] = i.FromPiece]
  /\ rest' = [rest EXCEPT ![s] = <<>>]
  /\ pipe' = [pipe EXCEPT ![s] = "open"]
  /\ reader' = [reader EXCEPT ![s] = IF h THEN "read" ELSE "loop"]
  /\ chunk' = [chunk EXCEPT ![s] = <<>>]
  /\ sent' = [sent EXCEPT ![s] = <<>>]
  /\ cause' = [cause EXCEPT ![s] = "none"]
  /\ late' = [late EXCEPT ![s] = FALSE]
  /\ gone' = [gone EXCEPT ![s] = FALSE]
  /\ overdue' = [overdue EXCEPT ![s] = 0]
  /\ activeStreams' = activeStreams + 1

(* GetFileOffsets does not know the path: an error, and no stream.         *)
(* Faulty variant: the gauge is raised before the path is looked up.       *)
UnknownPathCounted(s) ==
  /\ Accepting /\ Idle(s)
  /\ activeStreams' = activeStreams + 1
  /\ UNCHANGED <<feederVars, html, reader, chunk, sent, cause, clientVars>>
UnknownPath(s) ==
  /\ Accepting /\ Idle(s)
  /\ UNCHANGED streamVars

-----------------------------------------------------------------------------
(* The goroutine of StreamFile. *)

(* The bytes of piece p that belong to the file.  Faulty variant: the front  *)
(* is cut off first, which shifts where the end is.                        *)
PartFrontFirst(i, p) ==
  LET front == IF p = i.FromPiece THEN i.FromPieceOffset ELSE 0
  IN SubSeq(Data(p), front + 1,
            IF p = i.ToPiece THEN Smaller(front + i.ToPieceOffset, PieceSize) ELSE PieceSize)
Part(i, p) ==
  SubSeq(Data(p),
         IF p = i.FromPiece THEN i.FromPieceOffset + 1 ELSE 1,
         IF p = i.ToPiece THEN i.ToPieceOffset ELSE PieceSize)

Ends(s, how) ==
  /\ feeder' = [feeder EXCEPT ![s] = "ended"]
  /\ pipe' = [pipe EXCEPT ![s] = how]

(* The next round of the loop, or its end and the deferred pw.Close.       *)
NextPiece(s) ==
  IF piece[s] < info[s].ToPiece
  THEN /\ feeder' = [feeder EXCEPT ![s] = "check"]
       /\ piece' = [piece EXCEPT ![s] = @ + 1]
       /\ UNCHANGED pipe
  ELSE Ends(s, "eof") /\ UNCHANGED piece

CheckContext(s) ==
  /\ feeder[s] = "check"
  /\ IF Done THEN Ends(s, "error")
     ELSE feeder' = [feeder EXCEPT ![s] = "fetch"] /\ UNCHANGED pipe
  /\ UNCHANGED <<info, piece, rest, readerVars, clientVars>>

(* fetch.Get returns the piece; the part is written unless it is empty.    *)
PieceArrives(s) ==
  /\ feeder[s] = "fetch" /\ Online
  /\ LET part == Part(info[s], piece[s]) IN
       IF part = <<>> THEN NextPiece(s) /\ UNCHANGED rest
       ELSE /\ feeder' = [feeder EXCEPT ![s] = "write"]
            /\ rest' = [rest EXCEPT ![s] = part]
            /\ UNCHANGED <<piece, pipe>>
  /\ UNCHANGED <<info, readerVars, clientVars>>

(* It returns an error: a piece is lost, the torrent has been stopped, the *)
(* context is done.  Faulty variant: the error is not passed to the pipe,  *)
(* which the deferred Close then ends like a complete file.                *)
FetchFailsSilently(s) ==
  /\ feeder[s] = "fetch"
  /\ Ends(s, "eof")
  /\ UNCHANGED <<info, piece, rest, readerVars, clientVars>>
FetchFails(s) ==
  /\ feeder[s] = "fetch"
  /\ Ends(s, "error")
  /\ UNCHANGED <<info, piece, rest, readerVars, clientVars>>
(* Faulty variant: Get is called without the request's context.            *)
FetchCancelledNever(s) == FALSE
FetchCancelled(s) == Done /\ FetchFails(s)

(* Write returns when all of the part has been taken, *)
WriteReturns(s) ==
  /\ feeder[s] = "write" /\ rest[s] = <<>>
  /\ NextPiece(s)
  /\ UNCHANGED <<info, rest, readerVars, clientVars>>

(* or with an error when the reading end is closed.  Faulty variant: the   *)
(* error is ignored and the loop goes on.                                  *)
WriteFailsIgnored(s) ==
  /\ feeder[s] = "write" /\ rest[s] # <<>> /\ reader[s] = "ended"
  /\ feeder' = [feeder EXCEPT ![s] = "check"]
  /\ UNCHANGED <<info, piece, rest, pipe, readerVars, clientVars>>
WriteFails(s) ==
  /\ feeder[s] = "write" /\ rest[s] # <<>> /\ reader[s] = "ended"
  /\ Ends(s, "error")
  /\ UNCHANGED <<info, piece, rest, readerVars, clientVars>>

-----------------------------------------------------------------------------
(* The consumers. *)

(* meteredStream.Close, which also closes the reading end of the pipe.     *)
CloseReader(s) ==
  /\ reader' = [reader EXCEPT ![s] = "ended"]
  /\ activeStreams' = activeStreams - 1

(* The writer of streamWithDeadline returns: what is buffered is flushed   *)
(* and the reader closed (deferred).                                       *)
Leave(s, why) ==
  /\ reader' = [reader EXCEPT ![s] = "flush"]
  /\ cause' = [cause EXCEPT ![s] = why]

(* Faulty variant: no look at the deadline.                                *)
LoopTopTimeless(s) ==
  /\ reader[s] = "loop"
  /\ reader' = [reader EXCEPT ![s] = "read"]
  /\ UNCHANGED <<feederVars, html, chunk, sent, cause, activeStreams, clientVars>>
LoopTop(s) ==
  /\ reader[s] = "loop"
  /\ IF late[s] THEN Leave(s, "deadline")
     ELSE reader' = [reader EXCEPT ![s] = "read"] /\ UNCHANGED cause
  /\ UNCHANGED <<feederVars, html, chunk, sent, activeStreams, clientVars>>

Take(s, n) ==
  /\ reader[s] = "read" /\ feeder[s] = "write" /\ rest[s] # <<>>
  /\ rest' = [rest EXCEPT ![s] = SubSeq(@, n + 1, Len(@))]

(* Read returns bytes: no more than the buffer holds, nor than is left of  *)
(* the present Write.                                                      *)
ReadData(s) ==
  LET n == Smaller(ReadSize, Len(rest[s])) IN
  /\ ~html[s] /\ Take(s, n)
  /\ chunk' = [chunk EXCEPT ![s] = SubSeq(rest[s], 1, n)]
  /\ reader' = [reader EXCEPT ![s] = "send"]
  /\ overdue' = [overdue EXCEPT ![s] = IF late[s] THEN @ + 1 ELSE @]
  /\ UNCHANGED <<info, feeder, piece, pipe, html, sent, cause, activeStreams, late, gone>>

(* Read returns io.EOF or the error of the writing end.  Faulty variant:   *)
(* an error other than io.EOF is tried again.                              *)
ReadEndsRetrying(s) ==
  /\ ~html[s] /\ reader[s] = "read" /\ pipe[s] # "open"
  /\ IF pipe[s] = "eof" THEN Leave(s, "eof")
     ELSE reader' = [reader EXCEPT ![s] = "loop"] /\ UNCHANGED cause
  /\ UNCHANGED <<feederVars, html, chunk, sent, activeStreams, clientVars>>
ReadEnds(s) ==
  /\ ~html[s] /\ reader[s] = "read" /\ pipe[s] # "open"
  /\ Leave(s, pipe[s])
  /\ UNCHANGED <<feederVars, html, chunk, sent, activeStreams, clientVars>>

SendChunk(s) ==
  /\ reader[s] = "send"
  /\ sent' = [sent EXCEPT ![s] = @ \o chunk[s]]
  /\ chunk' = [chunk EXCEPT ![s] = <<>>]
  /\ reader' = [reader EXCEPT ![s] = "loop"]
  /\ UNCHANGED <<feederVars, html, cause, activeStreams, clientVars>>

SendFails(s) ==
  /\ reader[s] = "send" /\ gone[s]
  /\ Leave(s, "gone")
  /\ chunk' = [chunk EXCEPT ![s] = <<>>]
  /\ UNCHANGED <<feederVars, html, sent, activeStreams, clientVars>>

Flush(s) ==
  /\ reader[s] = "flush"
  /\ CloseReader(s)
  /\ UNCHANGED <<feederVars, html, chunk, sent, cause, clientVars>>

(* serveHTMLFile: one Read, into a buffer of the file's size, and Close.   *)
(* The page has zero bytes where the Read brought nothing; sent is what it *)
(* brought.  Faulty variant: the Read is into a buffer of a fixed size.    *)
ReadPageFixed(s) ==
  LET n == Smaller(ReadSize, Len(rest[s])) IN
  /\ html[s] /\ Take(s, n)
  /\ CloseReader(s)
  /\ sent' = [sent EXCEPT ![s] = SubSeq(rest[s], 1, n)]
  /\ cause' = [cause EXCEPT ![s] = "page"]
  /\ UNCHANGED <<info, feeder, piece, pipe, html, chunk, clientVars>>
ReadPage(s) ==
  LET n == Smaller(Len(Bytes(info[s].range)), Len(rest[s])) IN
  /\ html[s] /\ Take(s, n)
  /\ CloseReader(s)
  /\ sent' = [sent EXCEPT ![s] = SubSeq(rest[s], 1, n)]
  /\ cause' = [cause EXCEPT ![s] = "page"]
  /\ UNCHANGED <<info, feeder, piece, pipe, html, chunk, clientVars>>

ReadPageFails(s) ==
  /\ html[s] /\ reader[s] = "read" /\ pipe[s] # "open"
  /\ CloseReader(s)
  /\ cause' = [cause EXCEPT ![s] = pipe[s]]
  /\ UNCHANGED <<feederVars, html, chunk, sent, clientVars>>

(* Time and the client. *)
DeadlinePasses(s) ==
  /\ Consuming(s) /\ ~html[s] /\ ~late[s]
  /\ late' = [late EXCEPT ![s] = TRUE]
  /\ UNCHANGED <<feederVars, readerVars, gone, overdue>>

ClientLeaves(s) ==
  /\ Consuming(s) /\ ~html[s] /\ ~gone[s]
  /\ gone' = [gone EXCEPT ![s] = TRUE]
  /\ UNCHANGED <<feederVars, readerVars, late, overdue>>

-----------------------------------------------------------------------------
Feed(s) == CheckContext(s) \/ PieceArrives(s) \/ FetchFails(s) \/ WriteReturns(s) \/ WriteFails(s)
Consume(s) ==
  \/ LoopTop(s) \/ ReadData(s) \/ ReadEnds(s) \/ SendChunk(s) \/ SendFails(s) \/ Flush(s)
  \/ ReadPage(s) \/ ReadPageFails(s)

Stream(s) ==
  \/ UnknownPath(s) \/ Feed(s) \/ Consume(s) \/ DeadlinePasses(s) \/ ClientLeaves(s)
  \/ \E i \in Infos, h \in BOOLEAN : OpenStream(s, i, h)

(* Shutdown waits for every connection, for five seconds at most. *)
Drained == EndDrain /\ \A s \in Streams : ~Consuming(s)
DrainTimesOut == EndDrain /\ \E s \in Streams : Consuming(s)

(* The process ends, and its goroutines with it. *)
ProcessEnds ==
  /\ Exit
  /\ feeder' = [s \in Streams |-> "none"]
  /\ reader' = [s \in Streams |-> "none"]
  /\ chunk' = [s \in Streams |-> <<>>]
  /\ activeStreams' = 0
  /\ UNCHANGED <<info, piece, rest, pipe, html, sent, cause, clientVars>>

Run ==
  \/ /\ Starting \/ Signal \/ CloseNext \/ BeginDrain \/ Drained \/ DrainTimesOut \/ Restart
     /\ UNCHANGED streamVars
  \/ ProcessEnds

Next == Run \/ (\E s \in Streams : Stream(s) /\ UNCHANGED lifeVars)

Spec == Init /\ [][Next]_vars

(* Goroutines run; a call that has been told to stop returns; a write to a *)
(* broken connection returns.  No fairness for the network, for clients    *)
(* that stay and do not read, for the timeout of the drain.                *)
SendReturns(s) == gone[s] /\ (SendChunk(s) \/ SendFails(s) \/ Flush(s))
FairStream(s) ==
  \/ CheckContext(s) \/ FetchCancelled(s) \/ WriteReturns(s) \/ WriteFails(s)
FairReader(s) ==
  \/ LoopTop(s) \/ ReadData(s) \/ ReadEnds(s) \/ SendReturns(s)
  \/ ReadPage(s) \/ ReadPageFails(s)

FairSpec ==
  /\ Spec
  /\ \A s \in Streams :
       /\ WF_vars(FairStream(s) /\ UNCHANGED lifeVars)
       /\ WF_vars(FairReader(s) /\ UNCHANGED lifeVars)
  /\ WF_vars((CloseNext \/ BeginDrain \/ Drained) /\ UNCHANGED streamVars)
  /\ WF_vars(ProcessEnds)

-----------------------------------------------------------------------------
(* The inductive invariant. *)

Got(s) == sent[s] \o chunk[s]
Reading(s) == reader[s] \in {"loop", "read", "send"}

(* Where piece p's share of the file begins and ends, in the bag. *)
From(i, p) == IF p = i.FromPiece THEN i.range.from ELSE p * PieceSize
To(i, p) == IF p = i.ToPiece THEN i.range.to ELSE (p + 1) * PieceSize

(* What has been read, and what is left of the present Write, are next to  *)
(* each other and end where the piece ends; before the piece is fetched,   *)
(* where it begins; at the end of the pipe, where the file ends.           *)
InStep(s) ==
  LET i == info[s]  IN
  /\ feeder[s] \in {"check", "fetch"} /\ Reading(s) =>
       Got(s) = Between(i.range.from, From(i, piece[s]))
  /\ feeder[s] = "write" =>
       \E x \in From(i, piece[s])..To(i, piece[s]) :
         /\ rest[s] = Between(x, To(i, piece[s]))
         /\ Reading(s) => Got(s) = Between(i.range.from, x)
  /\ pipe[s] = "eof" /\ Reading(s) => Got(s) = Bytes(i.range)

(* A page that is still to be read has lost nothing. *)
PageWaits(s) ==
  LET i == info[s] IN
  html[s] /\ reader[s] = "read" =>
    /\ sent[s] = <<>>
    /\ feeder[s] # "ended" => \A q \in i.FromPiece..(piece[s] - 1) : Part(i, q) = <<>>
    /\ feeder[s] = "write" => rest[s] = Part(i, piece[s])

StreamSound(s) ==
  /\ feeder[s] \in {"check", "fetch", "write"} =>
       /\ pipe[s] = "open" /\ info[s] \in Infos
       /\ piece[s] \in info[s].FromPiece..info[s].ToPiece
  /\ pipe[s] = "open" /\ Consuming(s) => feeder[s] \in {"check", "fetch", "write"}
  /\ chunk[s] # <<>> => reader[s] = "send"
  /\ html[s] => reader[s] \in {"none", "read", "ended"} /\ chunk[s] = <<>>
  /\ \E x \in info[s].range.from..info[s].range.to : Got(s) = Between(info[s].range.from, x)
  /\ (~late[s] \/ reader[s] = "read") /\ Consuming(s) => overdue[s] = 0
  /\ Reading(s) => cause[s] = "none"
  /\ InStep(s) /\ PageWaits(s)

StreamInv == TypeOK /\ LifeSound /\ \A s \in Streams : StreamSound(s)

-----------------------------------------------------------------------------
(* What a client has, with what the consumer holds, is a beginning of the  *)
(* file, whatever the pieces, the buffer and the offsets are (StreamFile,  *)
(* streamWithDeadline).                                                    *)
BytesInOrder ==
  \A s \in Streams : LET got == sent[s] \o chunk[s]
                         all == Bytes(info[s].range)
    IN Len(got) <= Len(all) /\ got = SubSeq(all, 1, Len(got))

(* A pipe that ends without an error has carried the whole file: no error  *)
(* of a piece looks like its end (the two deferred calls of StreamFile).   *)
EofIsWhole ==
  \A s \in Streams : cause[s] = "eof" => sent[s] = Bytes(info[s].range)

(* An HTML page holds what the first non-empty part of the file holds, no  *)
(* more (the one Read of serveHTMLFile).                                   *)
PageIsOnePart ==
  \A s \in Streams : cause[s] = "page" =>
    \E p \in info[s].FromPiece..info[s].ToPiece :
      /\ sent[s] = Part(info[s], p)
      /\ \A q \in info[s].FromPiece..(p - 1) : Part(info[s], q) = <<>>

(* The deadline is looked at between reads: after it one read, which has   *)
(* begun before, may still bring bytes, and no other (streamWithDeadline). *)
OneLateRead == \A s \in Streams : overdue[s] <= 1

(* The gauge counts the streams that are open (StreamFile, meteredStream). *)
GaugeCounts == activeStreams = Cardinality({s \in Streams : Consuming(s)})

(* What the two sides of a stream have before them: three steps at most    *)
(* for a piece, three for each byte, and the end.                          *)
FeederWork(s) ==
  LET pieces == 3 * (info[s].ToPiece - piece[s])
  IN CASE feeder[s] = "check" -> pieces + 3
       [] feeder[s] = "fetch" -> pieces + 2
       [] feeder[s] = "write" -> pieces + 1
       [] OTHER -> 0
ReaderWork(s) ==
  LET bytes == 3 * (Len(Bytes(info[s].range)) - Len(Got(s)))
  IN CASE reader[s] = "send" -> bytes + 4
       [] reader[s] = "loop" -> bytes + 3
       [] reader[s] = "read" -> bytes + 2
       [] reader[s] = "flush" -> 1
       [] OTHER -> 0
Work(s) == FeederWork(s) + ReaderWork(s)

(* A stream gets nearer to its end with every step of its own, and is      *)
(* never set back: no error, timeout, empty part or short read makes       *)
(* either side go over the same piece or the same bytes again (the loops   *)
(* of StreamFile and streamWithDeadline).                                  *)
WindsDown ==
  [][\A s \in Streams : ~Idle(s) =>
       /\ Work(s)' \in Nat
       /\ \/ Work(s)' < Work(s)
          \/ UNCHANGED <<feeder[s], piece[s], rest[s], reader[s], chunk[s], sent[s]>>]_vars

(* A feeder whose reader is gone ends, or waits for a piece for ever; a    *)
(* shutdown ends that wait too (pw.Write, fetch.Get, meteredStream.Close). *)
FeederEnds ==
  \A s \in Streams :
    /\ (reader[s] = "ended") ~> (feeder[s] \in {"none", "ended"} \/ [](feeder[s] = "fetch"))
    /\ (reader[s] = "ended" /\ stage = "draining") ~> (feeder[s] \in {"none", "ended"})

(* A consumer ends, unless it waits for a piece or for its client for ever *)
(* (streamWithDeadline, serveHTMLFile).                                    *)
ReaderEnds ==
  \A s \in Streams :
    Consuming(s) ~> \/ ~Consuming(s)
                    \/ [](reader[s] = "read" /\ feeder[s] = "fetch")
                    \/ [](reader[s] \in {"send", "flush"} /\ ~gone[s])

(* Shutdown comes to its end without the timeout, although the remote      *)
(* client was closed before, unless a client neither reads nor leaves      *)
(* (run, Close, the context of StreamFile).                                *)
DrainEnds ==
  (stage = "closing") ~>
    (stage = "exited" \/ \E s \in Streams : [](reader[s] \in {"send", "flush"} /\ ~gone[s]))
=============================================================================
