--------------------------------- MODULE Xmodem ---------------------------------
(***************************************************************************)
(* The XMODEM receiver by which the kernel image gets onto the board over  *)
(* a serial line (xmodemReceive, drivers/xmodem.c, called by UARTBootCopy) *)
(* and the transmitter that the same file keeps beside it, for the program *)
(* at the other end.  The line loses and garbles bytes in both directions, *)
(* and both ends time out.                                                 *)
(*                                                                         *)
(* A frame is a whole packet; its data is its place in the file, so that   *)
(* number k carries block k.  A garbled packet fails its checks (the CRC   *)
(* is taken to detect it), or its start is lost and the receiver reads the *)
(* rest byte by byte, and takes for EOT or CAN what is a number or data.   *)
(* An answer is not garbled into another one.  The three CAN bytes of a    *)
(* side that gives up stay together.                                       *)
(*                                                                         *)
(* A definition named Mut... is a faulty variant of the one after it.      *)
(***************************************************************************)
EXTENDS Integers, Sequences

CONSTANTS Blocks,        \* packets of the file, the last one padded
          DestSize,      \* destsz, in blocks
          Word,          \* values of the unsigned char packetno
          MaxRetrans,    \* MAXRETRANS of the receiver
          DataTries,     \* MAXRETRANS of the transmitter at the other end
          SyncTries,     \* tries of the transmitter to begin
          EotTries,      \* tries of the transmitter to end
          Depth          \* frames or answers under way; more get lost

ASSUME XmodemAssumption ==
  /\ Blocks \in Nat \ {0} /\ DestSize \in Nat
  /\ Depth \in Nat \ {0} /\ Word \in Nat
  /\ {MaxRetrans, DataTries, SyncTries, EotTries} \subseteq Nat \ {0}

\* There are 256 packet numbers, and a serial line with its buffers does not hold
\* 128 packets of 133 bytes.
ASSUME NumbersAssumption == Word > 2 * Depth

VARIABLES
  line, answers,         \* bytes under way to the receiver, to the transmitter
  sender,                \* what xmodemTransmit is doing, or how it has returned
  block, tries,          \* the packet it sends; retry
  receiver,              \* the same of xmodemReceive
  packetno,              \* the number it expects
  trychar,               \* does it still ask for a first packet ('C', then 0)?
  retrans,               \* duplicates it will still take
  dest,                  \* the blocks it has stored
  astray                 \* history: has a timeout come before its time, or
                         \* the rest of a packet been taken for something else?

sending   == <<sender, block, tries>>
receiving == <<receiver, packetno, trychar, retrans, dest>>
vars == <<line, answers, sending, receiving, astray>>

EOT == [kind |-> "EOT", no |-> 0, block |-> 0]
CAN == [kind |-> "CAN", no |-> 0, block |-> 0]
Noise == [kind |-> "noise", no |-> 0, block |-> 0]
Packet(k) == [kind |-> "packet", no |-> k % Word, block |-> k]

Init ==
  /\ line = <<>> /\ answers = <<>>
  /\ sender = "sync" /\ block = 0 /\ tries = 1
  /\ receiver = "wait" /\ packetno = 1 /\ trychar = TRUE
  /\ retrans = MaxRetrans /\ dest = <<>>
  /\ astray = FALSE

Put(queue, x) == IF Len(queue) < Depth THEN Append(queue, x) ELSE queue

Sending == sender \in {"sync", "data", "eot"}
Receiving == receiver = "wait"

\* Nothing is under way that the other end will still read: a timeout that
\* comes now means that something was lost.
Quiet == (line = <<>> \/ ~ Receiving) /\ (answers = <<>> \/ ~ Sending)
TimesOut == astray' = (astray \/ ~ Quiet)

-------------------------------------------------------------------------------
(* xmodemTransmit.                                                         *)

Send(k) == line' = Put(line, Packet(k)) /\ block' = k
Leave(how) == sender' = how /\ UNCHANGED <<block, tries>>
GiveUp == line' = Put(line, CAN) /\ Leave("failed")

\* The next packet, or the end of the file.
SendNext ==
  /\ tries' = 1
  /\ IF block < Blocks THEN sender' = "data" /\ Send(block + 1)
     ELSE sender' = "eot" /\ line' = Put(line, EOT) /\ UNCHANGED block

\* The same again.
Resend ==
  /\ tries' = tries + 1
  /\ line' = Put(line, IF sender = "eot" THEN EOT ELSE Packet(block))
  /\ UNCHANGED <<sender, block>>

\* No answer, or none that is understood.
Again ==
  \/ sender = "sync" /\ tries < SyncTries /\ tries' = tries + 1
       /\ UNCHANGED <<sender, block, line>>
  \/ sender = "sync" /\ tries = SyncTries /\ GiveUp
  \/ sender = "data" /\ tries < DataTries /\ Resend
  \/ sender = "data" /\ tries = DataTries /\ GiveUp
  \/ sender = "eot" /\ tries < EotTries /\ Resend
  \/ sender = "eot" /\ tries = EotTries /\ Leave("failed") /\ UNCHANGED line

SenderTimeout ==
  /\ Sending /\ TimesOut
  /\ Again
  /\ UNCHANGED <<answers, receiving>>

Answered(a) ==
  /\ Sending /\ answers # <<>> /\ Head(answers) = a
  /\ answers' = Tail(answers)
  /\ UNCHANGED <<receiving, astray>>

Acknowledged ==
  /\ Answered("ACK")
  /\ \/ sender = "data" /\ SendNext
     \/ sender = "eot" /\ Leave("done") /\ UNCHANGED line

Refused == \E a \in {"NAK", "C"} :
             Answered(a) /\ IF sender = "sync" THEN SendNext ELSE Again
Cancelled ==
  /\ Answered("CAN")
  /\ IF sender = "eot" THEN Again ELSE Leave("failed") /\ UNCHANGED line
Garbled == Answered("noise") /\ Again

-------------------------------------------------------------------------------
(* xmodemReceive.                                                          *)

Answer(a) == answers' = Put(answers, a)
Return(how) == receiver' = how /\ UNCHANGED <<packetno, trychar, retrans, dest>>
Comes(kind) == Receiving /\ line # <<>> /\ Head(line).kind = kind
Received(kind) == Comes(kind) /\ UNCHANGED <<sending, astray>>

\* No first byte: ask again, as long as no packet has begun.  The loop does
\* not end: its bound is the overflow of retry.
ReceiverTimeout ==
  /\ Receiving /\ TimesOut /\ trychar
  /\ Answer("C")
  /\ UNCHANGED <<line, sending, receiving>>

\* The answer to a bad packet is the one to a good packet.
MutReject ==
  /\ line' = <<>> /\ trychar' = FALSE /\ Answer("ACK")
  /\ UNCHANGED <<receiver, packetno, retrans, dest>>
\* flushinput and NAK: what comes meanwhile is lost.
Reject ==
  /\ line' = <<>> /\ trychar' = FALSE /\ Answer("NAK")
  /\ UNCHANGED <<receiver, packetno, retrans, dest>>

\* Whatever is no duplicate is taken for new.
MutExpected(f) == f.no # packetno - 1
\* The packet expected; past destsz its data is dropped, but acknowledged.
Expected(f) == f.no = packetno
Store ==
  /\ Received("packet") /\ Expected(Head(line))
  /\ dest' = IF Len(dest) < DestSize THEN Append(dest, Head(line).block) ELSE dest
  /\ packetno' = (packetno + 1) % Word
  /\ retrans' = MaxRetrans /\ trychar' = FALSE
  /\ line' = Tail(line) /\ Answer("ACK")
  /\ UNCHANGED receiver

\* "(unsigned char)packetno-1" is an int: after the number has gone round to 0,
\* a duplicate of the packet before it is not recognised.
Duplicate(f) == f.no = packetno - 1

Repeated ==
  /\ Received("packet") /\ Duplicate(Head(line))
  /\ trychar' = FALSE /\ retrans' = retrans - 1
  /\ IF retrans' > 0
     THEN line' = Tail(line) /\ Answer("ACK") /\ UNCHANGED receiver
     ELSE line' = <<>> /\ Answer("CAN") /\ receiver' = "retries"
  /\ UNCHANGED <<packetno, dest>>

Unexpected ==
  /\ Received("packet") /\ ~ Expected(Head(line)) /\ ~ Duplicate(Head(line))
  /\ Reject

\* A packet that breaks off or fails a check, or a byte that begins none.
ReceiveNoise ==
  /\ Received("noise")
  /\ \/ Reject
     \/ /\ line' = Tail(line)
        /\ IF trychar THEN Answer("C") ELSE UNCHANGED answers
        /\ UNCHANGED receiving

\* The start of a packet is lost, and the switch gets the rest of it byte by byte:
\* 4, be it the packet's number or data, is EOT, and 24 twice is CAN.  Before the
\* first packet there is an answer to each other byte, of which more follow.
Misread ==
  /\ Comes("noise") /\ astray' = TRUE /\ UNCHANGED sending
  /\ \/ line' = Tail(line) /\ Answer("ACK") /\ Return("done")
     \/ line' = <<>> /\ Answer("ACK") /\ Return("cancelled")
     \/ trychar /\ Answer("C") /\ UNCHANGED <<line, receiving>>

ReceiveEot == Received("EOT") /\ line' = Tail(line) /\ Answer("ACK") /\ Return("done")
ReceiveCan == Received("CAN") /\ line' = <<>> /\ Answer("ACK") /\ Return("cancelled")

-------------------------------------------------------------------------------
(* The line.                                                               *)

LoseFrame == line # <<>> /\ line' = Tail(line) /\ UNCHANGED <<answers, sending, receiving, astray>>
LoseAnswer ==
  answers # <<>> /\ answers' = Tail(answers) /\ UNCHANGED <<line, sending, receiving, astray>>
GarbleFrame ==
  /\ line # <<>> /\ line' = [line EXCEPT ![1] = Noise]
  /\ UNCHANGED <<answers, sending, receiving, astray>>
GarbleAnswer ==
  /\ answers # <<>> /\ answers' = [answers EXCEPT ![1] = "noise"]
  /\ UNCHANGED <<line, sending, receiving, astray>>

Next ==
  \/ SenderTimeout \/ Acknowledged \/ Refused \/ Cancelled \/ Garbled
  \/ ReceiverTimeout \/ Store \/ Repeated \/ Unexpected \/ ReceiveNoise
  \/ Misread \/ ReceiveEot \/ ReceiveCan
  \/ LoseFrame \/ LoseAnswer \/ GarbleFrame \/ GarbleAnswer

Spec == Init /\ [][Next]_vars

-------------------------------------------------------------------------------
\* However often packets and acknowledgements are lost, repeated or come late,
\* the image is stored in order, each block once (the packet numbers of
\* xmodemReceive), although the numbers go round.  There must be more than
\* 2 * Depth of them for that.
StoredInOrder == \A k \in 1 .. Len(dest) : dest[k] = k

\* "normal end" (xmodemReceive): when the receiver returns a length, it has the
\* whole file, or as much as there is room for, and the transmitter reports
\* success only if the receiver does.  That is so as long as no timeout comes
\* early and the bytes of a packet that has lost its start are not read as others:
\* then an acknowledgement may be taken for another packet's, or data for the end.
WholeFile == Len(dest) = (IF Blocks < DestSize THEN Blocks ELSE DestSize)
CompleteAtEnd ==
  ~ astray => /\ receiver = "done" => WholeFile
              /\ sender = "done" => receiver = "done"
===============================================================================
