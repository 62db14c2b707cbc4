---------------------------- MODULE FileTransfer ----------------------------
(***************************************************************************)
(* The transfer of waveforms and s-expressions from server to client,      *)
(* speech_tools/utils/filetrans.cc: the file's bytes, with an X stuffed    *)
(* into an occurrence of the key, then the key as the end of the file.     *)
(* The sender is the server; the receiver is festival_client's loop that   *)
(* reads "WV" and then the file.                                           *)
(*                                                                         *)
(* A byte is a model value; the key of the code is "ft_StUfF_key".         *)
(***************************************************************************)
EXTENDS Naturals, Sequences, SequencesExt, FiniteSets

CONSTANTS
    Bytes,          \* the bytes of a file
    Key,            \* file_stuff_key
    X,              \* the byte that is stuffed
    EofByte,        \* what putc(EOF) writes
    Marker,         \* "WV\n", which announces a file
    Transfers,      \* the sequences of files a server may send
    MaxInFlight,    \* bound: bytes the connection holds
    MaxPad          \* bound: bytes read after the end of the connection

KeyLen == Len(Key)

\* The last byte of the key is in no other place of it, and it is stuffed
\* with a byte that is not in the key: so it is with "ft_StUfF_key" and X.
ASSUME KeyAssumption ==
    /\ Key \in Seq(Bytes) /\ KeyLen >= 2
    /\ X \in Bytes /\ EofByte \notin Bytes /\ Marker \notin Bytes
    /\ \A i \in 1..KeyLen : Key[i] # X /\ (Key[i] = Key[KeyLen] => i = KeyLen)
    /\ Transfers \subseteq Seq(Seq(Bytes))

VARIABLES
    files,      \* the files this server sends
    turn,       \* the file it is sending
    smode,      \* the sender is to "announce" the file, or to "send" it
    infd,       \* the bytes of that file still to read
    sk,         \* the sender's k
    chan,       \* the bytes in the connection
    alive,      \* FALSE once the server process is gone
    mode,       \* the receiver reads an "ack" or a "file"
    rk,         \* the receiver's k
    outfd,      \* the bytes written to the file it receives
    received    \* the files it closed

vars == <<files, turn, smode, infd, sk, chan, alive, mode, rk, outfd, received>>
sender == <<files, turn, smode, infd, sk, alive>>
receiver == <<mode, rk, outfd, received>>

Init ==
    /\ files \in Transfers
    /\ turn = 1 /\ smode = "announce" /\ infd = <<>> /\ sk = 0
    /\ chan = <<>> /\ alive = TRUE
    /\ mode = "ack" /\ rk = 0 /\ outfd = <<>> /\ received = <<>>

-----------------------------------------------------------------------------
(***************************************************************************)
(* socket_send_file: the scan for the key begins anew after a mismatch,    *)
(* without a second look at the byte that did not match.                   *)
(***************************************************************************)
\* write(siod_server_socket,"LP\n",3), and the file is opened with k = 0.
SendMarker ==
    /\ alive /\ smode = "announce" /\ turn <= Len(files)
    /\ Len(chan) < MaxInFlight
    /\ chan' = Append(chan, Marker)
    /\ smode' = "send" /\ infd' = files[turn] /\ sk' = 0
    /\ UNCHANGED <<files, turn, alive>> /\ UNCHANGED receiver

Restart(k) == IF k = KeyLen THEN 0 ELSE k

Matched(k, c) == IF Key[k + 1] = c THEN k + 1 ELSE 0

Stuffed(k, c) == IF k = KeyLen THEN <<X, c>> ELSE <<c>>

SendByte ==
    /\ alive /\ infd # <<>> /\ Len(chan) < MaxInFlight
    /\ LET c == Head(infd)
           k == Matched(sk, c)
       IN  /\ chan' = chan \o Stuffed(k, c)
           /\ sk' = Restart(k)
    /\ infd' = Tail(infd)
    /\ UNCHANGED <<files, turn, smode, alive>> /\ UNCHANGED receiver

\* Mutant: the loop that writes the key stops one byte early.
SendKeyShort ==
    /\ alive /\ smode = "send" /\ infd = <<>> /\ Len(chan) < MaxInFlight
    /\ chan' = chan \o Front(Key)
    /\ turn' = turn + 1 /\ smode' = "announce"
    /\ UNCHANGED <<files, infd, sk, alive>> /\ UNCHANGED receiver

\* The end of the file: the whole key.
SendKey ==
    /\ alive /\ smode = "send" /\ infd = <<>> /\ Len(chan) < MaxInFlight
    /\ chan' = chan \o Key
    /\ turn' = turn + 1 /\ smode' = "announce"
    /\ UNCHANGED <<files, infd, sk, alive>> /\ UNCHANGED receiver

\* The server process is gone; what it wrote can still be read.
ServerDies ==
    /\ alive /\ alive' = FALSE
    /\ UNCHANGED <<files, turn, smode, infd, sk, chan>> /\ UNCHANGED receiver

-----------------------------------------------------------------------------
(***************************************************************************)
(* copy_to_server waits for "WV", then socket_receive_file.                *)
(***************************************************************************)
ReceiveAck ==
    /\ mode = "ack" /\ chan # <<>>
    /\ chan' = Tail(chan)
    /\ IF Head(chan) = Marker
       THEN mode' = "file" /\ rk' = 0 /\ outfd' = <<>>
       ELSE UNCHANGED <<mode, rk, outfd>>
    /\ UNCHANGED received /\ UNCHANGED sender

\* file_stuff_key[k] == c, and fclose when the key is complete.
ReceiveKeyByte ==
    /\ mode = "file" /\ chan # <<>> /\ Head(chan) = Key[rk + 1]
    /\ chan' = Tail(chan)
    /\ IF rk + 1 = KeyLen
       THEN /\ received' = Append(received, outfd)
            /\ mode' = "ack" /\ rk' = 0 /\ outfd' = <<>>
       ELSE rk' = rk + 1 /\ UNCHANGED <<mode, outfd, received>>
    /\ UNCHANGED sender

\* An X where the last byte of the key is due is the stuffed one.
DropFiller ==
    /\ mode = "file" /\ chan # <<>> /\ Head(chan) = X /\ rk + 1 = KeyLen
    /\ chan' = Tail(chan)
    /\ outfd' = outfd \o SubSeq(Key, 1, rk) /\ rk' = 0
    /\ UNCHANGED <<mode, received>> /\ UNCHANGED sender

\* Mutant: a byte that breaks a partial key is written without the part.
ReceiveOtherOnly ==
    /\ mode = "file" /\ chan # <<>>
    /\ Head(chan) # Key[rk + 1] /\ ~(Head(chan) = X /\ rk + 1 = KeyLen)
    /\ chan' = Tail(chan)
    /\ outfd' = Append(outfd, Head(chan)) /\ rk' = 0
    /\ UNCHANGED <<mode, received>> /\ UNCHANGED sender

\* Any other byte: the part of the key held back and the byte are written.
ReceiveOther ==
    /\ mode = "file" /\ chan # <<>>
    /\ Head(chan) # Key[rk + 1] /\ ~(Head(chan) = X /\ rk + 1 = KeyLen)
    /\ chan' = Tail(chan)
    /\ outfd' = outfd \o SubSeq(Key, 1, rk) \o <<Head(chan)>> /\ rk' = 0
    /\ UNCHANGED <<mode, received>> /\ UNCHANGED sender

\* Mutant: the end of the connection is the end of the file.
ReceiveEofEnds ==
    /\ mode = "file" /\ chan = <<>> /\ ~alive
    /\ received' = Append(received, outfd) /\ mode' = "ack"
    /\ outfd' = <<>> /\ rk' = 0
    /\ UNCHANGED chan /\ UNCHANGED sender

\* read() returns 0 at the end of the connection: EOF is a byte like others.
ReceiveEof ==
    /\ mode = "file" /\ chan = <<>> /\ ~alive
    /\ Cardinality({i \in DOMAIN outfd : outfd[i] = EofByte}) < MaxPad
    /\ outfd' = outfd \o SubSeq(Key, 1, rk) \o <<EofByte>> /\ rk' = 0
    /\ UNCHANGED <<chan, mode, received>> /\ UNCHANGED sender

Sender   == SendMarker \/ SendByte \/ SendKey
Receiver == ReceiveAck \/ ReceiveKeyByte \/ DropFiller \/ ReceiveOther \/ ReceiveEof

Next == Sender \/ Receiver \/ ServerDies

\* Both processes run.
Spec == Init /\ [][Next]_vars /\ WF_vars(Sender) /\ WF_vars(Receiver)

-----------------------------------------------------------------------------
(***************************************************************************)
(* Which files the stuffing can carry.  A file must not hold the key with  *)
(* an X for its last byte, which is what a stuffed key looks like, and it  *)
(* must not end in the beginning of the key: the receiver would take the   *)
(* file's end and the end mark together for data.                          *)
(***************************************************************************)
NoFiller(file) ==
    \A i \in 1..(Len(file) - KeyLen + 1) :
        SubSeq(file, i, i + KeyLen - 1) # Front(Key) \o <<X>>

CleanEnd(file) == \A n \in 1..(KeyLen - 1) : ~IsSuffix(SubSeq(Key, 1, n), file)

Clean(file) == NoFiller(file) /\ CleanEnd(file)

TypeOK ==
    /\ files \in Seq(Seq(Bytes)) /\ turn \in 1..(Len(files) + 1)
    /\ sk \in 0..(KeyLen - 1) /\ rk \in 0..(KeyLen - 1)
    /\ alive \in BOOLEAN /\ mode \in {"ack", "file"}
    /\ smode \in {"announce", "send"} /\ infd \in Seq(Bytes)
    /\ chan \in Seq(Bytes \cup {Marker})
    /\ outfd \in Seq(Bytes \cup {EofByte, Marker})
    /\ received \in Seq(Seq(Bytes \cup {EofByte, Marker}))

\* The receiver is never ahead of the sender and never behind the connection:
\* what it wrote, what it holds back and what is on its way, read as a stuffed
\* stream, are what the sender has read.  When the connection is empty, the
\* two scans for the key are at the same place.
ScansAgree ==
    mode = "file" /\ chan = <<>> /\ alive =>
        /\ rk = sk
        /\ outfd \o SubSeq(Key, 1, rk) \o infd = files[Len(received) + 1]

\* With clean files the connection is a file copy, in order, however the two
\* processes interleave; a file cut short by the death of the server is never
\* taken for a complete one.
Copies == INSTANCE FileCopy
FaithfulCopy == Copies!Init /\ [][Copies!Deliver]_<<files, received>>

\* ... and every file arrives unless the server dies.
\* filetrans.cc:112-114: "This guarantees the binary transfer without any other
\* signals eof etc".
EveryFileArrives == <>(Len(received) = Len(files) \/ ~alive)
=============================================================================
