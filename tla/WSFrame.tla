-------------------------------- MODULE WSFrame --------------------------------
(***************************************************************************)
(* The framing of WebSocket messages in internal/sandbox/websocket.go:     *)
(* writeFrame builds the header of a masked client frame, readFrame parses *)
(* the header of a server frame.  And the framing of the DevTools server   *)
(* of internal/debug/websocket.go, which is the server's end.  Frames are  *)
(* bytes on a stream, so whoever reads a header must find the opcode and   *)
(* the payload length that were written and must consume exactly the bytes *)
(* of the header.                                                          *)
(*                                                                         *)
(* A header is a sequence of bytes; payloads and mask keys are abstracted  *)
(* to their lengths.  RFC 6455 gives the encoding that the other ends use; *)
(* they read as readFrame does, which follows the RFC and accepts masked   *)
(* frames.                                                                 *)
(***************************************************************************)
EXTENDS Naturals, Sequences

CONSTANTS
  Lengths,    \* payload lengths
  Opcodes     \* text, binary, close, ping, pong

\* "For the lengths at hand" below: they fit into 32 bits (TLC has no 2^32 to compare with);
\* see OverlongHeader for those that do not.  An opcode has four.
ASSUME FrameConstants ==
  /\ \A n \in Lengths : n \in Nat /\ n \div 256 < 256 ^ 3
  /\ \A op \in Opcodes : op \in Nat /\ op < 16

VARIABLES
  sender,     \* who wrote the frame on the wire
  opcode,     \* its opcode
  length,     \* its payload length
  header,     \* its header, as written
  read        \* what the reader made of the header

frameVars == <<sender, opcode, length, header, read>>

Byte == 0..255
Nothing == <<>>

\* x | 0x80, for a byte x.
SetHighBit(x) == 128 + (x % 128)

\* The n bytes of x in network order (binary.BigEndian.PutUint16 and PutUint64).
BigEndian(x, n) == [i \in 1..n |-> (x \div (256 ^ (n - i))) % 256]

\* For the lengths at hand the upper bytes of a 64-bit length are zero.
BigEndian64(x) == <<0, 0, 0, 0>> \o BigEndian(x, 4)

MaskKey == <<0, 0, 0, 0>>

\* The second byte of the header and the rest of the length, as writeFrame does it:
\* the first of lenBytes is or-ed with the mask bit, the others are appended.
ClientHeader(op, n) ==
  LET lenBytes == IF n < 126 THEN <<n>>
                  ELSE IF n < 65536 THEN BigEndian(n, 2)
                  ELSE BigEndian64(n)
  IN <<SetHighBit(op), SetHighBit(lenBytes[1])>> \o Tail(lenBytes) \o MaskKey

\* RFC 6455, section 5.2, unmasked: 126 and 127 announce an extended length.
ServerHeader(op, n) ==
  <<SetHighBit(op)>> \o
    (IF n < 126 THEN <<n>>
     ELSE IF n < 65536 THEN <<126>> \o BigEndian(n, 2)
     ELSE <<127>> \o BigEndian64(n))

\* The frames of a DevTools client are like a server's, and masked.
DevToolsHeader(op, n) ==
  [ServerHeader(op, n) EXCEPT ![2] = SetHighBit(@)] \o MaskKey

\* A peer that announces 2^56 bytes or more: the upper byte of the 64-bit length is not 0.
OverlongHeader(op, top, maskBit) ==
  <<SetHighBit(op), maskBit + 127, top, 0, 0, 0, 0, 0, 0, 0>>
    \o (IF maskBit = 128 THEN MaskKey ELSE <<>>)

\* CDPClient.writeFrame: every frame is a final one, and its opcode the one of binary frames.
CdpHeader(n) == ServerHeader(2, n)

FromBytes(h, first, n) ==
  LET weight(i) == h[first + i - 1] * (256 ^ (n - i))
  IN IF n = 2 THEN weight(1) + weight(2)
     ELSE weight(n - 3) + weight(n - 2) + weight(n - 1) + weight(n)

Masked(h) == h[2] >= 128

\* Mutant: the 64-bit length is taken for a 16-bit one.
ExtendedBytesShort(h) ==
  LET payloadLen == h[2] % 128 IN IF payloadLen >= 126 THEN 2 ELSE 0

\* How many bytes of extended length readFrame reads.
ExtendedBytes(h) ==
  LET payloadLen == h[2] % 128
  IN CASE payloadLen = 126 -> 2 [] payloadLen = 127 -> 8 [] OTHER -> 0

Consumed(h) == 2 + ExtendedBytes(h) + (IF Masked(h) THEN 4 ELSE 0)

\* readFrame on the bytes of header h: opcode, payload length, bytes consumed.  A
\* header that is too short makes it take payload bytes for the header.  A length of 2^56 or
\* more, or a negative one (the upper bit is the sign of the int it becomes), makes
\* make([]byte, ...) panic.
ReadFrame(h) ==
  LET ext == ExtendedBytes(h)
  IN IF Len(h) < 2 + ext THEN <<"misread">>
     ELSE IF ext = 8 /\ h[3] > 0 THEN <<"panic">>
     ELSE <<h[1] % 16,
            IF ext = 0 THEN h[2] % 128 ELSE FromBytes(h, 3, ext),
            Consumed(h)>>

maxFrameSize == 2^24

\* CDPClient.readFrame: the payload alone, whatever its opcode, unless the frame is too
\* large or a close.  A negative length is not too large.
CdpReadFrame(h) ==
  LET r == ReadFrame(h)
  IN CASE r = <<"misread">> -> r
       [] r = <<"panic">> -> IF h[3] < 128 THEN <<"too large">> ELSE r
       [] Len(r) = 3 /\ r[2] > maxFrameSize -> <<"too large">>
       [] Len(r) = 3 /\ r[2] <= maxFrameSize /\ r[1] = 8 -> <<"closed">>
       [] OTHER -> <<r[2], r[3]>>

-----------------------------------------------------------------------------
\* Around the sign.
UpperBytes == {1, 127, 128, 255}

FrameInit ==
  /\ sender = "none"
  /\ opcode = 0 /\ length = 0
  /\ header = Nothing /\ read = Nothing

Put(who, op, n, h) ==
  /\ header = Nothing
  /\ sender' = who
  /\ opcode' = op
  /\ length' = n
  /\ header' = h
  /\ UNCHANGED read

\* A frame of the sandbox.  That none is written to a closed connection is the
\* business of module WebSocket.
WriteFrame(op, n) == Put("client", op, n, ClientHeader(op, n))

ServerWrites(op, n) == Put("server", op, n, ServerHeader(op, n))

DevToolsWrites(op, n) == Put("devtools", op, n, DevToolsHeader(op, n))

\* A DevTools answer; "length" is that of its text.
CdpWrites(n) == Put("debug server", 1, n, CdpHeader(n))

\* Either peer announces more than it can mean; "length" is the upper byte it puts there.
ServerOverdoes(op, top) == Put("overlong server", op, top, OverlongHeader(op, top, 0))
DevToolsOverdoes(op, top) == Put("overlong devtools", op, top, OverlongHeader(op, top, 128))

ReadBy(who, h) ==
  IF who \in {"devtools", "overlong devtools"} THEN CdpReadFrame(h) ELSE ReadFrame(h)

Read ==
  /\ header # Nothing /\ read = Nothing
  /\ read' = ReadBy(sender, header)
  /\ UNCHANGED <<sender, opcode, length, header>>

\* The frame was handled; the next one may be written.
NextFrame ==
  /\ read # Nothing
  /\ header' = Nothing /\ read' = Nothing
  /\ sender' = "none" /\ opcode' = 0 /\ length' = 0

FrameNext ==
  \/ \E op \in Opcodes, n \in Lengths :
       WriteFrame(op, n) \/ ServerWrites(op, n) \/ DevToolsWrites(op, n)
  \/ \E n \in Lengths : CdpWrites(n)
  \/ \E op \in Opcodes, top \in UpperBytes : ServerOverdoes(op, top) \/ DevToolsOverdoes(op, top)
  \/ Read
  \/ NextFrame

FrameSpec == FrameInit /\ [][FrameNext]_frameVars

-----------------------------------------------------------------------------
Intact == read # Nothing => read = <<opcode, length, Len(header)>>

\* At the boundaries of all three encodings of the length: readFrame recovers every frame
\* a server sends; what the sandbox sends in one length byte can be read back; a DevTools
\* client finds the payload of every answer; and the DevTools server is given every payload
\* of up to 16 MiB and takes nothing but a close for a close.  A length that no memory has
\* room for stops the sandbox's reader by a panic; the DevTools server refuses it unless it
\* has the sign bit, when it panics as well.
FramesReadable ==
  /\ sender = "server" => Intact
  /\ (sender = "client" /\ length < 126) => Intact
  /\ (sender = "debug server" /\ read # Nothing) => read[2] = length /\ read[3] = Len(header)
  /\ (sender = "devtools" /\ read # Nothing) =>
       CASE length > maxFrameSize -> read = <<"too large">>
         [] length <= maxFrameSize /\ opcode = 8 -> read = <<"closed">>
         [] OTHER -> read = <<length, Len(header)>>
  /\ (sender = "overlong server" /\ read # Nothing) => read = <<"panic">>
  /\ (sender = "overlong devtools" /\ read # Nothing) =>
       read = IF length < 128 THEN <<"too large">> ELSE <<"panic">>

\* writeFrame "writes a single WebSocket frame" of the protocol of RFC 6455: the
\* reader finds the frame that was sent, whatever its length.
ClientFramesReadable == sender = "client" => Intact

\* CDPClient.writeFrame "writes one WebSocket text frame".
CdpFramesAreText == (sender = "debug server" /\ read # Nothing) => read[1] = opcode

\* maxFrameSize is there so that no length a client announces is allocated beyond it.
OverlongIsRefused == (sender = "overlong devtools" /\ read # Nothing) => read = <<"too large">>
=============================================================================
