------------------------------- MODULE FrameCodec -------------------------------
(***************************************************************************)
(* The framing of internal/protocol/frame.go on a byte stream.  Peers      *)
(* write frames, with this package or with an encoder of their own that    *)
(* uses other magic bytes or sizes; the network may damage a byte or end   *)
(* the stream anywhere, and ReadFrame reads the frames back.               *)
(*                                                                         *)
(* The stream is a sequence of symbols: bytes, in base Byte, and one       *)
(* symbol for the four bytes of a CRC32C.  A checksum stands for exactly   *)
(* the data it was computed from: that damage changes a CRC is assumed.    *)
(* A length is two bytes, not four, the most significant first.            *)
(***************************************************************************)
EXTENDS Naturals, Sequences, Functions

CONSTANTS Byte,            \* the number of values of a byte
          DefaultMaxSize,  \* DefaultMaxMessageSize
          Limits,          \* values of the Config's MaxMessageSize
          Magics, Versions, Types, Payloads,  \* what peers put into frames
          MaxFrames,       \* bound: frames written
          MaxDamage        \* bound: bytes damaged

ASSUME CodecAssumption ==
    /\ Byte \in Nat /\ Byte > 9 /\ DefaultMaxSize \in Nat /\ Limits \subseteq Nat
    /\ Versions \subseteq 0..(Byte - 1) /\ Types \subseteq 0..(Byte - 1)
    /\ Magics \subseteq (0..(Byte - 1)) \X (0..(Byte - 1))
    /\ Payloads \subseteq Seq(0..(Byte - 1)) /\ \A p \in Payloads : Len(p) < Byte * Byte
    \* payloadLen + CRCSize in ReadFrame does not overflow.
    /\ \A l \in Limits \cup {DefaultMaxSize} : l + 1 < Byte * Byte

VARIABLES
    limit,    \* MaxMessageSize of this server
    wire,     \* symbols written and not yet read
    header,   \* the header ReadFrame has read, or <<>>
    written,  \* ghost: the frames written
    read,     \* the frames ReadFrame returned
    err,      \* the error that ended reading, or none
    cut,      \* the stream has ended
    damaged   \* bytes damaged

vars == <<limit, wire, header, written, read, err, cut, damaged>>

MagicByte1 == 5
MagicByte2 == 7
MagicBytes == <<MagicByte1, MagicByte2>>
ProtocolVersion == 1
FrameHeaderSize == 6
CRCSize == 1
MinFrameSize == FrameHeaderSize + CRCSize

Frame(m, v, t, p) == [magic |-> m, version |-> v, type |-> t, payload |-> p]

\* Symbols: a byte, and hash/crc32's checksum of the symbols in data.
Sym(b) == [byte |-> b, of |-> <<>>]
Checksum(data) == [byte |-> Byte, of |-> data]

Bytes(ints) == [i \in DOMAIN ints |-> Sym(ints[i])]
Values(symbols) == [i \in DOMAIN symbols |-> symbols[i].byte]

------------------------------------------------------------------------------
(* Marshal and Unmarshal                                                   *)

\* binary.BigEndian
BigEndian(n) == <<n \div Byte, n % Byte>>
Uint(h) == h[5].byte * Byte + h[6].byte

\* The format: a header, the payload, and the checksum of both.
Encode(f) ==
    LET data == Bytes(f.magic \o <<f.version, f.type>>
                        \o BigEndian(Len(f.payload)) \o f.payload)
    IN  Append(data, Checksum(data))

\* Mutant of Unmarshal: the magic is wrong only if both of its bytes are.
UnmarshalBothWrong(data) ==
    LET size == Uint(data)
    IN  IF Len(data) < MinFrameSize THEN "incomplete"
        ELSE IF data[1].byte # MagicByte1 /\ data[2].byte # MagicByte2 THEN "magic"
        ELSE IF data[3].byte # ProtocolVersion THEN "version"
        ELSE IF size > DefaultMaxSize THEN "too large"
        ELSE IF Len(data) # MinFrameSize + size THEN "incomplete"
        ELSE IF data[Len(data)] # Checksum(SubSeq(data, 1, FrameHeaderSize + size))
             THEN "checksum"
        ELSE "none"

\* The error Unmarshal returns for data.
Unmarshal(data) ==
    LET size == Uint(data)
    IN  IF Len(data) < MinFrameSize THEN "incomplete"
        ELSE IF data[1].byte # MagicByte1 \/ data[2].byte # MagicByte2 THEN "magic"
        ELSE IF data[3].byte # ProtocolVersion THEN "version"
        ELSE IF size > DefaultMaxSize THEN "too large"
        ELSE IF Len(data) # MinFrameSize + size THEN "incomplete"
        ELSE IF data[Len(data)] # Checksum(SubSeq(data, 1, FrameHeaderSize + size))
             THEN "checksum"
        ELSE "none"

------------------------------------------------------------------------------

Init ==
    /\ limit \in Limits
    /\ wire = <<>> /\ header = <<>> /\ written = <<>> /\ read = <<>>
    /\ err = "none" /\ cut = FALSE /\ damaged = 0

Write(f) ==
    /\ ~cut /\ Len(written) < MaxFrames
    /\ wire' = wire \o Encode(f)
    /\ written' = Append(written, f)
    /\ UNCHANGED <<limit, header, read, err, cut, damaged>>

\* WriteFrame and Marshal, which writes MagicBytes whatever the frame's Magic.
\* A frame that is too large is refused and leaves nothing on the wire.
WriteFrame(f) ==
    /\ Len(f.payload) <= DefaultMaxSize
    /\ Write([f EXCEPT !.magic = MagicBytes])

\* A peer with an encoder of its own.
ForeignWrite(f) == Write(f)

\* The network damages one symbol; a CRC becomes a wrong one.
Damage ==
    /\ damaged < MaxDamage
    /\ \E i \in DOMAIN wire :
         \E s \in IF wire[i].byte < Byte THEN {Sym(b) : b \in 0..(Byte - 1)}
                                       ELSE {Checksum(<<>>)} :
             wire[i] # s /\ wire' = [wire EXCEPT ![i] = s]
    /\ damaged' = damaged + 1
    /\ UNCHANGED <<limit, header, written, read, err, cut>>

\* The connection ends; what is in flight arrives up to some point.
Cut ==
    /\ ~cut /\ cut' = TRUE
    /\ \E n \in 0..Len(wire) : wire' = SubSeq(wire, 1, n)
    /\ UNCHANGED <<limit, header, written, read, err, damaged>>

------------------------------------------------------------------------------
(* ReadFrame.  Every caller gives up on the connection after an error.     *)

\* NewFrameReader: 0 stands for the default.
ReaderMax == IF limit = 0 THEN DefaultMaxSize ELSE limit

SupportedVersions == {1}

\* No supported version is deprecated, so the table decides alone.
ValidateVersion(v) == v \in SupportedVersions

\* Mutant of HeaderError: a payload of exactly the limit is too large.
HeaderErrorOffByOne(h) ==
    IF h[1].byte # MagicByte1 \/ h[2].byte # MagicByte2 THEN "magic"
    ELSE IF ~ValidateVersion(h[3].byte) THEN "version"
    ELSE IF Uint(h) >= ReaderMax THEN "too large"
    ELSE "none"

\* What ReadFrame checks of a header, in this order.
HeaderError(h) ==
    IF h[1].byte # MagicByte1 \/ h[2].byte # MagicByte2 THEN "magic"
    ELSE IF ~ValidateVersion(h[3].byte) THEN "version"
    ELSE IF Uint(h) > ReaderMax THEN "too large"
    ELSE "none"

Consume(n) == wire' = SubSeq(wire, n + 1, Len(wire))

\* io.ReadFull meets the end of the stream.
ShortRead(n) ==
    /\ cut /\ Len(wire) < n
    /\ err' = "eof" /\ wire' = <<>>
    /\ UNCHANGED <<header, read>>

ReadHeader ==
    /\ err = "none" /\ header = <<>>
    /\ \/ ShortRead(FrameHeaderSize)
       \/ /\ Len(wire) >= FrameHeaderSize
          /\ Consume(FrameHeaderSize)
          /\ err' = HeaderError(wire)
          /\ header' = IF err' = "none" THEN SubSeq(wire, 1, FrameHeaderSize) ELSE <<>>
          /\ UNCHANGED read
    /\ UNCHANGED <<limit, written, cut, damaged>>

PayloadLen == Uint(header)

\* The frame that is returned: its magic was compared with MagicBytes.
FrameRead(payload) ==
    Frame(MagicBytes, header[3].byte, header[4].byte, Values(payload))

ReadRest(size, sums) ==
    /\ err = "none" /\ header # <<>>
    /\ \/ ShortRead(size)
       \/ /\ Len(wire) >= size
          /\ Consume(size)
          /\ LET payload == SubSeq(wire, 1, PayloadLen)
             IN  IF sums => wire[size] = Checksum(header \o payload)
                 THEN read' = Append(read, FrameRead(payload)) /\ UNCHANGED err
                 ELSE err' = "checksum" /\ UNCHANGED read
          /\ header' = <<>>
    /\ UNCHANGED <<limit, written, cut, damaged>>

\* Mutant of ReadRemainder: the checksum is not compared.
ReadUnchecked == ReadRest(PayloadLen + CRCSize, FALSE)

\* Mutant of ReadRemainder: the header's size is counted again.
ReadTooMuch == ReadRest(PayloadLen + MinFrameSize, TRUE)

\* Payload and checksum.
ReadRemainder == ReadRest(PayloadLen + CRCSize, TRUE)

Next ==
    \/ \E m \in Magics, v \in Versions, t \in Types, p \in Payloads :
          WriteFrame(Frame(m, v, t, p)) \/ ForeignWrite(Frame(m, v, t, p))
    \/ Damage \/ Cut \/ ReadHeader \/ ReadRemainder

Spec == Init /\ [][Next]_vars

\* The reader's goroutine keeps running.
FairSpec == Spec /\ WF_vars(ReadHeader \/ ReadRemainder)

------------------------------------------------------------------------------

\* Whatever the network does, ReadFrame returns exactly the frames that were
\* written, in order: damage or a cut can only end the sequence.  None of them is
\* above the reader's own limit, whatever the peer writes.
IntactPrefix ==
    /\ Len(read) <= Len(written)
    /\ read = SubSeq(written, 1, Len(read))
    /\ \A i \in DOMAIN read : Len(read[i].payload) <= ReaderMax

\* ReadFrame raises no false alarm: an error means that the network interfered
\* (and a missing end, that the stream was cut), or that the frame in question has
\* another magic, is of another version or is above the limit.
ErrorHasCause ==
    err # "none" =>
        \/ damaged > 0 \/ (err = "eof" /\ cut)
        \/ LET f == written[Len(read) + 1]
           IN  f.magic # MagicBytes \/ ~ValidateVersion(f.version)
                \/ Len(f.payload) > ReaderMax

\* The first n symbols of those ReadFrame has read of this frame or can read.
Opening(n) == SubSeq(header \o wire, 1, n)

\* The two decoders agree, for a reader with the default limit: Unmarshal accepts
\* the bytes of every frame that ReadFrame returns, and when ReadFrame fails there
\* is no beginning of what has arrived that Unmarshal would accept.  (Each has its
\* own checks of magic, version, length and checksum.)
DecodersAgree ==
    [][ReaderMax = DefaultMaxSize =>
         /\ read' # read => Unmarshal(Opening(Len(header \o wire) - Len(wire'))) = "none"
         /\ err' # err => \A n \in 0..Len(header \o wire) : Unmarshal(Opening(n)) # "none"
      ]_vars

\* Every frame that crosses the wire undamaged is read, unless reading ends with
\* an error before: the reader never waits for bytes that no frame has.  (After a
\* damaged length it may, until the read deadline of Session.)
EveryFrameRead ==
    \A n \in 1..MaxFrames :
        Len(written) = n ~> (Len(read) >= n \/ err # "none" \/ damaged > 0)
================================================================================
