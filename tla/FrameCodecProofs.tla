---------------------------- MODULE FrameCodecProofs ----------------------------
(***************************************************************************)
(* Proofs about FrameCodec for any magics, versions, types and payloads of *)
(* frames, any limits and any number of frames and damaged symbols.  The   *)
(* invariant says where the frames that were not returned yet lie on the   *)
(* stream.  So a checksum that matches can only be that of the next frame, *)
(* and without damage the next frame is all that ReadFrame can find.       *)
(***************************************************************************)
EXTENDS FrameCodec, SequenceTheorems, TLAPS

\* The time each prover may take for a step.
USE SMTT(20), ZenonT(20)

\* What can be on the wire: bytes and checksums of bytes.
ByteSyms == [byte : 0..(Byte - 1), of : {<<>>}]
Sums == [byte : {Byte}, of : Seq(ByteSyms)]
Symbols == ByteSyms \cup Sums

\* Frames that peers write.
Frames == [magic : Magics \cup {MagicBytes}, version : Versions, type : Types,
           payload : Payloads]

Errors == {"none", "magic", "version", "too large", "checksum", "eof"}

TypeInv ==
    /\ limit \in Limits /\ ReaderMax \in Nat
    /\ wire \in Seq(Symbols)
    /\ header \in Seq(Symbols) /\ Len(header) \in {0, FrameHeaderSize}
    /\ written \in Seq(Frames) /\ read \in Seq(Frames)
    /\ err \in Errors /\ cut \in BOOLEAN /\ damaged \in Nat

\* What ReadFrame has checked of the header it holds.
HeaderChecked ==
    header # <<>> => HeaderError(header) = "none"

\* A frame that was returned is the one that was written, and it passed the checks.
ReadIntact ==
    /\ Len(read) <= Len(written)
    /\ \A i \in DOMAIN read :
          /\ read[i] = written[i]
          /\ Len(read[i].payload) <= ReaderMax /\ ValidateVersion(read[i].version)

\* What ReadFrame has taken of the present frame and what is still on the wire.
Stream == header \o wire

\* The network can have made s of o.
Noisy(o, s) ==
    \/ s = o
    \/ o.byte < Byte /\ s \in ByteSyms
    \/ o.byte = Byte /\ s = Checksum(<<>>)

\* The frames of w behind the first n lie on s one behind the other, the i-th ends
\* at e[i]; symbols differ only where the network damaged them.
LayoutOf(e, n, w, s, c, d) ==
    /\ e \in [n..Len(w) -> Nat] /\ e[n] = 0
    /\ \A i, k \in n..Len(w) : i < k => e[i] < e[k]
    /\ \A i \in (n + 1)..Len(w) : e[i] = e[i - 1] + Len(Encode(w[i]))
    /\ ~c => Len(s) = e[Len(w)]
    /\ \A p \in 1..Len(s) :
          \E i \in (n + 1)..Len(w) :
              /\ p - e[i - 1] \in 1..Len(Encode(w[i]))
              /\ Noisy(Encode(w[i])[p - e[i - 1]], s[p])
              /\ d = 0 => s[p] = Encode(w[i])[p - e[i - 1]]

\* The frames that were not returned lie on Stream.
Layout(e) == LayoutOf(e, Len(read), written, Stream, cut, damaged)

\* ErrorHasCause, and the frame it is about was written.
Cause ==
    err # "none" =>
        \/ damaged > 0 \/ (err = "eof" /\ cut)
        \/ /\ Len(read) < Len(written)
           /\ \/ written[Len(read) + 1].magic # MagicBytes
              \/ ~ValidateVersion(written[Len(read) + 1].version)
              \/ Len(written[Len(read) + 1].payload) > ReaderMax

CodecInv ==
    /\ TypeInv /\ HeaderChecked /\ ReadIntact /\ Cause
    /\ err = "none" => \E e : Layout(e)

------------------------------------------------------------------------------
(* Encode                                                                  *)

\* The digits of a number make the number again, and a length that a header can
\* carry has two digits.
LEMMA Digits ==
    ASSUME NEW n \in Nat
    PROVE  /\ n \div Byte \in Nat /\ n % Byte \in 0..(Byte - 1)
           /\ (n \div Byte) * Byte + (n % Byte) = n
           /\ n < Byte * Byte => n \div Byte \in 0..(Byte - 1)
<1>1. /\ n \div Byte \in Nat /\ n % Byte \in 0..(Byte - 1)
      /\ (n \div Byte) * Byte + (n % Byte) = n
  BY CodecAssumption, SMT
<1>2. ASSUME n < Byte * Byte, n \div Byte >= Byte
      PROVE  FALSE
  <2>1. \A q \in Nat : q >= Byte => q * Byte >= Byte * Byte
    BY CodecAssumption, SMT
  <2>2. QED
    BY <1>1, <1>2, <2>1, CodecAssumption
<1>3. QED
  BY <1>1, <1>2, CodecAssumption

\* What the checksum of a frame is computed from.
Data(f) == Bytes(f.magic \o <<f.version, f.type>>
                   \o BigEndian(Len(f.payload)) \o f.payload)

\* The data of a frame is a sequence of bytes; the header is the first six.
LEMMA DataOf ==
    ASSUME NEW f \in Frames
    PROVE  /\ Data(f) \in Seq(ByteSyms) /\ Len(Data(f)) = 6 + Len(f.payload)
           /\ Data(f)[1] = Sym(f.magic[1]) /\ Data(f)[2] = Sym(f.magic[2])
           /\ Data(f)[3] = Sym(f.version) /\ Data(f)[4] = Sym(f.type)
           /\ Data(f)[5] = Sym(Len(f.payload) \div Byte)
           /\ Data(f)[6] = Sym(Len(f.payload) % Byte)
           /\ \A k \in 1..Len(f.payload) : Data(f)[6 + k] = Sym(f.payload[k])
           /\ Len(f.payload) \in Nat
<1> DEFINE B == 0..(Byte - 1)
           len == Len(f.payload)
           h == f.magic \o <<f.version, f.type>>
           d == BigEndian(len)
           hd == h \o d
           ints == hd \o f.payload
<1>1. /\ f.version \in B /\ f.type \in B /\ f.payload \in Seq(B)
      /\ f.magic \in B \X B /\ len \in Nat /\ len < Byte * Byte
  <2>1. /\ f.version \in Versions /\ f.type \in Types /\ f.payload \in Payloads
        /\ f.magic \in Magics \cup {MagicBytes}
    BY DEF Frames
  <2>2. MagicBytes \in B \X B
    BY CodecAssumption DEF MagicBytes, MagicByte1, MagicByte2
  <2>3. /\ f.version \in B /\ f.type \in B /\ f.payload \in Seq(B) /\ len < Byte * Byte
        /\ f.magic \in B \X B
    BY <2>1, <2>2, CodecAssumption, Zenon
  <2>4. QED
    BY <2>3, LenProperties, Zenon
<1>3. len \div Byte \in B /\ len % Byte \in B
  BY <1>1, Digits, Zenon
<1>4. /\ h \in Seq(B) /\ Len(h) = 4 /\ h[1] = f.magic[1] /\ h[2] = f.magic[2]
      /\ h[3] = f.version /\ h[4] = f.type
  <2>1. PICK a \in B, b \in B : f.magic = <<a, b>>
    BY <1>1
  <2> DEFINE vt == <<f.version, f.type>>
             ab == <<a, b>>
  <2>2. vt \in Seq(B) /\ Len(vt) = 2 /\ vt[1] = f.version /\ vt[2] = f.type
    BY <1>1
  <2>3. ab \in Seq(B) /\ Len(ab) = 2 /\ ab[1] = f.magic[1] /\ ab[2] = f.magic[2]
    BY <2>1
  <2>4. h = ab \o vt
    BY <2>1, Zenon
  <2> HIDE DEF vt, ab, h, B
  <2>5. /\ h \in Seq(B) /\ Len(h) = Len(ab) + Len(vt)
        /\ \A i \in 1..(Len(ab) + Len(vt)) :
              h[i] = IF i <= Len(ab) THEN ab[i] ELSE vt[i - Len(ab)]
    BY <2>2, <2>3, <2>4, ConcatProperties, Zenon
  <2>6. QED
    BY <2>2, <2>3, <2>5
<1>5. d \in Seq(B) /\ Len(d) = 2 /\ d[1] = len \div Byte /\ d[2] = len % Byte
  BY <1>3 DEF BigEndian
<1> HIDE DEF d, h, B
<1>6. /\ hd \in Seq(B) /\ Len(hd) = 6
      /\ hd[1] = f.magic[1] /\ hd[2] = f.magic[2] /\ hd[3] = f.version
      /\ hd[4] = f.type /\ hd[5] = len \div Byte /\ hd[6] = len % Byte
  <2>1. /\ hd \in Seq(B) /\ Len(hd) = Len(h) + Len(d)
        /\ \A i \in 1..(Len(h) + Len(d)) :
              hd[i] = IF i <= Len(h) THEN h[i] ELSE d[i - Len(h)]
    BY <1>4, <1>5, ConcatProperties, Zenon DEF hd
  <2>2. \A i \in 1..6 : hd[i] = IF i <= 4 THEN h[i] ELSE d[i - 4]
    <3>1. Len(h) = 4 /\ Len(d) = 2 /\ 4 + 2 = 6
      BY <1>4, <1>5
    <3>2. \A i \in 1..(4 + 2) : hd[i] = IF i <= 4 THEN h[i] ELSE d[i - 4]
      BY <2>1, <3>1, Zenon
    <3>3. QED
      BY <3>1, <3>2, Zenon
  <2>3. QED
    BY <1>4, <1>5, <2>1, <2>2
<1> HIDE DEF hd
<1>7. /\ ints \in Seq(B) /\ Len(ints) = 6 + len
      /\ \A i \in 1..6 : ints[i] = hd[i]
      /\ \A k \in 1..len : ints[6 + k] = f.payload[k]
  <2>1. /\ ints \in Seq(B) /\ Len(ints) = Len(hd) + len
        /\ \A i \in 1..(Len(hd) + len) :
              ints[i] = IF i <= Len(hd) THEN hd[i] ELSE f.payload[i - Len(hd)]
    BY <1>1, <1>6, ConcatProperties, Zenon
  <2>2. \A i \in 1..(6 + len) : ints[i] = IF i <= 6 THEN hd[i] ELSE f.payload[i - 6]
    BY <1>6, <2>1, Zenon
  <2> HIDE DEF ints
  <2>3. \A k \in 1..len : 6 + k \in 1..(6 + len) /\ ~(6 + k <= 6) /\ (6 + k) - 6 = k
    BY <1>1
  <2>4. \A k \in 1..len : ints[6 + k] = f.payload[k]
    BY <2>2, <2>3
  <2>5. \A i \in 1..6 : ints[i] = hd[i]
    BY <1>1, <2>2
  <2>6. QED
    BY <1>6, <2>1, <2>4, <2>5
<1> HIDE DEF ints
<1>8. Data(f) = [i \in 1..(6 + len) |-> Sym(ints[i])]
  BY <1>7, LenProperties, Zenon DEF Data, Bytes, ints, hd, h, d
<1>9. \A i \in 1..(6 + len) : Sym(ints[i]) \in ByteSyms
  BY <1>7, ElementOfSeq, Zenon DEF Sym, ByteSyms, B
<1>10. Data(f) \in Seq(ByteSyms) /\ Len(Data(f)) = 6 + len
  BY <1>1, <1>8, <1>9
<1>11. \A k \in 1..len : Data(f)[6 + k] = Sym(f.payload[k])
  <2>1. \A k \in 1..len : 6 + k \in 1..(6 + len)
    BY <1>1
  <2>2. QED
    BY <1>7, <1>8, <2>1, Zenon
<1>12. \A i \in 1..6 : Data(f)[i] = Sym(hd[i])
  <2>1. \A i \in 1..6 : i \in 1..(6 + len)
    BY <1>1
  <2>2. QED
    BY <1>7, <1>8, <2>1, Zenon
<1>13. /\ Data(f)[1] = Sym(f.magic[1]) /\ Data(f)[2] = Sym(f.magic[2])
       /\ Data(f)[3] = Sym(f.version) /\ Data(f)[4] = Sym(f.type)
       /\ Data(f)[5] = Sym(len \div Byte) /\ Data(f)[6] = Sym(len % Byte)
  BY <1>6, <1>12
<1>14. QED
  BY <1>1, <1>10, <1>11, <1>13

\* A frame on the wire is its data and the checksum of its data.
LEMMA EncodeOf ==
    ASSUME NEW f \in Frames
    PROVE  /\ Encode(f) \in Seq(Symbols) /\ Len(Encode(f)) = Len(Data(f)) + 1
           /\ \A j \in 1..Len(Data(f)) : Encode(f)[j] = Data(f)[j] /\ Encode(f)[j] \in ByteSyms
           /\ Encode(f)[Len(Encode(f))] = Checksum(Data(f))
<1>1. Data(f) \in Seq(ByteSyms) /\ Data(f) \in Seq(Symbols)
  BY DataOf, SeqMonotonic DEF Symbols
<1>2. Checksum(Data(f)) \in Symbols
  BY <1>1 DEF Checksum, Symbols, Sums
<1>3. Encode(f) = Append(Data(f), Checksum(Data(f)))
  BY DEF Encode, Data
<1>4. \A j \in 1..Len(Data(f)) : Data(f)[j] \in ByteSyms
  BY <1>1, ElementOfSeq
<1> HIDE DEF Data
<1>5. QED
  BY <1>1, <1>2, <1>3, <1>4, AppendProperties

------------------------------------------------------------------------------
(* The stream                                                              *)

\* The first n elements of a sequence.
LEMMA PrefixOf ==
    ASSUME NEW S, NEW s \in Seq(S), NEW n \in 0..Len(s)
    PROVE  /\ SubSeq(s, 1, n) \in Seq(S) /\ Len(SubSeq(s, 1, n)) = n
           /\ \A i \in 1..n : SubSeq(s, 1, n)[i] = s[i]
<1>1. Len(s) \in Nat /\ n \in Nat /\ \A i \in 1..n : i \in 1..Len(s) /\ s[i] \in S
  BY LenProperties, ElementOfSeq
<1>2. QED
  BY <1>1, SubSeqProperties

\* The elements behind the first n.
LEMMA SuffixOf ==
    ASSUME NEW S, NEW s \in Seq(S), NEW n \in 0..Len(s)
    PROVE  /\ SubSeq(s, n + 1, Len(s)) \in Seq(S)
           /\ Len(SubSeq(s, n + 1, Len(s))) = Len(s) - n
           /\ \A i \in 1..(Len(s) - n) : SubSeq(s, n + 1, Len(s))[i] = s[n + i]
<1>1. Len(s) \in Nat /\ n \in Nat
      /\ \A i \in (n + 1)..Len(s) : i \in 1..Len(s) /\ s[i] \in S
  BY LenProperties, ElementOfSeq
<1>2. QED
  BY <1>1, SubSeqProperties

\* The symbols of two sequences, one behind the other.
LEMMA Joined ==
    ASSUME NEW h \in Seq(Symbols), NEW w \in Seq(Symbols)
    PROVE  /\ h \o w \in Seq(Symbols) /\ Len(h \o w) = Len(h) + Len(w)
           /\ Len(h) \in Nat /\ Len(w) \in Nat /\ Len(h \o w) \in Nat
           /\ \A p \in 1..Len(h) : (h \o w)[p] = h[p]
           /\ \A k \in 1..Len(w) : (h \o w)[Len(h) + k] = w[k]
           /\ \A p \in 1..Len(h \o w) : p <= Len(h) \/ p - Len(h) \in 1..Len(w)
<1>1. /\ h \o w \in Seq(Symbols) /\ Len(h \o w) = Len(h) + Len(w)
      /\ \A i \in 1..(Len(h) + Len(w)) :
            (h \o w)[i] = IF i <= Len(h) THEN h[i] ELSE w[i - Len(h)]
  BY ConcatProperties, Zenon
<1>2. Len(w) \in Nat /\ Len(h) \in Nat
  BY LenProperties
<1>3. \A k \in 1..Len(w) : /\ Len(h) + k \in 1..(Len(h) + Len(w))
                           /\ ~(Len(h) + k <= Len(h))
                           /\ (Len(h) + k) - Len(h) = k
  BY <1>2
<1>4. \A k \in 1..Len(w) : (h \o w)[Len(h) + k] = w[k]
  BY <1>1, <1>3
<1>5. \A p \in 1..Len(h) : p \in 1..(Len(h) + Len(w)) /\ p <= Len(h)
  BY <1>2
<1>6. \A p \in 1..Len(h) : (h \o w)[p] = h[p]
  BY <1>1, <1>5
<1>7. \A p \in 1..(Len(h) + Len(w)) : p <= Len(h) \/ p - Len(h) \in 1..Len(w)
  BY <1>2
<1>8. QED
  BY <1>1, <1>2, <1>4, <1>6, <1>7

\* Stream is a sequence of symbols, the header's first.
LEMMA StreamOf ==
    ASSUME TypeInv
    PROVE  /\ Stream \in Seq(Symbols) /\ Len(Stream) = Len(header) + Len(wire)
           /\ Len(wire) \in Nat /\ Len(header) \in Nat /\ Len(Stream) \in Nat
           /\ \A p \in 1..Len(header) : Stream[p] = header[p]
           /\ \A k \in 1..Len(wire) : Stream[Len(header) + k] = wire[k]
           /\ \A p \in 1..Len(Stream) : p <= Len(header) \/ p - Len(header) \in 1..Len(wire)
<1>1. header \in Seq(Symbols) /\ wire \in Seq(Symbols)
  BY DEF TypeInv
<1>2. QED
  BY <1>1, Joined DEF Stream

\* Lengths and elements of written.
LEMMA WrittenOf ==
    ASSUME TypeInv
    PROVE  /\ Len(written) \in Nat /\ Len(read) \in Nat
           /\ \A i \in 1..Len(written) :
                 /\ written[i] \in Frames
                 /\ Len(Encode(written[i])) \in Nat /\ Len(Encode(written[i])) >= 7
<1>1. written \in Seq(Frames) /\ read \in Seq(Frames)
  BY DEF TypeInv
<1>2. \A i \in 1..Len(written) : written[i] \in Frames
  BY <1>1, ElementOfSeq
<1>3. ASSUME NEW f \in Frames
      PROVE  Len(Encode(f)) \in Nat /\ Len(Encode(f)) >= 7
  BY DataOf, EncodeOf
<1>4. QED
  BY <1>1, <1>2, <1>3, LenProperties

\* The stream starts with the first frame that was not returned.
LEMMA FirstFrame ==
    ASSUME TypeInv, NEW e, Layout(e), Len(Stream) >= 1
    PROVE  /\ Len(read) + 1 \in 1..Len(written)
           /\ e[Len(read) + 1] = Len(Encode(written[Len(read) + 1]))
           /\ \A p \in 1..Len(Stream) :
                 p <= Len(Encode(written[Len(read) + 1])) =>
                    /\ Noisy(Encode(written[Len(read) + 1])[p], Stream[p])
                    /\ damaged = 0 => Stream[p] = Encode(written[Len(read) + 1])[p]
<1> DEFINE n == Len(read)
           m(i) == Encode(written[i])
           In(p, i) == /\ p - e[i - 1] \in 1..Len(m(i))
                       /\ Noisy(m(i)[p - e[i - 1]], Stream[p])
                       /\ damaged = 0 => Stream[p] = m(i)[p - e[i - 1]]
<1>1. /\ Len(written) \in Nat /\ n \in Nat /\ Len(Stream) \in Nat
      /\ \A i \in 1..Len(written) : Len(m(i)) \in Nat /\ Len(m(i)) >= 7
  BY WrittenOf, StreamOf
<1>2. /\ e \in [n..Len(written) -> Nat] /\ e[n] = 0
      /\ \A i, k \in n..Len(written) : i < k => e[i] < e[k]
      /\ \A i \in (n + 1)..Len(written) : e[i] = e[i - 1] + Len(m(i))
  BY DEF Layout, LayoutOf
<1>3. \A p \in 1..Len(Stream) : \E i \in (n + 1)..Len(written) : In(p, i)
  BY DEF Layout, LayoutOf
<1> HIDE DEF n, m, In
<1>4. n + 1 \in 1..Len(written)
  <2>1. PICK i \in (n + 1)..Len(written) : In(1, i)
    BY <1>1, <1>3
  <2>2. QED
    BY <1>1, <2>1
<1>5. e[n + 1] = Len(m(n + 1))
  <2>1. n + 1 \in (n + 1)..Len(written) /\ (n + 1) - 1 = n
    BY <1>1, <1>4
  <2>2. e[n + 1] = e[(n + 1) - 1] + Len(m(n + 1))
    BY <1>2, <2>1
  <2>3. QED
    BY <1>1, <1>2, <1>4, <2>1, <2>2
<1>6. ASSUME NEW p \in 1..Len(Stream), p <= Len(m(n + 1))
      PROVE  In(p, n + 1)
  <2>1. PICK i \in (n + 1)..Len(written) : In(p, i)
    BY <1>3
  <2>2. p - e[i - 1] >= 1 /\ i - 1 \in n..Len(written) /\ e[i - 1] \in Nat
    BY <1>1, <1>2, <2>1 DEF In
  <2>3. e[i - 1] < e[n + 1]
    BY <1>1, <1>5, <1>6, <2>2
  <2>4. n + 1 \in n..Len(written) /\ e[n + 1] \in Nat
    BY <1>1, <1>2, <1>4
  <2>5. ~(n + 1 < i - 1) /\ n + 1 # i - 1
    <3>1. n + 1 < i - 1 => e[n + 1] < e[i - 1]
      BY <1>2, <2>2, <2>4
    <3>2. QED
      BY <2>2, <2>3, <2>4, <3>1
  <2>6. i = n + 1
    BY <1>1, <2>1, <2>5
  <2>7. QED
    BY <2>1, <2>6
<1>7. ASSUME NEW p \in 1..Len(Stream), In(p, n + 1)
      PROVE  /\ Noisy(m(n + 1)[p], Stream[p])
             /\ damaged = 0 => Stream[p] = m(n + 1)[p]
  <2>1. (n + 1) - 1 = n /\ p - 0 = p
    BY <1>1
  <2>2. QED
    BY <1>2, <1>7, <2>1 DEF In
<1>8. QED
  BY <1>4, <1>5, <1>6, <1>7 DEF n, m

\* The value of a symbol.
LEMMA SymbolByte ==
    ASSUME NEW s \in Symbols
    PROVE  /\ s.byte \in Nat
           /\ s \in ByteSyms => s.byte < Byte
           /\ ~(s \in ByteSyms) => s.byte = Byte
BY CodecAssumption DEF Symbols, ByteSyms, Sums

\* A header carries a length.
LEMMA UintNat ==
    ASSUME NEW h \in Seq(Symbols), Len(h) >= 6
    PROVE  Uint(h) \in Nat
<1>1. 5 \in 1..Len(h) /\ 6 \in 1..Len(h)
  BY LenProperties
<1>2. h[5] \in Symbols /\ h[6] \in Symbols
  BY <1>1, ElementOfSeq
<1>3. h[5].byte \in Nat /\ h[6].byte \in Nat
  BY <1>2, SymbolByte
<1>4. h[5].byte * Byte \in Nat
  BY <1>3, CodecAssumption
<1>5. QED
  BY <1>3, <1>4 DEF Uint

\* The header of a frame carries the length of its payload.
LEMMA UintOfData ==
    ASSUME NEW f \in Frames, NEW h, h[5] = Data(f)[5], h[6] = Data(f)[6]
    PROVE  Uint(h) = Len(f.payload)
<1>1. h[5].byte = Len(f.payload) \div Byte /\ h[6].byte = Len(f.payload) % Byte
  <2>1. h[5] = Sym(Len(f.payload) \div Byte) /\ h[6] = Sym(Len(f.payload) % Byte)
    BY DataOf
  <2>2. QED
    BY <2>1 DEF Sym
<1>2. Len(f.payload) \in Nat
  BY DataOf
<1>3. QED
  BY <1>1, <1>2, Digits, Zenon DEF Uint

\* What ReadFrame has taken when it compares the checksum.
LEMMA TakenOf ==
    ASSUME TypeInv, header # <<>>, Len(wire) >= PayloadLen + 1
    PROVE  /\ Len(header) = 6 /\ PayloadLen \in Nat
           /\ SubSeq(wire, 1, PayloadLen) \in Seq(Symbols)
           /\ Len(SubSeq(wire, 1, PayloadLen)) = PayloadLen
           /\ header \o SubSeq(wire, 1, PayloadLen) \in Seq(Symbols)
           /\ Len(header \o SubSeq(wire, 1, PayloadLen)) = 6 + PayloadLen
           /\ \A p \in 1..(6 + PayloadLen) :
                 (header \o SubSeq(wire, 1, PayloadLen))[p] = Stream[p]
           /\ \A k \in 1..PayloadLen :
                 /\ SubSeq(wire, 1, PayloadLen)[k] = wire[k]
                 /\ (header \o SubSeq(wire, 1, PayloadLen))[6 + k] = wire[k]
           /\ Len(Stream) >= 7 + PayloadLen /\ Stream[7 + PayloadLen] = wire[PayloadLen + 1]
<1> DEFINE l == PayloadLen
           s == SubSeq(wire, 1, l)
           t == header \o s
<1>1. /\ header \in Seq(Symbols) /\ wire \in Seq(Symbols) /\ Len(wire) \in Nat
      /\ Len(header) = 6
  BY LenProperties, EmptySeq DEF TypeInv, FrameHeaderSize
<1>2. l \in Nat
  <2>1. Len(header) >= 6
    BY <1>1
  <2>2. QED
    BY <1>1, <2>1, UintNat, Zenon DEF PayloadLen
<1> HIDE DEF l
<1>3. l + 1 <= Len(wire)
  BY DEF l
<1>4. l \in 0..Len(wire) /\ \A k \in 1..l : k \in 1..Len(wire)
  BY <1>1, <1>2, <1>3
<1>5. s \in Seq(Symbols) /\ Len(s) = l /\ \A k \in 1..l : s[k] = wire[k]
  BY <1>1, <1>4, PrefixOf, Zenon
<1> HIDE DEF s
<1>7. /\ t \in Seq(Symbols) /\ Len(t) = Len(header) + Len(s)
      /\ \A i \in 1..(Len(header) + Len(s)) :
            t[i] = IF i <= Len(header) THEN header[i] ELSE s[i - Len(header)]
  BY <1>1, <1>5, ConcatProperties, Zenon
<1> HIDE DEF t
<1>8. Len(t) = 6 + l /\ \A p \in 1..(6 + l) : t[p] = IF p <= 6 THEN header[p] ELSE s[p - 6]
  BY <1>1, <1>5, <1>7, Zenon
<1>9. /\ Len(Stream) = 6 + Len(wire)
      /\ \A p \in 1..6 : Stream[p] = header[p]
      /\ \A k \in 1..Len(wire) : Stream[6 + k] = wire[k]
  BY <1>1, StreamOf
<1>10. ASSUME NEW k \in 1..l
       PROVE  t[6 + k] = wire[k] /\ Stream[6 + k] = wire[k]
  <2>1. 6 + k \in 1..(6 + l) /\ ~(6 + k <= 6) /\ (6 + k) - 6 = k
    BY <1>2
  <2>2. QED
    BY <1>4, <1>5, <1>8, <1>9, <2>1
<1>11. ASSUME NEW p \in 1..(6 + l)
       PROVE  t[p] = Stream[p]
  <2>1. CASE p <= 6
    BY <1>2, <1>8, <1>9, <2>1
  <2>2. CASE p > 6
    <3>1. p - 6 \in 1..l /\ 6 + (p - 6) = p
      BY <1>2, <2>2
    <3>2. QED
      BY <1>10, <3>1
  <2>3. QED
    BY <1>2, <2>1, <2>2
<1>12. Len(Stream) >= 7 + l /\ Stream[7 + l] = wire[l + 1]
  <2>1. l + 1 \in 1..Len(wire) /\ 6 + (l + 1) = 7 + l
    BY <1>1, <1>2, <1>3
  <2>2. QED
    BY <1>1, <1>2, <1>3, <1>9, <2>1
<1>13. QED
  BY <1>1, <1>2, <1>5, <1>7, <1>8, <1>10, <1>11, <1>12 DEF l, s, t

\* When the checksum matches, ReadFrame holds the first frame that was not
\* returned: no checksum of a later frame, and no damaged one, matches.
LEMMA Delivered ==
    ASSUME TypeInv, HeaderChecked, NEW e, Layout(e), header # <<>>,
           Len(wire) >= PayloadLen + 1,
           wire[PayloadLen + 1] = Checksum(header \o SubSeq(wire, 1, PayloadLen))
    PROVE  /\ Len(read) + 1 \in 1..Len(written)
           /\ e[Len(read) + 1] = 7 + PayloadLen
           /\ FrameRead(SubSeq(wire, 1, PayloadLen)) = written[Len(read) + 1]
           /\ Uint(header) = Len(written[Len(read) + 1].payload)
<1> DEFINE n == Len(read)
           l == PayloadLen
           s == SubSeq(wire, 1, l)
           t == header \o s
           L == 7 + l
<1>1. /\ Len(header) = 6 /\ l \in Nat /\ s \in Seq(Symbols) /\ Len(s) = l
      /\ t \in Seq(Symbols) /\ Len(t) = 6 + l
      /\ \A p \in 1..(6 + l) : t[p] = Stream[p]
      /\ \A k \in 1..l : s[k] = wire[k] /\ t[6 + k] = wire[k]
      /\ Len(Stream) >= L /\ Stream[L] = wire[l + 1]
  BY TakenOf, Zenon
<1>2. Stream[L] = Checksum(t)
  BY <1>1
<1>3. Len(Stream) \in Nat /\ \A p \in 1..6 : Stream[p] = header[p]
  BY <1>1, StreamOf
<1> HIDE DEF l, s, t
<1>4. L \in 1..Len(Stream) /\ Len(Stream) >= 1
  BY <1>1, <1>3
<1>5. PICK i \in (n + 1)..Len(written) :
          /\ L - e[i - 1] \in 1..Len(Encode(written[i]))
          /\ Noisy(Encode(written[i])[L - e[i - 1]], Stream[L])
  BY <1>4, Zenon DEF Layout, LayoutOf
<1> DEFINE f == written[i]
           j == L - e[i - 1]
<1>6. Len(written) \in Nat /\ n \in Nat /\ i \in 1..Len(written) /\ f \in Frames
  BY WrittenOf
<1>7. /\ Len(Encode(f)) = Len(Data(f)) + 1 /\ Len(Data(f)) = 6 + Len(f.payload)
      /\ Len(f.payload) \in Nat /\ Data(f) \in Seq(ByteSyms)
      /\ \A k \in 1..Len(Data(f)) : Encode(f)[k] = Data(f)[k] /\ Encode(f)[k] \in ByteSyms
      /\ Encode(f)[Len(Encode(f))] = Checksum(Data(f))
  BY <1>6, EncodeOf, DataOf, Zenon
<1> HIDE DEF f, j, L
<1>8. Stream[L].byte = Byte /\ Stream[L].of = t /\ ~(Stream[L] \in ByteSyms)
  BY <1>2, CodecAssumption DEF Checksum, ByteSyms
<1>9. t # <<>>
  BY <1>1, EmptySeq
<1>10. j = Len(Encode(f)) /\ Data(f) = t
  <2>1. j \in 1..Len(Encode(f)) /\ Noisy(Encode(f)[j], Stream[L])
    BY <1>5 DEF f, j
  <2>2. Stream[L] # Checksum(<<>>)
    BY <1>8, <1>9 DEF Checksum
  <2>3. Stream[L] = Encode(f)[j]
    BY <1>8, <2>1, <2>2 DEF Noisy
  <2>4. ~(j \in 1..Len(Data(f)))
    BY <1>7, <1>8, <2>3
  <2>5. j = Len(Encode(f))
    BY <1>7, <2>1, <2>4
  <2>6. Stream[L] = Checksum(Data(f))
    BY <1>7, <2>3, <2>5
  <2>7. QED
    BY <1>8, <2>5, <2>6 DEF Checksum
<1>11. i = n + 1
  <2>1. j = L
    BY <1>1, <1>7, <1>10 DEF L
  <2>2. /\ e \in [n..Len(written) -> Nat] /\ e[n] = 0
        /\ \A a, b \in n..Len(written) : a < b => e[a] < e[b]
    BY DEF Layout, LayoutOf
  <2>3. i - 1 \in n..Len(written) /\ n \in n..Len(written) /\ e[i - 1] \in Nat
    BY <1>6, <2>2
  <2>4. e[i - 1] = 0
    BY <1>1, <2>1, <2>3 DEF j, L
  <2>5. ~(n < i - 1)
    BY <2>2, <2>3, <2>4
  <2>6. QED
    BY <1>6, <2>3, <2>5
<1>12. e[n + 1] = L
  <2>1. e[n + 1] = Len(Encode(f))
    BY <1>4, <1>11, FirstFrame DEF f
  <2>2. Len(Encode(f)) = L
    <3>1. l \in Nat /\ Len(Data(f)) = 6 + l
      BY <1>1, <1>10
    <3>2. Len(Encode(f)) = Len(Data(f)) + 1
      BY <1>7
    <3>3. QED
      BY <3>1, <3>2 DEF L
  <2>3. QED
    BY <2>1, <2>2
<1> DEFINE HeaderOf(p) == header[p] = Data(f)[p]
<1>13. \A p \in 1..6 : HeaderOf(p)
  <2>1. l \in Nat /\ \A p \in 1..(6 + l) : Data(f)[p] = Stream[p]
    BY <1>1, <1>10
  <2>2. \A p \in 1..6 : p \in 1..(6 + l)
    BY <2>1
  <2>3. QED
    BY <1>3, <2>1, <2>2
<1>14. HeaderOf(1) /\ HeaderOf(2) /\ HeaderOf(3) /\ HeaderOf(4) /\ HeaderOf(5) /\ HeaderOf(6)
  <2> HIDE DEF HeaderOf
  <2>1. QED
    BY <1>13
<1>15. Uint(header) = Len(f.payload) /\ l = Len(f.payload)
  BY <1>6, <1>14, UintOfData DEF l, PayloadLen
<1>16. /\ header[1].byte = f.magic[1] /\ header[2].byte = f.magic[2]
       /\ header[3].byte = f.version /\ header[4].byte = f.type
  <2>1. /\ header[1] = Sym(f.magic[1]) /\ header[2] = Sym(f.magic[2])
        /\ header[3] = Sym(f.version) /\ header[4] = Sym(f.type)
    BY <1>6, <1>14, DataOf
  <2>2. QED
    BY <2>1 DEF Sym
<1>17. Values(s) = f.payload
  <2>1. f.payload \in Seq(0..(Byte - 1))
    BY <1>6, CodecAssumption DEF Frames
  <2>2. f.payload \in [1..l -> 0..(Byte - 1)]
    BY <1>15, <2>1, LenProperties, Zenon
  <2>3. DOMAIN s = 1..l
    BY <1>1, LenProperties
  <2>4. ASSUME NEW k \in 1..l PROVE s[k].byte = f.payload[k]
    <3>1. s[k] = Data(f)[6 + k]
      BY <1>1, <1>10
    <3>2. s[k] = Sym(f.payload[k])
      BY <1>6, <1>15, <3>1, DataOf
    <3>3. QED
      BY <3>2 DEF Sym
  <2>5. Values(s) = [k \in 1..l |-> s[k].byte]
    BY <2>3 DEF Values
  <2>6. QED
    BY <2>2, <2>4, <2>5, Zenon
<1>18. FrameRead(s) = f
  <2>1. f = [magic |-> f.magic, version |-> f.version, type |-> f.type,
             payload |-> f.payload]
    BY <1>6 DEF Frames
  <2>2. header[1].byte = MagicByte1 /\ header[2].byte = MagicByte2
    BY DEF HeaderChecked, HeaderError
  <2>3. f.magic = MagicBytes
    <3>1. f.magic \in (0..(Byte - 1)) \X (0..(Byte - 1))
      BY <1>6, CodecAssumption DEF Frames, MagicBytes, MagicByte1, MagicByte2
    <3>2. PICK a \in 0..(Byte - 1), b \in 0..(Byte - 1) : f.magic = <<a, b>>
      BY <3>1
    <3>3. f.magic[1] = a /\ f.magic[2] = b
      BY <3>2
    <3>4. a = MagicByte1 /\ b = MagicByte2
      BY <1>16, <2>2, <3>3, Zenon
    <3>5. QED
      BY <3>2, <3>4, Zenon DEF MagicBytes
  <2>4. QED
    BY <1>16, <1>17, <2>1, <2>3 DEF FrameRead, Frame
<1>19. QED
  BY <1>6, <1>11, <1>12, <1>15, <1>18 DEF f, L, l, s

------------------------------------------------------------------------------
(* How the stream changes: the frames stay where they are, or move to the  *)
(* front.                                                                  *)

\* A frame is written behind the others.
LEMMA LayoutWrite ==
    ASSUME NEW n \in Nat, NEW w \in Seq(Frames), n <= Len(w), NEW s \in Seq(Symbols),
           NEW d \in Nat, NEW f \in Frames, NEW e, LayoutOf(e, n, w, s, FALSE, d)
    PROVE  \E g : LayoutOf(g, n, Append(w, f), s \o Encode(f), FALSE, d)
<1> DEFINE W == Len(w)
           m == Encode(f)
           M == Len(m)
           w2 == Append(w, f)
           s2 == s \o m
           g == [i \in n..(W + 1) |-> IF i = W + 1 THEN e[W] + M ELSE e[i]]
<1>1. W \in Nat /\ Len(s) \in Nat /\ m \in Seq(Symbols) /\ M \in Nat /\ M >= 7
  <2>1. Len(Data(f)) = 6 + Len(f.payload) /\ Len(f.payload) \in Nat
    BY DataOf
  <2>2. m \in Seq(Symbols) /\ M = Len(Data(f)) + 1
    BY EncodeOf
  <2>3. W \in Nat /\ Len(s) \in Nat
    BY LenProperties
  <2>4. QED
    BY <2>1, <2>2, <2>3
<1>2. /\ w2 \in Seq(Frames) /\ Len(w2) = W + 1 /\ w2[W + 1] = f
      /\ \A i \in 1..W : w2[i] = w[i]
  BY AppendProperties
<1>3. /\ s2 \in Seq(Symbols) /\ Len(s2) = Len(s) + M
      /\ \A p \in 1..(Len(s) + M) : s2[p] = IF p <= Len(s) THEN s[p] ELSE m[p - Len(s)]
  BY <1>1, ConcatProperties, Zenon
<1>4. /\ e \in [n..W -> Nat] /\ e[n] = 0
      /\ \A i, k \in n..W : i < k => e[i] < e[k]
      /\ \A i \in (n + 1)..W : e[i] = e[i - 1] + Len(Encode(w[i]))
      /\ Len(s) = e[W]
  BY DEF LayoutOf
<1>5. \A p \in 1..Len(s) :
          \E i \in (n + 1)..W :
              /\ p - e[i - 1] \in 1..Len(Encode(w[i]))
              /\ Noisy(Encode(w[i])[p - e[i - 1]], s[p])
              /\ d = 0 => s[p] = Encode(w[i])[p - e[i - 1]]
  BY DEF LayoutOf
<1> HIDE DEF W, m, M, w2, s2
<1>6. W \in n..W /\ e[W] \in Nat
  BY <1>1, <1>4 DEF W
<1>7. /\ g \in [n..(W + 1) -> Nat] /\ g[W + 1] = e[W] + M
      /\ \A i \in n..W : g[i] = e[i] /\ g[i] \in Nat
  BY <1>1, <1>4, <1>6
<1> HIDE DEF g
<1>8. g[n] = 0
  BY <1>1, <1>4, <1>6, <1>7
<1>9. ASSUME NEW i \in n..(W + 1), NEW k \in n..(W + 1), i < k
      PROVE  g[i] < g[k]
  <2>1. i \in n..W
    BY <1>1, <1>9
  <2>2. CASE k \in n..W
    BY <1>4, <1>7, <1>9, <2>1, <2>2
  <2>3. CASE k = W + 1
    <3>1. e[i] <= e[W]
      BY <1>1, <1>4, <1>6, <2>1
    <3>2. QED
      BY <1>1, <1>4, <1>6, <1>7, <2>1, <2>3, <3>1
  <2>4. QED
    BY <1>1, <2>2, <2>3
<1>10. ASSUME NEW i \in (n + 1)..(W + 1)
       PROVE  g[i] = g[i - 1] + Len(Encode(w2[i]))
  <2>1. CASE i = W + 1
    <3>1. i - 1 = W
      BY <1>1, <2>1
    <3>2. QED
      BY <1>2, <1>6, <1>7, <2>1, <3>1 DEF M, m
  <2>2. CASE i \in (n + 1)..W
    <3>1. i - 1 \in n..W /\ i \in n..W /\ i \in 1..W
      BY <1>1, <2>2
    <3>2. QED
      BY <1>2, <1>4, <1>7, <2>2, <3>1
  <2>3. QED
    BY <1>1, <2>1, <2>2
<1>11. Len(s2) = g[W + 1]
  BY <1>3, <1>4, <1>7
<1>12. ASSUME NEW p \in 1..Len(s2)
       PROVE  \E i \in (n + 1)..(W + 1) :
                  /\ p - g[i - 1] \in 1..Len(Encode(w2[i]))
                  /\ Noisy(Encode(w2[i])[p - g[i - 1]], s2[p])
                  /\ d = 0 => s2[p] = Encode(w2[i])[p - g[i - 1]]
  <2>1. CASE p <= Len(s)
    <3>1. p \in 1..Len(s) /\ s2[p] = s[p]
      BY <1>1, <1>3, <2>1
    <3>2. PICK i \in (n + 1)..W :
              /\ p - e[i - 1] \in 1..Len(Encode(w[i]))
              /\ Noisy(Encode(w[i])[p - e[i - 1]], s[p])
              /\ d = 0 => s[p] = Encode(w[i])[p - e[i - 1]]
      BY <1>5, <3>1
    <3>3. i - 1 \in n..W /\ i \in 1..W /\ i \in (n + 1)..(W + 1)
      BY <1>1
    <3>4. w2[i] = w[i] /\ g[i - 1] = e[i - 1]
      BY <1>2, <1>7, <3>3, Zenon
    <3>5. QED
      BY <3>1, <3>2, <3>3, <3>4, Zenon
  <2>2. CASE p > Len(s)
    <3>1. /\ W + 1 \in (n + 1)..(W + 1) /\ (W + 1) - 1 = W /\ W \in n..W
          /\ p - Len(s) \in 1..M /\ ~(p <= Len(s)) /\ p \in 1..(Len(s) + M)
      <4>1. p \in 1..(Len(s) + M)
        BY <1>3
      <4>2. p - Len(s) \in 1..M /\ ~(p <= Len(s))
        BY <1>1, <2>2, <4>1
      <4>3. QED
        BY <1>1, <1>6, <4>1, <4>2
    <3>2. /\ w2[W + 1] = f /\ g[(W + 1) - 1] = Len(s) /\ s2[p] = m[p - Len(s)]
      BY <1>2, <1>3, <1>4, <1>7, <3>1
    <3>3. QED
      BY <3>1, <3>2, Zenon DEF M, m, Noisy
  <2>3. QED
    BY <1>1, <1>3, <2>1, <2>2
<1>13. LayoutOf(g, n, w2, s2, FALSE, d)
  BY <1>2, <1>7, <1>8, <1>9, <1>10, <1>11, <1>12 DEF LayoutOf
<1>14. QED
  BY <1>13, Zenon DEF w2, s2, m

\* A symbol is damaged.
LEMMA LayoutDamage ==
    ASSUME NEW n \in Nat, NEW w \in Seq(Frames), NEW s \in Seq(Symbols), NEW c, NEW d \in Nat,
           NEW e, LayoutOf(e, n, w, s, c, d),
           NEW r \in Seq(Symbols), Len(r) = Len(s),
           \A p \in 1..Len(s) : \/ r[p] = s[p]
                                \/ s[p].byte < Byte /\ r[p] \in ByteSyms
                                \/ ~(s[p].byte < Byte) /\ r[p] = Checksum(<<>>)
    PROVE  LayoutOf(e, n, w, r, c, d + 1)
<1>1. ASSUME NEW o \in Symbols, NEW x \in Symbols, NEW y, Noisy(o, x),
             \/ y = x
             \/ x.byte < Byte /\ y \in ByteSyms
             \/ ~(x.byte < Byte) /\ y = Checksum(<<>>)
      PROVE  Noisy(o, y)
  <2>1. /\ o \in ByteSyms => o.byte < Byte
        /\ ~(o \in ByteSyms) => o.byte = Byte
        /\ x \in ByteSyms => x.byte < Byte
        /\ ~(x \in ByteSyms) => x.byte = Byte
    BY SymbolByte
  <2>2. ~(Byte < Byte) /\ Checksum(<<>>).byte = Byte
    BY CodecAssumption DEF Checksum
  <2>3. QED
    BY <1>1, <2>1, <2>2, Zenon DEF Noisy
<1>2. ASSUME NEW p \in 1..Len(s), NEW i \in (n + 1)..Len(w),
             p - e[i - 1] \in 1..Len(Encode(w[i])),
             Noisy(Encode(w[i])[p - e[i - 1]], s[p])
      PROVE  Noisy(Encode(w[i])[p - e[i - 1]], r[p])
  <2>1. i \in 1..Len(w)
    BY LenProperties
  <2>2. Encode(w[i])[p - e[i - 1]] \in Symbols
    BY <1>2, <2>1, ElementOfSeq, EncodeOf, Zenon
  <2>3. s[p] \in Symbols
    BY ElementOfSeq
  <2>4. QED
    BY <1>1, <1>2, <2>2, <2>3
<1>3. d + 1 # 0
  OBVIOUS
<1>4. QED
  BY <1>2, <1>3 DEF LayoutOf

\* The stream ends early.
LEMMA LayoutCut ==
    ASSUME NEW n \in Nat, NEW w \in Seq(Frames), NEW s \in Seq(Symbols), NEW c, NEW d \in Nat,
           NEW e, LayoutOf(e, n, w, s, c, d),
           NEW r \in Seq(Symbols), Len(r) <= Len(s), \A p \in 1..Len(r) : r[p] = s[p]
    PROVE  LayoutOf(e, n, w, r, TRUE, d)
<1>1. \A p \in 1..Len(r) : p \in 1..Len(s)
  <2>1. Len(r) \in Nat /\ Len(s) \in Nat
    BY LenProperties
  <2>2. QED
    BY <2>1
<1>2. ASSUME NEW p \in 1..Len(r)
      PROVE  \E i \in (n + 1)..Len(w) :
                 /\ p - e[i - 1] \in 1..Len(Encode(w[i]))
                 /\ Noisy(Encode(w[i])[p - e[i - 1]], r[p])
                 /\ d = 0 => r[p] = Encode(w[i])[p - e[i - 1]]
  <2>1. p \in 1..Len(s) /\ r[p] = s[p]
    BY <1>1
  <2>2. PICK i \in (n + 1)..Len(w) :
            /\ p - e[i - 1] \in 1..Len(Encode(w[i]))
            /\ Noisy(Encode(w[i])[p - e[i - 1]], s[p])
            /\ d = 0 => s[p] = Encode(w[i])[p - e[i - 1]]
    BY <2>1, Zenon DEF LayoutOf
  <2>3. QED
    BY <2>1, <2>2
<1>3. QED
  BY <1>2, Zenon DEF LayoutOf

\* The first frame is taken from the stream.
LEMMA LayoutRead ==
    ASSUME NEW n \in Nat, NEW w \in Seq(Frames), n < Len(w), NEW s \in Seq(Symbols),
           NEW c, NEW d \in Nat, NEW e, LayoutOf(e, n, w, s, c, d),
           e[n + 1] <= Len(s), NEW r \in Seq(Symbols), Len(r) = Len(s) - e[n + 1],
           \A k \in 1..Len(r) : r[k] = s[e[n + 1] + k]
    PROVE  \E g : LayoutOf(g, n + 1, w, r, c, d)
<1> DEFINE W == Len(w)
           L == e[n + 1]
           m(i) == Encode(w[i])
           g == [i \in (n + 1)..W |-> e[i] - L]
<1>1. W \in Nat /\ Len(s) \in Nat /\ Len(r) \in Nat
  BY LenProperties
<1>2. /\ e \in [n..W -> Nat] /\ e[n] = 0
      /\ \A i, k \in n..W : i < k => e[i] < e[k]
      /\ \A i \in (n + 1)..W : e[i] = e[i - 1] + Len(m(i))
      /\ ~c => Len(s) = e[W]
  BY DEF LayoutOf
<1>3. \A p \in 1..Len(s) :
          \E i \in (n + 1)..W :
              /\ p - e[i - 1] \in 1..Len(m(i))
              /\ Noisy(m(i)[p - e[i - 1]], s[p])
              /\ d = 0 => s[p] = m(i)[p - e[i - 1]]
  BY DEF LayoutOf
<1>4. n + 1 \in n..W /\ n + 1 \in (n + 1)..W /\ (n + 1) - 1 = n /\ L \in Nat
  <2>1. n + 1 \in n..W /\ n + 1 \in (n + 1)..W /\ (n + 1) - 1 = n
    BY <1>1
  <2>2. QED
    BY <1>2, <2>1, Zenon
<1>5. L = Len(m(n + 1)) /\ Len(m(n + 1)) \in Nat
  <2>1. L = e[(n + 1) - 1] + Len(m(n + 1))
    BY <1>2, <1>4, Zenon
  <2>2. n + 1 \in 1..W
    BY <1>1, <1>4
  <2>3. m(n + 1) \in Seq(Symbols)
    BY <2>2, ElementOfSeq, EncodeOf
  <2>4. Len(m(n + 1)) \in Nat
    BY <2>3, LenProperties
  <2>5. QED
    BY <1>2, <1>4, <2>1, <2>4
<1>6. Len(r) = Len(s) - L /\ \A k \in 1..Len(r) : r[k] = s[L + k]
  OBVIOUS
<1> HIDE DEF W, L, m
<1>7. ASSUME NEW i \in (n + 1)..W
      PROVE  i \in n..W /\ e[i] \in Nat /\ e[i] >= L
  <2>1. i \in n..W /\ e[i] \in Nat
    <3>1. i \in n..W
      BY <1>1
    <3>2. e \in [n..W -> Nat]
      BY <1>2
    <3>3. QED
      BY <3>1, <3>2
  <2>2. CASE i = n + 1
    BY <1>4, <2>1, <2>2 DEF L
  <2>3. CASE n + 1 < i
    <3>1. e[n + 1] < e[i]
      BY <1>2, <1>4, <2>1, <2>3
    <3>2. QED
      BY <1>4, <2>1, <3>1 DEF L
  <2>4. QED
    BY <1>1, <2>1, <2>2, <2>3
<1>8. /\ g \in [(n + 1)..W -> Nat]
      /\ \A i \in (n + 1)..W : g[i] = e[i] - L
  BY <1>4, <1>7
<1> HIDE DEF g
<1>9. g[n + 1] = 0
  BY <1>4, <1>8 DEF L
<1>10. ASSUME NEW i \in (n + 1)..W, NEW k \in (n + 1)..W, i < k
       PROVE  g[i] < g[k]
  <2>1. e[i] < e[k]
    BY <1>2, <1>7, <1>10
  <2>2. QED
    BY <1>4, <1>7, <1>8, <2>1
<1>11. ASSUME NEW i \in (n + 2)..W
       PROVE  /\ i - 1 \in (n + 1)..W /\ i \in (n + 1)..W
              /\ g[i - 1] = e[i - 1] - L /\ e[i - 1] \in Nat
  BY <1>1, <1>7, <1>8
<1>12. ASSUME NEW i \in ((n + 1) + 1)..W
       PROVE  g[i] = g[i - 1] + Len(m(i))
  <2>1. i \in (n + 2)..W
    BY <1>1
  <2>2. e[i] = e[i - 1] + Len(m(i)) /\ e[i] \in Nat
    BY <1>2, <1>7, <1>11, <2>1
  <2>3. m(i) \in Seq(Symbols)
    <3>1. i \in 1..Len(w)
      BY <1>1, <2>1 DEF W
    <3>2. QED
      BY <3>1, ElementOfSeq, EncodeOf, Zenon DEF m
  <2>4. Len(m(i)) \in Nat
    BY <2>3, LenProperties
  <2>5. g[i] = e[i] - L /\ g[i - 1] = e[i - 1] - L /\ e[i - 1] \in Nat
    BY <1>8, <1>11, <2>1
  <2>6. QED
    BY <1>4, <2>2, <2>4, <2>5
<1>13. ~c => Len(r) = g[W]
  <2>1. W \in (n + 1)..W
    BY <1>1, <1>4
  <2>2. QED
    BY <1>2, <1>6, <1>8, <2>1
<1>14. ASSUME NEW p \in 1..Len(r)
       PROVE  \E i \in ((n + 1) + 1)..W :
                 /\ p - g[i - 1] \in 1..Len(m(i))
                 /\ Noisy(m(i)[p - g[i - 1]], r[p])
                 /\ d = 0 => r[p] = m(i)[p - g[i - 1]]
  <2>1. L + p \in 1..Len(s) /\ r[p] = s[L + p]
    <3>1. Len(r) = Len(s) - L /\ r[p] = s[L + p]
      BY <1>6
    <3>2. QED
      BY <1>1, <1>4, <3>1
  <2>2. PICK i \in (n + 1)..W :
            /\ (L + p) - e[i - 1] \in 1..Len(m(i))
            /\ Noisy(m(i)[(L + p) - e[i - 1]], s[L + p])
            /\ d = 0 => s[L + p] = m(i)[(L + p) - e[i - 1]]
    BY <1>3, <2>1, Zenon
  <2>3. i # n + 1
    <3>1. SUFFICES ASSUME i = n + 1 PROVE FALSE
      OBVIOUS
    <3>2. i - 1 = n
      BY <1>4, <3>1
    <3>3. (L + p) - 0 \in 1..Len(m(n + 1))
      BY <1>2, <2>2, <3>1, <3>2
    <3>4. QED
      BY <1>1, <1>4, <1>5, <3>3
  <2>4. i \in (n + 2)..W /\ i \in ((n + 1) + 1)..W
    BY <1>1, <2>3
  <2>5. p - g[i - 1] = (L + p) - e[i - 1]
    <3>1. g[i - 1] = e[i - 1] - L /\ e[i - 1] \in Nat
      BY <1>11, <2>4
    <3>2. \A a \in Nat : p - (a - L) = (L + p) - a
      BY <1>1, <1>4
    <3>3. QED
      BY <3>1, <3>2
  <2>6. QED
    BY <2>1, <2>2, <2>4, <2>5
<1>15. LayoutOf(g, n + 1, w, r, c, d)
  BY <1>8, <1>9, <1>10, <1>12, <1>13, <1>14 DEF LayoutOf, W, m
<1>16. QED
  BY <1>15

------------------------------------------------------------------------------
(* The steps                                                               *)

\* The limit of a reader is a number.
LEMMA ReaderMaxNat == ASSUME limit \in Limits PROVE ReaderMax \in Nat
BY CodecAssumption DEF ReaderMax

\* Nothing is written yet.
LEMMA InitCodec == Init => CodecInv
<1> SUFFICES ASSUME Init PROVE CodecInv
  OBVIOUS
<1>1. TypeInv
  <2>1. limit \in Limits /\ ReaderMax \in Nat
    BY ReaderMaxNat DEF Init
  <2>2. /\ wire \in Seq(Symbols) /\ header \in Seq(Symbols) /\ Len(header) = 0
        /\ written \in Seq(Frames) /\ read \in Seq(Frames)
    BY EmptySeq, Zenon DEF Init
  <2>3. err \in Errors /\ cut \in BOOLEAN /\ damaged \in Nat
    BY Zenon DEF Init, Errors
  <2>4. QED
    BY <2>1, <2>2, <2>3 DEF TypeInv
<1>2. HeaderChecked /\ Cause
  BY DEF Init, HeaderChecked, Cause
<1>3. ReadIntact
  BY DEF Init, ReadIntact
<1>4. \E e : Layout(e)
  <2> DEFINE g == [i \in 0..0 |-> 0]
  <2>1. Len(read) = 0 /\ Len(written) = 0 /\ Stream = <<>> /\ Len(Stream) = 0
    BY DEF Init, Stream
  <2>2. g \in [0..0 -> Nat] /\ g[0] = 0
    OBVIOUS
  <2> HIDE DEF g
  <2>3. LayoutOf(g, Len(read), written, Stream, cut, damaged)
    BY <2>1, <2>2 DEF LayoutOf
  <2>4. QED
    BY <2>3 DEF Layout
<1>5. QED
  BY <1>1, <1>2, <1>3, <1>4 DEF CodecInv

\* A written frame joins the stream.
LEMMA WriteStep ==
    ASSUME CodecInv, NEW f \in Frames, Write(f)
    PROVE  CodecInv'
<1> DEFINE m == Encode(f)
<1>1. /\ ~cut /\ wire' = wire \o m /\ written' = Append(written, f)
      /\ UNCHANGED <<limit, header, read, err, cut, damaged>>
  BY DEF Write
<1>2. /\ TypeInv /\ wire \in Seq(Symbols) /\ header \in Seq(Symbols)
      /\ written \in Seq(Frames) /\ read \in Seq(Frames) /\ damaged \in Nat
      /\ cut \in BOOLEAN
  BY DEF CodecInv, TypeInv
<1>3. m \in Seq(Symbols)
  BY EncodeOf
<1> HIDE DEF m
<1>4. /\ written' \in Seq(Frames) /\ Len(written') = Len(written) + 1
      /\ \A i \in 1..Len(written) : written'[i] = written[i]
  BY <1>1, <1>2, AppendProperties
<1>5. Len(written) \in Nat /\ Len(read) \in Nat /\ DOMAIN read = 1..Len(read)
  BY <1>2, LenProperties
<1>6. wire' \in Seq(Symbols)
  BY <1>1, <1>2, <1>3, ConcatProperties
<1>7. TypeInv'
  BY <1>1, <1>2, <1>4, <1>6 DEF TypeInv, ReaderMax
<1>8. HeaderChecked'
  <2>1. HeaderChecked
    BY DEF CodecInv
  <2>2. QED
    BY <1>1, <2>1 DEF HeaderChecked, ReaderMax, HeaderError, ValidateVersion, Uint
<1>9. ReadIntact'
  <2>1. ReadIntact
    BY DEF CodecInv
  <2>2. Len(read) <= Len(written) /\ \A i \in 1..Len(read) : i \in 1..Len(written)
    BY <1>5, <2>1 DEF ReadIntact
  <2>3. Len(read') <= Len(written')
    BY <1>1, <1>4, <1>5, <2>2
  <2>4. ASSUME NEW i \in DOMAIN read'
        PROVE  /\ read'[i] = written'[i]
               /\ Len(read'[i].payload) <= ReaderMax' /\ ValidateVersion(read'[i].version)
    BY <1>1, <1>4, <1>5, <2>1, <2>2 DEF ReadIntact, ReaderMax
  <2>5. QED
    BY <2>3, <2>4 DEF ReadIntact, ValidateVersion
<1>10. Cause'
  <2>1. Cause
    BY DEF CodecInv
  <2>2. Len(read) < Len(written) =>
            /\ Len(read) < Len(written')
            /\ written'[Len(read) + 1] = written[Len(read) + 1]
    <3>1. ASSUME Len(read) < Len(written) PROVE Len(read) + 1 \in 1..Len(written)
      BY <1>5, <3>1
    <3>2. QED
      BY <1>4, <1>5, <3>1
  <2>3. QED
    BY <1>1, <2>1, <2>2 DEF Cause, ReaderMax, ValidateVersion
<1>11. ASSUME err = "none" PROVE \E e : Layout(e)'
  <2>1. PICK e : LayoutOf(e, Len(read), written, Stream, cut, damaged)
    BY <1>11 DEF CodecInv, Layout
  <2>2. cut = FALSE /\ Len(read) <= Len(written) /\ Stream \in Seq(Symbols)
    BY <1>1, <1>2, StreamOf DEF CodecInv, ReadIntact
  <2>3. \E g : LayoutOf(g, Len(read), Append(written, f), Stream \o m, FALSE, damaged)
    BY <1>2, <1>5, <2>1, <2>2, LayoutWrite, Zenon DEF m
  <2>4. Stream' = Stream \o m
    <3>1. \A s, t, u \in Seq(Symbols) : (s \o t) \o u = s \o (t \o u)
      BY ConcatAssociative
    <3>2. (header \o wire) \o m = header \o (wire \o m)
      BY <1>2, <1>3, <3>1
    <3>3. QED
      BY <1>1, <3>2 DEF Stream
  <2>5. \E g : LayoutOf(g, Len(read'), written', Stream', cut', damaged')
    BY <1>1, <2>2, <2>3, <2>4, Zenon
  <2>6. QED
    BY <2>5 DEF Layout
<1>12. QED
  BY <1>1, <1>7, <1>8, <1>9, <1>10, <1>11 DEF CodecInv

\* What depends on neither the wire nor the error.
LEMMA Kept ==
    ASSUME CodecInv, UNCHANGED <<limit, header, written, read>>
    PROVE  HeaderChecked' /\ ReadIntact' /\ ReaderMax' = ReaderMax
<1>1. HeaderChecked /\ ReadIntact /\ ReaderMax' = ReaderMax
  BY DEF CodecInv, ReaderMax
<1>2. HeaderChecked'
  BY <1>1 DEF HeaderChecked, HeaderError, ValidateVersion, Uint
<1>3. ReadIntact'
  BY <1>1 DEF ReadIntact, ValidateVersion
<1>4. QED
  BY <1>1, <1>2, <1>3

\* A damaged symbol.
LEMMA DamageStep ==
    ASSUME CodecInv, Damage
    PROVE  CodecInv'
<1>1. /\ TypeInv /\ wire \in Seq(Symbols) /\ header \in Seq(Symbols)
      /\ written \in Seq(Frames) /\ Len(read) \in Nat /\ damaged \in Nat
  BY WrittenOf DEF CodecInv, TypeInv
<1>2. damaged' = damaged + 1 /\ UNCHANGED <<limit, header, written, read, err, cut>>
  BY DEF Damage
<1>3. PICK i \in DOMAIN wire :
          \E s \in IF wire[i].byte < Byte THEN {Sym(b) : b \in 0..(Byte - 1)}
                                          ELSE {Checksum(<<>>)} :
             wire' = [wire EXCEPT ![i] = s]
  BY Zenon DEF Damage
<1>4. PICK s : /\ wire' = [wire EXCEPT ![i] = s]
               /\ s \in IF wire[i].byte < Byte THEN {Sym(b) : b \in 0..(Byte - 1)}
                                               ELSE {Checksum(<<>>)}
  BY <1>3, Zenon
<1>5. \/ wire[i].byte < Byte /\ s \in ByteSyms
      \/ ~(wire[i].byte < Byte) /\ s = Checksum(<<>>)
  BY <1>4 DEF Sym, ByteSyms
<1>6. s \in Symbols
  <2>1. Checksum(<<>>) \in Symbols
    BY EmptySeq DEF Checksum, Symbols, Sums
  <2>2. QED
    BY <1>5, <2>1 DEF Symbols
<1>7. i \in 1..Len(wire)
  BY <1>1, LenProperties
<1>8. /\ wire' \in Seq(Symbols) /\ Len(wire') = Len(wire)
      /\ \A j \in 1..Len(wire) : wire'[j] = IF j = i THEN s ELSE wire[j]
  <2> DEFINE r == [wire EXCEPT ![i] = s]
  <2>1. /\ r \in Seq(Symbols) /\ Len(r) = Len(wire)
        /\ \A j \in 1..Len(wire) : r[j] = IF j = i THEN s ELSE wire[j]
    BY <1>1, <1>6, <1>7, ExceptSeq
  <2> HIDE DEF r
  <2>2. wire' = r
    BY <1>4 DEF r
  <2>3. QED
    BY <2>1, <2>2
<1>9. TypeInv'
  BY <1>1, <1>2, <1>8, Kept DEF TypeInv
<1>10. Cause'
  BY <1>1, <1>2 DEF Cause
<1>11. ASSUME err = "none" PROVE \E e : Layout(e)'
  <2>1. PICK e : LayoutOf(e, Len(read), written, Stream, cut, damaged)
    BY <1>11 DEF CodecInv, Layout
  <2>2. header' = header /\ Stream' = header \o wire'
    BY <1>2 DEF Stream
  <2>3. /\ Stream' \in Seq(Symbols) /\ Len(Stream') = Len(header) + Len(wire')
        /\ \A p \in 1..Len(header) : Stream'[p] = header[p]
        /\ \A k \in 1..Len(wire') : Stream'[Len(header) + k] = wire'[k]
    BY <1>1, <1>8, <2>2, Joined, Zenon
  <2>4. /\ Stream \in Seq(Symbols) /\ Len(Stream) = Len(header) + Len(wire)
        /\ Len(header) \in Nat /\ Len(wire) \in Nat
        /\ \A p \in 1..Len(header) : Stream[p] = header[p]
        /\ \A k \in 1..Len(wire) : Stream[Len(header) + k] = wire[k]
        /\ \A p \in 1..Len(Stream) : p <= Len(header) \/ p - Len(header) \in 1..Len(wire)
    BY <1>1, StreamOf
  <2>5. Len(Stream') = Len(Stream)
    BY <1>8, <2>3, <2>4
  <2>6. ASSUME NEW p \in 1..Len(Stream)
        PROVE  \/ Stream'[p] = Stream[p]
               \/ Stream[p].byte < Byte /\ Stream'[p] \in ByteSyms
               \/ ~(Stream[p].byte < Byte) /\ Stream'[p] = Checksum(<<>>)
    <3>1. CASE p <= Len(header)
      <4>1. p \in 1..Len(header)
        BY <2>4, <3>1
      <4>2. QED
        BY <2>3, <2>4, <4>1
    <3>2. CASE p - Len(header) \in 1..Len(wire)
      <4>1. PICK k \in 1..Len(wire) : p = Len(header) + k
        <5>1. p = Len(header) + (p - Len(header))
          BY <2>4
        <5>2. QED
          BY <3>2, <5>1
      <4>2. Stream[p] = wire[k] /\ Stream'[p] = wire'[k]
        BY <1>8, <2>3, <2>4, <4>1
      <4>3. QED
        BY <1>5, <1>8, <4>2
    <3>3. QED
      BY <2>4, <3>1, <3>2
  <2>7. LayoutOf(e, Len(read), written, Stream', cut, damaged + 1)
    BY <1>1, <2>1, <2>3, <2>4, <2>5, <2>6, LayoutDamage, Zenon
  <2>8. LayoutOf(e, Len(read'), written', Stream', cut', damaged')
    BY <1>2, <2>7
  <2>9. QED
    BY <2>8 DEF Layout
<1>12. QED
  BY <1>2, <1>9, <1>10, <1>11, Kept DEF CodecInv

\* The end of the stream.
LEMMA CutStep ==
    ASSUME CodecInv, Cut
    PROVE  CodecInv'
<1>1. /\ TypeInv /\ wire \in Seq(Symbols) /\ header \in Seq(Symbols)
      /\ written \in Seq(Frames) /\ Len(read) \in Nat /\ damaged \in Nat
  BY WrittenOf DEF CodecInv, TypeInv
<1>2. cut' = TRUE /\ UNCHANGED <<limit, header, written, read, err, damaged>>
  BY DEF Cut
<1>3. PICK n \in 0..Len(wire) : wire' = SubSeq(wire, 1, n)
  BY DEF Cut
<1>4. /\ wire' \in Seq(Symbols) /\ Len(wire') = n
      /\ \A k \in 1..n : wire'[k] = wire[k]
  BY <1>1, <1>3, PrefixOf
<1>5. TypeInv'
  BY <1>1, <1>2, <1>4, Kept DEF TypeInv
<1>6. Cause'
  <2>1. Cause
    BY DEF CodecInv
  <2>2. QED
    BY <1>2, <2>1, Kept DEF Cause, ValidateVersion
<1>7. ASSUME err = "none" PROVE \E e : Layout(e)'
  <2>1. PICK e : LayoutOf(e, Len(read), written, Stream, cut, damaged)
    BY <1>7 DEF CodecInv, Layout
  <2>2. header' = header /\ Stream' = header \o wire'
    BY <1>2 DEF Stream
  <2>3. /\ Stream' \in Seq(Symbols) /\ Len(Stream') = Len(header) + n
        /\ \A p \in 1..Len(header) : Stream'[p] = header[p]
        /\ \A k \in 1..n : Stream'[Len(header) + k] = wire'[k]
        /\ \A p \in 1..Len(Stream') : p <= Len(header) \/ p - Len(header) \in 1..n
    BY <1>1, <1>4, <2>2, Joined
  <2>4. /\ Stream \in Seq(Symbols) /\ Len(Stream) = Len(header) + Len(wire)
        /\ Len(header) \in Nat /\ Len(wire) \in Nat
        /\ \A p \in 1..Len(header) : Stream[p] = header[p]
        /\ \A k \in 1..Len(wire) : Stream[Len(header) + k] = wire[k]
    BY <1>1, StreamOf
  <2>5. Len(Stream') <= Len(Stream) /\ \A k \in 1..n : k \in 1..Len(wire)
    BY <2>3, <2>4
  <2>6. ASSUME NEW p \in 1..Len(Stream')
        PROVE  Stream'[p] = Stream[p]
    <3>1. CASE p <= Len(header)
      <4>1. p \in 1..Len(header)
        BY <2>3, <2>4, <3>1
      <4>2. QED
        BY <2>3, <2>4, <4>1
    <3>2. CASE p - Len(header) \in 1..n
      <4>1. PICK k \in 1..n : p = Len(header) + k
        <5>1. p = Len(header) + (p - Len(header))
          BY <2>3, <2>4
        <5>2. QED
          BY <3>2, <5>1
      <4>2. QED
        BY <1>4, <2>3, <2>4, <2>5, <4>1, Zenon
    <3>3. QED
      BY <2>3, <3>1, <3>2
  <2>7. LayoutOf(e, Len(read), written, Stream', TRUE, damaged)
    BY <1>1, <2>1, <2>3, <2>4, <2>5, <2>6, LayoutCut, Zenon
  <2>8. LayoutOf(e, Len(read'), written', Stream', cut', damaged')
    BY <1>2, <2>7, Zenon
  <2>9. QED
    BY <2>8 DEF Layout
<1>8. QED
  BY <1>2, <1>5, <1>6, <1>7, Kept DEF CodecInv

\* io.ReadFull meets the end of the stream: the stream was cut.
LEMMA ShortReadStep ==
    ASSUME CodecInv, NEW n, ShortRead(n), UNCHANGED <<limit, written, cut, damaged>>
    PROVE  CodecInv'
<1>1. /\ cut /\ err' = "eof" /\ wire' = <<>> /\ UNCHANGED <<header, read>>
  BY DEF ShortRead
<1>2. TypeInv /\ wire' \in Seq(Symbols) /\ err' \in Errors
  BY <1>1, EmptySeq DEF CodecInv, Errors
<1>3. HeaderChecked' /\ ReadIntact' /\ ReaderMax' = ReaderMax
  BY <1>1, Kept
<1>4. TypeInv'
  BY <1>1, <1>2, <1>3 DEF TypeInv
<1>5. Cause'
  BY <1>1 DEF Cause
<1>6. QED
  BY <1>1, <1>3, <1>4, <1>5 DEF CodecInv

\* Without damage, what ReadFrame refuses in a header is in the frame.
LEMMA HeaderCause ==
    ASSUME TypeInv, header = <<>>, NEW e, Layout(e), Len(wire) >= 6, damaged = 0,
           HeaderError(wire) # "none"
    PROVE  /\ Len(read) + 1 \in 1..Len(written)
           /\ \/ written[Len(read) + 1].magic # MagicBytes
              \/ ~ValidateVersion(written[Len(read) + 1].version)
              \/ Len(written[Len(read) + 1].payload) > ReaderMax
<1> DEFINE f == written[Len(read) + 1]
<1>1. Stream = wire /\ Len(wire) \in Nat
  BY ConcatEmptySeq, StreamOf DEF Stream, TypeInv
<1>2. /\ Len(read) + 1 \in 1..Len(written)
      /\ \A p \in 1..Len(wire) : p <= Len(Encode(f)) => wire[p] = Encode(f)[p]
  BY <1>1, FirstFrame
<1>3. f \in Frames
  BY <1>2, WrittenOf
<1> HIDE DEF f
<1>4. Len(f.payload) \in Nat /\ Len(Data(f)) = 6 + Len(f.payload)
  BY <1>3, DataOf
<1>5. ASSUME NEW p \in 1..6
      PROVE  wire[p] = Data(f)[p]
  <2>1. Len(Encode(f)) = Len(Data(f)) + 1
    BY <1>3, EncodeOf
  <2>2. p \in 1..Len(wire) /\ p <= Len(Encode(f)) /\ p \in 1..Len(Data(f))
    BY <1>1, <1>4, <2>1
  <2>3. Encode(f)[p] = Data(f)[p]
    BY <1>3, <2>2, EncodeOf
  <2>4. QED
    BY <1>2, <2>2, <2>3
<1> DEFINE HeaderOf(p) == wire[p] = Data(f)[p]
<1>6. \A p \in 1..6 : HeaderOf(p)
  BY <1>5
<1>7. HeaderOf(1) /\ HeaderOf(2) /\ HeaderOf(3) /\ HeaderOf(5) /\ HeaderOf(6)
  <2> HIDE DEF HeaderOf
  <2>1. QED
    BY <1>6
<1>8. wire[1] = Sym(f.magic[1]) /\ wire[2] = Sym(f.magic[2]) /\ wire[3] = Sym(f.version)
  BY <1>3, <1>7, DataOf
<1>9. wire[1].byte = f.magic[1] /\ wire[2].byte = f.magic[2] /\ wire[3].byte = f.version
  BY <1>8 DEF Sym
<1>10. Uint(wire) = Len(f.payload)
  BY <1>3, <1>7, UintOfData
<1>11. f.magic # MagicBytes \/ ~ValidateVersion(f.version) \/ Len(f.payload) > ReaderMax
  BY <1>9, <1>10 DEF HeaderError, MagicBytes
<1>12. QED
  BY <1>2, <1>11 DEF f

\* ReadFrame reads and checks a header.
LEMMA ReadHeaderStep ==
    ASSUME CodecInv, ReadHeader
    PROVE  CodecInv'
<1>1. CASE ShortRead(FrameHeaderSize)
  BY <1>1, ShortReadStep DEF ReadHeader
<1>2. CASE ~ShortRead(FrameHeaderSize)
  <2>1. /\ err = "none" /\ header = <<>> /\ Len(wire) >= 6
        /\ wire' = SubSeq(wire, 6 + 1, Len(wire))
        /\ err' = HeaderError(wire)
        /\ header' = IF err' = "none" THEN SubSeq(wire, 1, 6) ELSE <<>>
        /\ UNCHANGED <<read, limit, written, cut, damaged>>
    BY <1>2 DEF ReadHeader, FrameHeaderSize, Consume
  <2>2. /\ TypeInv /\ wire \in Seq(Symbols) /\ Len(wire) \in Nat
        /\ ReaderMax' = ReaderMax
    BY <2>1, LenProperties DEF CodecInv, TypeInv, ReaderMax
  <2>3. 6 \in 0..Len(wire)
    BY <2>1, <2>2
  <2>4. /\ SubSeq(wire, 1, 6) \in Seq(Symbols) /\ Len(SubSeq(wire, 1, 6)) = 6
        /\ \A p \in 1..6 : SubSeq(wire, 1, 6)[p] = wire[p]
    BY <2>2, <2>3, PrefixOf
  <2>5. wire' \in Seq(Symbols)
    BY <2>1, <2>2, <2>3, SuffixOf
  <2>6. err' \in Errors
    BY <2>1, Zenon DEF HeaderError, Errors
  <2>7. header' \in Seq(Symbols) /\ Len(header') \in {0, FrameHeaderSize}
    <3>1. CASE err' = "none"
      BY <2>1, <2>4, <3>1 DEF FrameHeaderSize
    <3>2. CASE err' # "none"
      BY <2>1, <3>2, EmptySeq
    <3>3. QED
      BY <3>1, <3>2
  <2>8. TypeInv'
    BY <2>1, <2>2, <2>5, <2>6, <2>7 DEF TypeInv
  <2>9. HeaderChecked'
    <3>1. SUFFICES ASSUME header' # <<>>
                   PROVE  HeaderError(header') = "none"
      BY <2>2 DEF HeaderChecked, HeaderError, ValidateVersion, Uint
    <3>2. err' = "none" /\ header' = SubSeq(wire, 1, 6)
      BY <2>1, <3>1
    <3>3. /\ header'[1] = wire[1] /\ header'[2] = wire[2] /\ header'[3] = wire[3]
          /\ header'[5] = wire[5] /\ header'[6] = wire[6]
      BY <2>4, <3>2
    <3>4. QED
      BY <2>1, <3>2, <3>3 DEF HeaderError, Uint
  <2>10. ReadIntact'
    <3>1. ReadIntact
      BY DEF CodecInv
    <3>2. QED
      BY <2>1, <2>2, <3>1 DEF ReadIntact, ValidateVersion
  <2>11. PICK e : Layout(e)
    BY <2>1 DEF CodecInv
  <2>12. Cause'
    <3>1. SUFFICES ASSUME err' # "none", damaged = 0
                   PROVE  /\ Len(read) < Len(written)
                          /\ \/ written[Len(read) + 1].magic # MagicBytes
                             \/ ~ValidateVersion(written[Len(read) + 1].version)
                             \/ Len(written[Len(read) + 1].payload) > ReaderMax
      BY <2>1, <2>2 DEF Cause, ValidateVersion, TypeInv
    <3>2. /\ Len(read) + 1 \in 1..Len(written)
          /\ \/ written[Len(read) + 1].magic # MagicBytes
             \/ ~ValidateVersion(written[Len(read) + 1].version)
             \/ Len(written[Len(read) + 1].payload) > ReaderMax
      BY <2>1, <2>2, <2>11, <3>1, HeaderCause
    <3>3. Len(read) < Len(written)
      BY <2>2, <3>2, WrittenOf
    <3>4. QED
      BY <3>2, <3>3
  <2>13. ASSUME err' = "none" PROVE \E g : Layout(g)'
    <3>1. Stream = wire
      BY <2>1, <2>2, ConcatEmptySeq DEF Stream
    <3>2. Stream' = SubSeq(wire, 1, 6) \o SubSeq(wire, 6 + 1, Len(wire))
      BY <2>1, <2>13 DEF Stream
    <3>3. SubSeq(wire, 1, 6) \o SubSeq(wire, 6 + 1, Len(wire)) = SubSeq(wire, 1, Len(wire))
      <4>1. 1 \in 1..(Len(wire) + 1) /\ 6 \in (1 - 1)..Len(wire) /\ Len(wire) \in 6..Len(wire)
        BY <2>1, <2>2
      <4>2. QED
        BY <2>2, <4>1, ConcatAdjacentSubSeq, Zenon
    <3>4. Stream' = Stream
      BY <2>2, <3>1, <3>2, <3>3, SubSeqFull
    <3>5. LayoutOf(e, Len(read'), written', Stream', cut', damaged')
      BY <2>1, <2>11, <3>4 DEF Layout
    <3>6. QED
      BY <3>5 DEF Layout
  <2>14. QED
    BY <2>8, <2>9, <2>10, <2>12, <2>13 DEF CodecInv
<1>3. QED
  BY <1>1, <1>2

\* Without damage, the checksum of the present frame matches.
LEMMA ChecksumCause ==
    ASSUME TypeInv, header # <<>>, NEW e, Layout(e), Len(wire) >= PayloadLen + 1, damaged = 0
    PROVE  wire[PayloadLen + 1] = Checksum(header \o SubSeq(wire, 1, PayloadLen))
<1> DEFINE f == written[Len(read) + 1]
           l == PayloadLen
           t == header \o SubSeq(wire, 1, l)
<1>1. /\ Len(header) = 6 /\ l \in Nat /\ t \in Seq(Symbols) /\ Len(t) = 6 + l
      /\ \A p \in 1..(6 + l) : t[p] = Stream[p]
      /\ Len(Stream) >= 7 + l /\ Stream[7 + l] = wire[l + 1]
  BY TakenOf
<1>2. Len(Stream) \in Nat /\ \A p \in 1..6 : Stream[p] = header[p]
  BY <1>1, StreamOf
<1>3. Len(Stream) >= 1
  BY <1>1, <1>2
<1>4. /\ Len(read) + 1 \in 1..Len(written)
      /\ \A p \in 1..Len(Stream) : p <= Len(Encode(f)) => Stream[p] = Encode(f)[p]
  BY <1>3, FirstFrame
<1>5. f \in Frames
  BY <1>4, WrittenOf
<1> HIDE DEF f, t
<1>6. /\ Len(f.payload) \in Nat /\ Len(Data(f)) = 6 + Len(f.payload)
      /\ Data(f) \in Seq(Symbols)
  BY <1>5, DataOf, SeqMonotonic DEF Symbols
<1>7. /\ Len(Encode(f)) = Len(Data(f)) + 1
      /\ \A k \in 1..Len(Data(f)) : Encode(f)[k] = Data(f)[k]
      /\ Encode(f)[Len(Encode(f))] = Checksum(Data(f))
  BY <1>5, EncodeOf
<1>8. ASSUME NEW p \in 1..Len(Data(f)), p <= Len(Stream)
      PROVE  Stream[p] = Data(f)[p]
  <2>1. p \in 1..Len(Stream) /\ p <= Len(Encode(f))
    BY <1>2, <1>6, <1>7, <1>8
  <2>2. QED
    BY <1>4, <1>7, <2>1
<1>9. l = Len(f.payload)
  <2>1. /\ 5 \in 1..Len(Data(f)) /\ 5 <= Len(Stream) /\ 5 \in 1..6
        /\ 6 \in 1..Len(Data(f)) /\ 6 <= Len(Stream) /\ 6 \in 1..6
    <3>1. Len(Data(f)) \in Nat /\ Len(Data(f)) >= 6
      BY <1>6
    <3>2. Len(Stream) \in Nat /\ Len(Stream) >= 6
      BY <1>1, <1>2
    <3>3. QED
      BY <3>1, <3>2
  <2>2. header[5] = Data(f)[5] /\ header[6] = Data(f)[6]
    BY <1>2, <1>8, <2>1
  <2>3. QED
    BY <1>5, <2>2, UintOfData DEF PayloadLen
<1> HIDE DEF l
<1>10. t = Data(f)
  <2>1. Len(t) = Len(Data(f))
    BY <1>1, <1>6, <1>9
  <2>2. ASSUME NEW i \in 1..Len(t) PROVE t[i] = Data(f)[i]
    <3>1. i \in 1..(6 + l) /\ i \in 1..Len(Data(f)) /\ i <= Len(Stream)
      BY <1>1, <1>2, <2>1
    <3>2. QED
      BY <1>1, <1>8, <3>1
  <2>3. QED
    BY <1>1, <1>6, <2>1, <2>2, SeqEqual
<1>11. Stream[7 + l] = Checksum(Data(f))
  <2>1. 7 + l \in 1..Len(Stream) /\ 7 + l = Len(Encode(f)) /\ 7 + l <= Len(Encode(f))
    BY <1>1, <1>2, <1>6, <1>7, <1>9
  <2>2. QED
    BY <1>4, <1>7, <2>1
<1>12. QED
  BY <1>1, <1>10, <1>11, Zenon DEF t, l

\* ReadFrame takes payload and checksum: it returns the next frame, or the
\* checksum was damaged.
LEMMA ReadRemainderStep ==
    ASSUME CodecInv, ReadRemainder
    PROVE  CodecInv'
<1> DEFINE l == PayloadLen
           s == SubSeq(wire, 1, l)
           Match == wire[l + 1] = Checksum(header \o s)
<1>1. CASE ShortRead(PayloadLen + CRCSize)
  BY <1>1, ShortReadStep DEF ReadRemainder, ReadRest
<1>2. CASE ~ShortRead(PayloadLen + CRCSize)
  <2>1. /\ err = "none" /\ header # <<>> /\ Len(wire) >= l + 1 /\ header' = <<>>
        /\ wire' = SubSeq(wire, (l + 1) + 1, Len(wire))
        /\ IF Match THEN read' = Append(read, FrameRead(s)) /\ UNCHANGED err
                    ELSE err' = "checksum" /\ UNCHANGED read
        /\ UNCHANGED <<limit, written, cut, damaged>>
    BY <1>2 DEF ReadRemainder, ReadRest, CRCSize, Consume
  <2>2. /\ TypeInv /\ wire \in Seq(Symbols) /\ Len(wire) \in Nat
        /\ written \in Seq(Frames) /\ read \in Seq(Frames) /\ damaged \in Nat
        /\ Len(read) \in Nat /\ Len(written) \in Nat
        /\ ReaderMax' = ReaderMax
    BY <2>1, LenProperties DEF CodecInv, TypeInv, ReaderMax
  <2>3. Len(header) = 6 /\ l \in Nat /\ Len(Stream) >= 7 + l
    BY <2>1, <2>2, TakenOf
  <2>4. PICK e : Layout(e)
    BY <2>1 DEF CodecInv
  <2> HIDE DEF l
  <2>5. l + 1 \in 0..Len(wire)
    BY <2>1, <2>2, <2>3
  <2>6. /\ wire' \in Seq(Symbols) /\ Len(wire') = Len(wire) - (l + 1)
        /\ \A k \in 1..(Len(wire) - (l + 1)) : wire'[k] = wire[(l + 1) + k]
    BY <2>1, <2>2, <2>5, SuffixOf
  <2>7. /\ header' \in Seq(Symbols) /\ Len(header') = 0 /\ HeaderChecked'
        /\ Stream' = wire'
    BY <2>1, <2>6, EmptySeq, ConcatEmptySeq DEF HeaderChecked, Stream
  <2>8. CASE Match
    <3>1. /\ Len(read) + 1 \in 1..Len(written)
          /\ e[Len(read) + 1] = 7 + l /\ FrameRead(s) = written[Len(read) + 1]
          /\ Uint(header) = Len(written[Len(read) + 1].payload)
      BY <2>1, <2>2, <2>4, <2>8, Delivered DEF l, CodecInv
    <3>2. read' = Append(read, written[Len(read) + 1]) /\ err' = err
      BY <2>1, <2>8, <3>1
    <3>3. written[Len(read) + 1] \in Frames
      BY <2>2, <3>1, WrittenOf
    <3>4. /\ read' \in Seq(Frames) /\ Len(read') = Len(read) + 1
          /\ \A i \in 1..Len(read) : read'[i] = read[i]
          /\ read'[Len(read) + 1] = written[Len(read) + 1]
      BY <2>2, <3>2, <3>3, AppendProperties
    <3>5. TypeInv'
      BY <2>1, <2>2, <2>6, <2>7, <3>2, <3>4 DEF TypeInv
    <3>6. ReadIntact'
      <4>1. ReadIntact /\ HeaderChecked
        BY DEF CodecInv
      <4>2. Len(read') <= Len(written')
        BY <2>1, <2>2, <3>1, <3>4
      <4>3. /\ ValidateVersion(written[Len(read) + 1].version)
            /\ Len(written[Len(read) + 1].payload) <= ReaderMax
        <5>1. ValidateVersion(header[3].byte) /\ ~(Uint(header) > ReaderMax)
          BY <2>1, <4>1 DEF HeaderChecked, HeaderError
        <5>2. header[3].byte = written[Len(read) + 1].version
          BY <3>1 DEF FrameRead, Frame
        <5>3. Uint(header) \in Nat /\ ReaderMax \in Nat
          BY <2>2, <2>3 DEF TypeInv, l, PayloadLen
        <5>4. QED
          BY <3>1, <5>1, <5>2, <5>3
      <4>4. ASSUME NEW i \in DOMAIN read'
            PROVE  /\ read'[i] = written'[i]
                   /\ Len(read'[i].payload) <= ReaderMax' /\ ValidateVersion(read'[i].version)
        <5>1. i \in 1..Len(read) \/ i = Len(read) + 1
          BY <2>2, <3>4, LenProperties
        <5>2. CASE i \in 1..Len(read)
          <6>1. i \in DOMAIN read
            BY <2>2, <5>2, LenProperties
          <6>2. QED
            BY <2>1, <2>2, <3>4, <4>1, <5>2, <6>1 DEF ReadIntact
        <5>3. CASE i = Len(read) + 1
          BY <2>1, <2>2, <3>4, <4>3, <5>3
        <5>4. QED
          BY <5>1, <5>2, <5>3
      <4>5. QED
        BY <4>2, <4>4 DEF ReadIntact, ValidateVersion
    <3>7. Cause'
      BY <2>1, <3>2 DEF Cause
    <3>8. \E g : Layout(g)'
      <4>1. LayoutOf(e, Len(read), written, Stream, cut, damaged)
        BY <2>4 DEF Layout
      <4>2. /\ Stream \in Seq(Symbols) /\ Len(Stream) = 6 + Len(wire)
            /\ \A k \in 1..Len(wire) : Stream[6 + k] = wire[k]
        BY <2>2, <2>3, StreamOf
      <4>3. Len(read) < Len(written) /\ e[Len(read) + 1] <= Len(Stream)
            /\ Len(Stream') = Len(Stream) - e[Len(read) + 1]
        BY <2>2, <2>3, <2>6, <2>7, <3>1, <4>2
      <4>4. ASSUME NEW k \in 1..Len(Stream')
            PROVE  Stream'[k] = Stream[e[Len(read) + 1] + k]
        <5>1. k \in 1..(Len(wire) - (l + 1)) /\ (l + 1) + k \in 1..Len(wire)
              /\ 6 + ((l + 1) + k) = e[Len(read) + 1] + k
          BY <2>2, <2>3, <2>6, <2>7, <3>1
        <5>2. QED
          BY <2>6, <2>7, <4>2, <5>1
      <4>5. \E g : LayoutOf(g, Len(read) + 1, written, Stream', cut, damaged)
        <5>1. /\ Len(read) \in Nat /\ written \in Seq(Frames) /\ damaged \in Nat
              /\ Stream \in Seq(Symbols) /\ Stream' \in Seq(Symbols)
          BY <2>2, <2>6, <2>7, <4>2
        <5>2. QED
          BY <4>1, <4>3, <4>4, <5>1, LayoutRead, Zenon
      <4>6. \E g : LayoutOf(g, Len(read'), written', Stream', cut', damaged')
        BY <2>1, <3>4, <4>5
      <4>7. QED
        BY <4>6 DEF Layout
    <3>9. QED
      BY <2>7, <3>5, <3>6, <3>7, <3>8 DEF CodecInv
  <2>9. CASE ~Match
    <3>1. err' = "checksum" /\ read' = read
      BY <2>1, <2>9
    <3>2. TypeInv'
      BY <2>1, <2>2, <2>6, <2>7, <3>1 DEF TypeInv, Errors
    <3>3. ReadIntact'
      <4>1. ReadIntact
        BY DEF CodecInv
      <4>2. QED
        BY <2>1, <2>2, <3>1, <4>1 DEF ReadIntact, ValidateVersion
    <3>4. damaged # 0
      BY <2>1, <2>2, <2>4, <2>9, ChecksumCause DEF l
    <3>5. Cause'
      BY <2>1, <2>2, <3>4 DEF Cause
    <3>6. QED
      BY <2>7, <3>1, <3>2, <3>3, <3>5 DEF CodecInv
  <2>10. QED
    BY <2>8, <2>9
<1>3. QED
  BY <1>1, <1>2

\* The invariant of the codec.
LEMMA CodecInvariant == Spec => []CodecInv
<1>1. CodecInv /\ [Next]_vars => CodecInv'
  <2> SUFFICES ASSUME CodecInv, [Next]_vars PROVE CodecInv'
    OBVIOUS
  <2>1. ASSUME NEW m \in Magics, NEW v \in Versions, NEW t \in Types, NEW p \in Payloads,
               WriteFrame(Frame(m, v, t, p)) \/ ForeignWrite(Frame(m, v, t, p))
        PROVE  CodecInv'
    <3>1. Frame(m, v, t, p) \in Frames /\ Frame(MagicBytes, v, t, p) \in Frames
      BY DEF Frame, Frames
    <3>2. [Frame(m, v, t, p) EXCEPT !.magic = MagicBytes] = Frame(MagicBytes, v, t, p)
      BY DEF Frame
    <3>3. Write(Frame(m, v, t, p)) \/ Write(Frame(MagicBytes, v, t, p))
      BY <2>1, <3>2, Zenon DEF WriteFrame, ForeignWrite
    <3>4. QED
      BY <3>1, <3>3, WriteStep
  <2>2. CASE UNCHANGED vars
    <3>1. HeaderChecked' /\ ReadIntact' /\ ReaderMax' = ReaderMax
      BY <2>2, Kept DEF vars
    <3>2. TypeInv' /\ Cause'
      BY <2>2, <3>1 DEF CodecInv, TypeInv, Cause, vars, ValidateVersion
    <3>3. (\E e : Layout(e)) => \E e : Layout(e)'
      <4>1. Stream' = Stream
        BY <2>2 DEF Stream, vars
      <4>2. ASSUME NEW e, Layout(e)
            PROVE  LayoutOf(e, Len(read'), written', Stream', cut', damaged')
        BY <2>2, <4>1, <4>2 DEF Layout, vars
      <4>3. QED
        BY <4>2 DEF Layout
    <3>4. QED
      BY <2>2, <3>1, <3>2, <3>3 DEF CodecInv, vars
  <2>3. QED
    BY <2>1, <2>2, DamageStep, CutStep, ReadHeaderStep, ReadRemainderStep DEF Next
<1>2. QED
  BY <1>1, InitCodec, PTL DEF Spec

------------------------------------------------------------------------------
(* What the invariant says                                                 *)

\* ReadFrame of internal/protocol/frame.go returns exactly the frames written, in
\* order and within its limit, however many of them, whatever is damaged or cut.
THEOREM IntactPrefixCorrect == Spec => []IntactPrefix
<1>1. CodecInv => IntactPrefix
  <2> SUFFICES ASSUME CodecInv PROVE IntactPrefix
    OBVIOUS
  <2>1. /\ read \in Seq(Frames) /\ written \in Seq(Frames)
        /\ Len(read) \in Nat /\ Len(written) \in Nat /\ DOMAIN read = 1..Len(read)
        /\ ReadIntact
    BY LenProperties DEF CodecInv, TypeInv
  <2>2. Len(read) \in 0..Len(written) /\ Len(read) \in 0..Len(read)
    BY <2>1 DEF ReadIntact
  <2>3. /\ SubSeq(read, 1, Len(read)) \in Seq(Frames)
        /\ Len(SubSeq(read, 1, Len(read))) = Len(read)
        /\ \A i \in 1..Len(read) : SubSeq(read, 1, Len(read))[i] = read[i]
    BY <2>1, <2>2, PrefixOf
  <2>4. /\ SubSeq(written, 1, Len(read)) \in Seq(Frames)
        /\ Len(SubSeq(written, 1, Len(read))) = Len(read)
        /\ \A i \in 1..Len(read) : SubSeq(written, 1, Len(read))[i] = written[i]
    BY <2>1, <2>2, PrefixOf
  <2>5. SubSeq(read, 1, Len(read)) = SubSeq(written, 1, Len(read))
    BY <2>1, <2>3, <2>4, SeqEqual DEF ReadIntact
  <2>6. QED
    BY <2>1, <2>5 DEF ReadIntact, IntactPrefix
<1>2. QED
  BY <1>1, CodecInvariant, PTL

\* An error of ReadFrame has a cause: damage, a cut, another magic or version or a
\* payload above the limit.
THEOREM ErrorHasCauseCorrect == Spec => []ErrorHasCause
<1>1. CodecInv => ErrorHasCause
  BY DEF CodecInv, Cause, ErrorHasCause
<1>2. QED
  BY <1>1, CodecInvariant, PTL

------------------------------------------------------------------------------
(* The two decoders                                                        *)

\* The first n symbols of the stream.
LEMMA OpeningOf ==
    ASSUME TypeInv, NEW n \in 0..Len(Stream)
    PROVE  /\ Opening(n) \in Seq(Symbols) /\ Len(Opening(n)) = n
           /\ \A i \in 1..n : Opening(n)[i] = Stream[i]
<1>1. Stream \in Seq(Symbols)
  BY StreamOf
<1>2. Opening(n) = SubSeq(Stream, 1, n)
  BY DEF Opening, Stream
<1>3. QED
  BY <1>1, <1>2, PrefixOf, Zenon

\* What Unmarshal asks of data.
Accepted(data) ==
    /\ data[1].byte = MagicByte1 /\ data[2].byte = MagicByte2
    /\ data[3].byte = ProtocolVersion /\ ~(Uint(data) > DefaultMaxSize)

\* Unmarshal accepts data of the right length, with a header that is accepted and
\* the right checksum, and no other.
LEMMA UnmarshalNone ==
    ASSUME NEW data \in Seq(Symbols)
    PROVE  Unmarshal(data) = "none" <=>
               /\ Len(data) >= 7 /\ Accepted(data) /\ Len(data) = 7 + Uint(data)
               /\ data[Len(data)] = Checksum(SubSeq(data, 1, 6 + Uint(data)))
<1>1. MinFrameSize = 7 /\ FrameHeaderSize = 6
  BY DEF MinFrameSize, FrameHeaderSize, CRCSize
<1>2. Len(data) < 7 <=> ~(Len(data) >= 7)
  BY LenProperties
<1>3. QED
  BY <1>1, <1>2, Zenon DEF Unmarshal, Accepted

\* With the default limit, ReadFrame's checks of a header and those of Unmarshal
\* come to the same.
LEMMA HeadersAgree ==
    ASSUME ReaderMax = DefaultMaxSize, NEW h, NEW data,
           h[1] = data[1], h[2] = data[2], h[3] = data[3], h[5] = data[5], h[6] = data[6]
    PROVE  Uint(h) = Uint(data) /\ (HeaderError(h) = "none" <=> Accepted(data))
<1>1. Uint(h) = Uint(data)
  BY DEF Uint
<1>2. ValidateVersion(h[3].byte) <=> data[3].byte = ProtocolVersion
  BY DEF ValidateVersion, SupportedVersions, ProtocolVersion
<1>3. HeaderError(h) = "none" <=> Accepted(data)
  BY <1>1, <1>2, Zenon DEF HeaderError, Accepted
<1>4. QED
  BY <1>1, <1>3

\* What ReadFrame takes of a whole frame: its header, its payload, its checksum.
LEMMA WholeFrame ==
    ASSUME TypeInv, header # <<>>, Len(wire) >= PayloadLen + 1
    PROVE  /\ PayloadLen \in Nat /\ 7 + PayloadLen \in 0..Len(Stream)
           /\ Opening(7 + PayloadLen)[7 + PayloadLen] = wire[PayloadLen + 1]
           /\ SubSeq(Opening(7 + PayloadLen), 1, 6 + PayloadLen) =
                 header \o SubSeq(wire, 1, PayloadLen)
<1> DEFINE l == PayloadLen
           s == header \o SubSeq(wire, 1, l)
           data == Opening(7 + l)
           front == SubSeq(data, 1, 6 + l)
<1>1. /\ l \in Nat /\ s \in Seq(Symbols) /\ Len(s) = 6 + l
      /\ \A p \in 1..(6 + l) : s[p] = Stream[p]
      /\ Len(Stream) >= 7 + l /\ Stream[7 + l] = wire[l + 1]
  BY TakenOf
<1>2. Len(Stream) \in Nat
  BY StreamOf
<1> HIDE DEF l
<1>3. 7 + l \in 0..Len(Stream) /\ 7 + l \in 1..(7 + l) /\ 6 + l \in 0..(7 + l)
      /\ \A p \in 1..(6 + l) : p \in 1..(7 + l)
  BY <1>1, <1>2
<1>4. data \in Seq(Symbols) /\ Len(data) = 7 + l /\ \A i \in 1..(7 + l) : data[i] = Stream[i]
  BY <1>3, OpeningOf, Zenon
<1> HIDE DEF data
<1>5. /\ front \in Seq(Symbols) /\ Len(front) = 6 + l
      /\ \A p \in 1..(6 + l) : front[p] = data[p]
  BY <1>3, <1>4, PrefixOf, Zenon
<1> HIDE DEF front, s
<1>6. \A p \in 1..Len(front) : front[p] = s[p]
  BY <1>1, <1>3, <1>4, <1>5, Zenon
<1>7. front = s
  BY <1>1, <1>5, <1>6, SeqEqual, Zenon
<1>8. data[7 + l] = wire[l + 1]
  BY <1>1, <1>3, <1>4, Zenon
<1>9. QED
  BY <1>1, <1>3, <1>7, <1>8, Zenon DEF l, s, data, front

\* A beginning of the stream that holds a header.
LEMMA HeaderOpening ==
    ASSUME TypeInv, NEW n \in 0..Len(Stream), n >= 7
    PROVE  LET data == Opening(n)
           IN  \A i \in 1..6 : data[i] = IF header = <<>> THEN wire[i] ELSE header[i]
<1>1. \A i \in 1..n : Opening(n)[i] = Stream[i]
  BY OpeningOf
<1>2. \A i \in 1..6 : i \in 1..n
  BY StreamOf
<1>3. CASE header = <<>>
  <2>1. Stream = wire
    BY <1>3, ConcatEmptySeq DEF Stream, TypeInv
  <2>2. QED
    BY <1>1, <1>2, <1>3, <2>1, Zenon
<1>4. CASE header # <<>>
  <2>1. Len(header) = 6
    BY <1>4, EmptySeq, LenProperties DEF TypeInv, FrameHeaderSize
  <2>2. \A i \in 1..6 : Stream[i] = header[i]
    BY <2>1, StreamOf
  <2>3. QED
    BY <1>1, <1>2, <1>4, <2>2, Zenon
<1>5. QED
  BY <1>3, <1>4, Zenon

\* The same for the symbols that are checked, one by one.
LEMMA HeaderSymbols ==
    ASSUME TypeInv, NEW n \in 0..Len(Stream), n >= 7, NEW h,
           h = IF header = <<>> THEN wire ELSE header
    PROVE  /\ h[1] = Opening(n)[1] /\ h[2] = Opening(n)[2] /\ h[3] = Opening(n)[3]
           /\ h[5] = Opening(n)[5] /\ h[6] = Opening(n)[6]
<1> DEFINE Same(i) == h[i] = Opening(n)[i]
<1>1. \A i \in 1..6 : Same(i)
  BY HeaderOpening, Zenon
<1> HIDE DEF Same
<1>2. Same(1) /\ Same(2) /\ Same(3) /\ Same(5) /\ Same(6)
  BY <1>1
<1>3. QED
  BY <1>2 DEF Same

\* When ReadFrame fails, Unmarshal accepts no beginning of what has arrived.
LEMMA FailureAgrees ==
    ASSUME CodecInv, ReaderMax = DefaultMaxSize, ReadHeader \/ ReadRemainder, err' # err,
           NEW n \in 0..Len(Stream)
    PROVE  Unmarshal(Opening(n)) # "none"
<1> SUFFICES ASSUME Unmarshal(Opening(n)) = "none" PROVE FALSE
  OBVIOUS
<1> DEFINE data == Opening(n)
           h == IF header = <<>> THEN wire ELSE header
<1>1. /\ TypeInv /\ data \in Seq(Symbols) /\ Len(data) = n
  BY OpeningOf DEF CodecInv
<1>2. /\ Len(Stream) = Len(header) + Len(wire) /\ Len(wire) \in Nat /\ Len(Stream) \in Nat
      /\ Len(header) \in Nat
  BY <1>1, StreamOf
<1>3. /\ n >= 7 /\ Accepted(data) /\ n = 7 + Uint(data)
      /\ data[n] = Checksum(SubSeq(data, 1, 6 + Uint(data)))
  BY <1>1, UnmarshalNone
<1>4. /\ h[1] = data[1] /\ h[2] = data[2] /\ h[3] = data[3]
      /\ h[5] = data[5] /\ h[6] = data[6]
  BY <1>1, <1>3, HeaderSymbols
<1> HIDE DEF h, data
<1>5. Uint(h) = Uint(data) /\ HeaderError(h) = "none"
  BY <1>3, <1>4, HeadersAgree
<1>6. CASE ReadHeader
  <2>1. header = <<>> /\ err = "none" /\ h = wire
    BY <1>6 DEF ReadHeader, h
  <2>2. Len(header) = 0 /\ ~(Len(wire) < 6)
    BY <1>2, <1>3, <2>1, EmptySeq
  <2>3. err' = HeaderError(wire)
    BY <1>6, <2>2 DEF ReadHeader, ShortRead, FrameHeaderSize
  <2>4. QED
    BY <1>5, <2>1, <2>3
<1>7. CASE ReadRemainder
  <2>1. header # <<>> /\ err = "none" /\ h = header
    BY <1>7 DEF ReadRemainder, ReadRest, h
  <2>2. Len(header) = 6
    BY <1>1, <2>1, EmptySeq, LenProperties DEF TypeInv, FrameHeaderSize
  <2>3. Uint(data) = PayloadLen
    BY <1>5, <2>1 DEF PayloadLen
  <2>4. Uint(data) \in Nat
    BY <1>1, <1>3, UintNat
  <2>5. Len(wire) >= PayloadLen + 1
    BY <1>2, <1>3, <2>2, <2>3, <2>4
  <2>6. ~(Len(wire) < PayloadLen + 1)
    BY <1>2, <2>3, <2>4, <2>5
  <2>7. wire[PayloadLen + 1] # Checksum(header \o SubSeq(wire, 1, PayloadLen))
    BY <1>7, <2>6 DEF ReadRemainder, ReadRest, ShortRead, CRCSize
  <2>8. /\ data[n] = wire[PayloadLen + 1]
        /\ SubSeq(data, 1, 6 + PayloadLen) = header \o SubSeq(wire, 1, PayloadLen)
    BY <1>1, <1>3, <2>1, <2>3, <2>5, WholeFrame, Zenon DEF data
  <2>9. QED
    BY <1>3, <2>3, <2>7, <2>8, Zenon
<1>8. QED
  BY <1>6, <1>7

\* When ReadFrame returns a frame, Unmarshal accepts its bytes.
LEMMA SuccessAgrees ==
    ASSUME CodecInv, ReaderMax = DefaultMaxSize, ReadHeader \/ ReadRemainder, read' # read
    PROVE  Unmarshal(Opening(Len(Stream) - Len(wire'))) = "none"
<1> DEFINE l == PayloadLen
           data == Opening(7 + l)
<1>1. /\ TypeInv /\ wire \in Seq(Symbols) /\ Len(wire) \in Nat /\ HeaderChecked
  BY LenProperties DEF CodecInv, TypeInv
<1>2. /\ header # <<>> /\ Len(wire) >= l + 1
      /\ wire' = SubSeq(wire, (l + 1) + 1, Len(wire))
      /\ wire[l + 1] = Checksum(header \o SubSeq(wire, 1, l))
  BY DEF ReadHeader, ReadRemainder, ReadRest, ShortRead, CRCSize, Consume
<1>3. /\ l \in Nat /\ 7 + l \in 0..Len(Stream) /\ data[7 + l] = wire[l + 1]
      /\ SubSeq(data, 1, 6 + l) = header \o SubSeq(wire, 1, l)
  BY <1>1, <1>2, WholeFrame, Zenon
<1>4. Len(header) = 6 /\ Len(Stream) = Len(header) + Len(wire)
  BY <1>1, <1>2, StreamOf, EmptySeq, LenProperties DEF TypeInv, FrameHeaderSize
<1>5. data \in Seq(Symbols) /\ Len(data) = 7 + l
  BY <1>1, <1>3, OpeningOf, Zenon
<1>6. /\ header[1] = data[1] /\ header[2] = data[2] /\ header[3] = data[3]
      /\ header[5] = data[5] /\ header[6] = data[6]
  <2>1. 7 + l >= 7
    BY <1>3
  <2>2. header = IF header = <<>> THEN wire ELSE header
    BY <1>2
  <2>3. QED
    BY <1>1, <1>3, <2>1, <2>2, HeaderSymbols, Zenon
<1> HIDE DEF data
<1>7. Uint(data) = l /\ Accepted(data)
  <2>1. HeaderError(header) = "none"
    BY <1>1, <1>2 DEF HeaderChecked
  <2>2. QED
    BY <1>6, <2>1, HeadersAgree, Zenon DEF PayloadLen
<1>8. Len(Stream) - Len(wire') = 7 + l
  <2>1. l + 1 \in 0..Len(wire)
    BY <1>1, <1>2, <1>3
  <2>2. Len(wire') = Len(wire) - (l + 1)
    BY <1>1, <1>2, <2>1, SuffixOf
  <2>3. QED
    BY <1>1, <1>3, <1>4, <2>2
<1>9. Len(data) >= 7
  BY <1>3, <1>5
<1>10. Unmarshal(data) = "none"
  BY <1>2, <1>3, <1>5, <1>7, <1>9, UnmarshalNone, Zenon
<1>11. QED
  BY <1>8, <1>10, Zenon DEF data

\* The two decoders of frame.go agree: Unmarshal accepts exactly the frames that
\* ReadFrame with the default limit returns, whatever peers write and the network
\* damages or cuts.
THEOREM DecodersAgreeCorrect == Spec => DecodersAgree
<1> DEFINE Agree ==
        ReaderMax = DefaultMaxSize =>
          /\ read' # read => Unmarshal(Opening(Len(header \o wire) - Len(wire'))) = "none"
          /\ err' # err => \A n \in 0..Len(header \o wire) : Unmarshal(Opening(n)) # "none"
<1>1. CodecInv /\ [Next]_vars => [Agree]_vars
  <2> SUFFICES ASSUME CodecInv, [Next]_vars, ReaderMax = DefaultMaxSize,
                      read' # read \/ err' # err
               PROVE  Agree
    OBVIOUS
  <2>1. ReadHeader \/ ReadRemainder
    BY Zenon DEF Next, vars, Write, WriteFrame, ForeignWrite, Damage, Cut
  <2>2. QED
    BY <2>1, SuccessAgrees, FailureAgrees, Zenon DEF Stream
<1>2. QED
  BY <1>1, CodecInvariant, PTL DEF Spec, DecodersAgree

================================================================================
