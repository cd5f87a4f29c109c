---------------------------- MODULE RpcWireProofs ----------------------------
(***************************************************************************)
(* Proofs that a message is delivered as it was sent, for all payloads,    *)
(* codec sizes and filter chains of any length.                            *)
(***************************************************************************)
EXTENDS RpcWire, TLAPS

Body == [codec : {"none"} \cup Codec, data : Data, whole : BOOLEAN]
Sum == [of : Body \cup {NoBody}, zero : BOOLEAN]
Header ==
  [compression : Flag \cup Unknown, size : Nat, checksum : Sum, meta : Nat,
   headers : BOOLEAN]
Sent ==
  [data : Data, compression : {"none", "disabled"} \cup Unknown, meta : Nat,
   headers : BOOLEAN]
Stage == {"built", "out", "wire", "header", "in", "delivered", "refused", "lost",
          "foreign", "thrown"}

Types ==
  /\ stage \in Stage /\ hdr \in Header /\ body \in Body /\ sent \in Sent
  /\ out \in Seq(Codec) /\ in \in Seq(Codec)

(* The header describes the body as it was before the connection.          *)
Fits ==
  IF stage = "built" THEN hdr.size = 0
  ELSE /\ hdr.size = BodySize(body)
       /\ hdr.checksum = Checksum([body EXCEPT !.whole = TRUE])

(* The flag names the codec of the body, and another one than "none" stays the *)
(* sender's until parse_header takes "disabled" away.                          *)
FlagFits ==
  /\ body.codec \in Codec => hdr.compression = body.codec /\ sent.compression = "none"
  /\ body.codec = "none" => hdr.compression \in {"none", "disabled"} \cup Unknown
  /\ sent.compression \in Unknown => hdr.compression = sent.compression
  /\ hdr.compression \in Unknown => sent.compression = hdr.compression
  /\ sent.compression = "disabled" /\ stage \in {"built", "out"} => hdr.compression = "disabled"
  /\ stage \in {"header", "in", "delivered", "foreign"} => hdr.compression \notin {"disabled", "above"}
  /\ stage = "delivered" => hdr.compression = "none"

(* Nothing changes what was sent, and damage does not get past the checksum. *)
Carried ==
  /\ body.data = sent.data /\ hdr.meta = sent.meta /\ hdr.headers = sent.headers
  /\ stage \in {"built", "out", "in", "delivered", "foreign"} => body.whole
  /\ stage \in {"in", "delivered", "foreign"} => ~sent.headers
  /\ stage # "thrown"
  /\ stage = "refused" => \/ ~body.whole \/ sent.meta = 0 \/ Extension
                          \/ hdr.checksum.zero \/ hdr.size > MaxBuffer

(* A filter for the codec is still to come, or there never was one.          *)
Undone ==
  /\ codecs \subseteq Codec
  /\ stage \notin {"in", "delivered", "foreign"} => codecs = ToSet(in)
  /\ stage = "in" /\ body.codec \in codecs => body.codec \in ToSet(in)
  /\ stage = "foreign" => body.codec \in Codec \ codecs \/ sent.compression = "below"

WireInv == Types /\ Fits /\ FlagFits /\ Carried /\ Undone

USE SMTT(10), SMTT(20), ZenonT(30), SMTT(60)

-----------------------------------------------------------------------------

(* The sizes of bodies are positive.                                       *)
LEMMA SizeType == ASSUME NEW b \in Body PROVE BodySize(b) \in Nat \ {0}
  BY WireAssumption DEF BodySize, Body, WireAssumption

(* A checksum is made of the body it is taken of.                          *)
LEMMA SumType == ASSUME NEW b \in Body PROVE Checksum(b) \in Sum
  BY DEF Checksum, Sum

(* checksum_rpc replaces size and checksum and nothing else.               *)
LEMMA ChecksumRpcType ==
  ASSUME NEW h \in Header, NEW b \in Body
  PROVE  /\ ChecksumRpc(h, b) \in Header
         /\ ChecksumRpc(h, b).size = BodySize(b)
         /\ ChecksumRpc(h, b).checksum = Checksum(b)
         /\ ChecksumRpc(h, b).compression = h.compression
         /\ ChecksumRpc(h, b).meta = h.meta
         /\ ChecksumRpc(h, b).headers = h.headers
  BY SizeType, SumType DEF ChecksumRpc, Header

(* The elements of a filter chain are its head and those of its tail.      *)
LEMMA ChainTail ==
  ASSUME NEW s \in Seq(Codec), s # <<>>
  PROVE  /\ Head(s) \in Codec /\ Tail(s) \in Seq(Codec)
         /\ ToSet(s) = {Head(s)} \cup ToSet(Tail(s))
<1>1. Head(s) \in Codec /\ Tail(s) \in Seq(Codec)
  OBVIOUS
<1>2. ASSUME NEW i \in 1 .. Len(s)
      PROVE  s[i] \in {Head(s)} \cup ToSet(Tail(s))
  <2>1. CASE i = 1
    BY <2>1
  <2>2. CASE i # 1
    <3>1. i - 1 \in 1 .. Len(Tail(s)) /\ Tail(s)[i - 1] = s[i]
      BY <2>2
    <3> QED BY <3>1 DEF ToSet
  <2> QED BY <2>1, <2>2
<1>3. ASSUME NEW i \in 1 .. Len(Tail(s))
      PROVE  Tail(s)[i] \in ToSet(s)
  <2>1. i + 1 \in 1 .. Len(s) /\ Tail(s)[i] = s[i + 1]
    OBVIOUS
  <2> QED BY <2>1 DEF ToSet
<1>4. Head(s) \in ToSet(s)
  <2>1. 1 \in 1 .. Len(s) /\ Head(s) = s[1]
    OBVIOUS
  <2> QED BY <2>1 DEF ToSet
<1>5. ToSet(s) \subseteq {Head(s)} \cup ToSet(Tail(s))
  BY <1>2 DEF ToSet
<1>6. ToSet(Tail(s)) \subseteq ToSet(s)
  BY <1>3 DEF ToSet
<1> QED BY <1>1, <1>4, <1>5, <1>6

(* In the initial state the letter is as the sender's code leaves it.      *)
LEMMA WireInit == Init => WireInv
<1> SUFFICES ASSUME Init PROVE WireInv
  OBVIOUS
<1>1. PICK d \in Data, c \in {"none", "disabled"} \cup Unknown, m \in {0, 200},
           p \in BOOLEAN :
        /\ sent = [data |-> d, compression |-> c, meta |-> m, headers |-> p]
        /\ body = [codec |-> "none", data |-> d, whole |-> TRUE]
        /\ hdr = [compression |-> c, size |-> 0, checksum |-> NoSum, meta |-> m,
                  headers |-> p]
  BY ZenonT(30) DEF Init
<1>2. out \in Seq(Codec) /\ in \in Seq(Codec)
  BY WireAssumption DEF Init, SeqOf, WireAssumption
<1>3. NoSum \in Sum
  BY DEF NoSum, Sum
<1>4. hdr \in Header
  BY <1>1, <1>3 DEF Header, Flag
<1>5. body \in Body /\ sent \in Sent
  BY <1>1 DEF Body, Sent
<1>6. Types
  BY <1>2, <1>4, <1>5 DEF Init, Types, Stage
<1>7. Fits
  BY <1>1 DEF Init, Fits
<1>8. FlagFits
  BY <1>1 DEF Init, FlagFits, Codec, Unknown
<1>9. Carried
  BY <1>1 DEF Init, Carried
<1>10. Undone
  <2>1. ToSet(in) \subseteq Codec
    BY <1>2 DEF ToSet
  <2> QED BY <2>1 DEF Init, Undone
<1> QED BY <1>6, <1>7, <1>8, <1>9, <1>10 DEF WireInv

(* Every step of the message keeps the invariant.                          *)
LEMMA WireNext == WireInv /\ [Next]_vars => WireInv'
<1> SUFFICES ASSUME WireInv, [Next]_vars PROVE WireInv'
  OBVIOUS
<1> USE DEF WireInv
<1>b. body \in Body /\ hdr \in Header /\ sent \in Sent /\ stage \in Stage
  BY DEF Types
<1>1. CASE Serialize
  <2>1. body.whole /\ [body EXCEPT !.whole = TRUE] = body
    BY <1>1, <1>b DEF Serialize, Carried, Body
  <2>2. hdr' \in Header /\ hdr'.size = BodySize(body) /\ hdr'.checksum = Checksum(body)
        /\ hdr'.compression = hdr.compression /\ hdr'.meta = hdr.meta
        /\ hdr'.headers = hdr.headers
    BY <1>1, <1>b, ChecksumRpcType DEF Serialize
  <2>3. Types'
    BY <1>1, <2>2 DEF Serialize, Types, Stage
  <2>4. Fits'
    BY <1>1, <2>1, <2>2, ZenonT(30) DEF Serialize, Fits, BodySize, Checksum
  <2>5. FlagFits'
    BY <1>1, <2>2 DEF Serialize, FlagFits
  <2>6. Carried'
    BY <1>1, <2>2 DEF Serialize, Carried, Extension
  <2>7. Undone'
    BY <1>1 DEF Serialize, Undone
  <2> QED BY <2>3, <2>4, <2>5, <2>6, <2>7
<1>2. CASE OutFilter
  <2> DEFINE c == Head(out)
             packed == [body EXCEPT !.codec = c]
             h == [hdr EXCEPT !.compression = c]
  <2>1. c \in Codec /\ Tail(out) \in Seq(Codec)
    BY <1>2, ChainTail DEF OutFilter, Types
  <2>2. CASE ~Compresses(c, hdr, body)
    <3>1. UNCHANGED <<body, hdr, stage, in, sent, codecs>> /\ out' = Tail(out)
      BY <1>2, <2>2 DEF OutFilter
    <3> QED BY <3>1, <2>1 DEF Types, Fits, FlagFits, Carried, Extension, Undone, BodySize, Checksum
  <2>3. CASE Compresses(c, hdr, body)
    <3>1. body' = packed /\ hdr' = ChecksumRpc(h, packed) /\ stage = "out"
          /\ UNCHANGED <<stage, in, sent, codecs>> /\ out' = Tail(out)
      BY <1>2, <2>3 DEF OutFilter
    <3>2. hdr.compression = "none" /\ body.whole
      BY <2>3, <3>1 DEF Compresses, Carried
    <3>3. packed \in Body /\ packed.codec = c /\ packed.data = body.data /\ packed.whole
          /\ [packed EXCEPT !.whole = TRUE] = packed
      BY <2>1, <1>b, <3>2, ZenonT(30) DEF Body
    <3>4. h \in Header /\ h.compression = c /\ h.meta = hdr.meta /\ h.headers = hdr.headers
      BY <2>1, <1>b DEF Header, Flag
    <3> HIDE DEF packed, h, c
    <3>5. hdr' \in Header /\ hdr'.size = BodySize(packed) /\ hdr'.checksum = Checksum(packed)
          /\ hdr'.compression = c /\ hdr'.meta = hdr.meta /\ hdr'.headers = hdr.headers
      BY <3>1, <3>3, <3>4, ChecksumRpcType
    <3>6. Types'
      BY <3>1, <3>3, <3>5, <2>1 DEF Types
    <3>7. Fits'
      BY <3>1, <3>3, <3>5, ZenonT(30) DEF Fits, BodySize, Checksum
    <3>8. FlagFits'
      BY <3>1, <3>2, <3>3, <3>5, <2>1, <1>b DEF FlagFits, Codec, Unknown, Sent
    <3>9. Carried'
      BY <3>1, <3>3, <3>5 DEF Carried, Extension
    <3>10. Undone'
      BY <3>1 DEF Undone
    <3> QED BY <3>6, <3>7, <3>8, <3>9, <3>10
  <2> QED BY <2>2, <2>3
<1>3. CASE Send
  <2>1. PICK w \in BOOLEAN : body' = [body EXCEPT !.whole = w]
    BY <1>3 DEF Send
  <2>2. body' \in Body /\ body'.codec = body.codec /\ body'.data = body.data
        /\ [body' EXCEPT !.whole = TRUE] = [body EXCEPT !.whole = TRUE]
    BY <2>1, <1>b, ZenonT(30) DEF Body
  <2>3. stage = "out" /\ stage' = "wire" /\ UNCHANGED <<hdr, out, in, sent, codecs>>
    BY <1>3 DEF Send
  <2>4. Types'
    BY <2>2, <2>3 DEF Types, Stage
  <2>5. Fits'
    BY <2>2, <2>3, ZenonT(30) DEF Fits, BodySize, Checksum
  <2>6. FlagFits'
    BY <2>2, <2>3 DEF FlagFits
  <2>7. Carried'
    BY <2>2, <2>3 DEF Carried, Extension
  <2>8. Undone'
    BY <2>3 DEF Undone
  <2> QED BY <2>4, <2>5, <2>6, <2>7, <2>8
<1>4. CASE ReadShort
  <2>1. stage # "built" /\ stage \notin {"in", "delivered", "foreign"} /\ stage' = "lost"
        /\ UNCHANGED <<hdr, body, out, in, sent, codecs>>
    BY <1>4 DEF ReadShort
  <2>2. Types' /\ FlagFits'
    BY <2>1 DEF Types, Stage, FlagFits
  <2>3. Fits'
    BY <2>1 DEF Fits, BodySize, Checksum
  <2>4. Carried' /\ Undone'
    BY <2>1 DEF Carried, Undone, Extension
  <2> QED BY <2>2, <2>3, <2>4
<1>5. CASE ParseHeader
  <2>1. stage = "wire" /\ UNCHANGED <<body, out, in, sent, codecs>>
    BY <1>5 DEF ParseHeader
  <2>2. hdr.size = BodySize(body) /\ hdr.checksum = Checksum([body EXCEPT !.whole = TRUE])
    BY <2>1 DEF Fits
  <2>3. CASE HeaderAccepted(hdr)
    <3>1. stage' = "header"
          /\ hdr' = [hdr EXCEPT !.compression = IF @ = "disabled" THEN "none" ELSE @]
      BY <1>5, <2>3 DEF ParseHeader
    <3>2. hdr' \in Header /\ hdr'.size = hdr.size /\ hdr'.checksum = hdr.checksum
          /\ hdr'.meta = hdr.meta /\ hdr'.headers = hdr.headers
          /\ hdr'.compression = (IF hdr.compression = "disabled" THEN "none" ELSE hdr.compression)
      BY <3>1, <1>b DEF Header, Flag
    <3>3. Types'
      BY <2>1, <3>1, <3>2 DEF Types, Stage
    <3>4. Fits'
      BY <2>1, <2>2, <3>1, <3>2 DEF Fits, BodySize, Checksum
    <3>5. FlagFits'
      BY <2>1, <2>3, <3>1, <3>2 DEF FlagFits, Codec, Unknown, HeaderAccepted
    <3>6. Carried' /\ Undone'
      BY <2>1, <3>1, <3>2 DEF Carried, Undone, Extension
    <3> QED BY <3>3, <3>4, <3>5, <3>6
  <2>4. CASE ~HeaderAccepted(hdr)
    <3>1. stage' = "refused" /\ hdr' = hdr
      BY <1>5, <2>4 DEF ParseHeader
    <3>2. hdr.size # 0
      BY <2>2, <1>b, SizeType
    <3>3. hdr.meta = 0 \/ hdr.checksum.zero \/ sent.compression = "above"
      BY <2>4, <3>2, <1>b DEF HeaderAccepted, Header, FlagFits, Unknown
    <3>4. Types' /\ FlagFits'
      BY <2>1, <3>1 DEF Types, Stage, FlagFits
    <3>5. Fits'
      BY <2>1, <2>2, <3>1 DEF Fits, BodySize, Checksum
    <3>6. Carried'
      BY <2>1, <3>1, <3>3 DEF Carried, Extension
    <3>7. Undone'
      BY <2>1, <3>1 DEF Undone
    <3> QED BY <3>4, <3>5, <3>6, <3>7
  <2> QED BY <2>3, <2>4
<1>6. CASE ParsePayload
  <2>1. stage = "header" /\ UNCHANGED <<hdr, body, out, in, sent, codecs>>
        /\ stage' = IF PayloadAccepted(hdr, body) THEN "in" ELSE "refused"
    BY <1>6 DEF ParsePayload
  <2>2. hdr.size = BodySize(body) /\ hdr.checksum = Checksum([body EXCEPT !.whole = TRUE])
    BY <2>1 DEF Fits
  <2>3. PayloadAccepted(hdr, body) => body.whole /\ ~hdr.headers
    <3>1. ASSUME PayloadAccepted(hdr, body) PROVE body = [body EXCEPT !.whole = TRUE]
      BY <3>1, <2>2 DEF PayloadAccepted, Checksum
    <3> QED BY <3>1, <1>b DEF Body, PayloadAccepted
  <2>4. body.whole /\ ~hdr.headers /\ ~(hdr.size > MaxBuffer) => PayloadAccepted(hdr, body)
    <3>1. body.whole => body = [body EXCEPT !.whole = TRUE]
      BY <1>b DEF Body
    <3>2. ~(hdr.size > MaxBuffer) => hdr.size <= MaxBuffer
      BY <1>b, WireAssumption DEF Header, WireAssumption
    <3> QED BY <3>1, <3>2, <2>2, ZenonT(30) DEF PayloadAccepted
  <2>5. Types' /\ FlagFits'
    BY <2>1 DEF Types, Stage, FlagFits
  <2>6. Fits'
    BY <2>1, <2>2 DEF Fits, BodySize, Checksum
  <2>7. Carried'
    BY <2>1, <2>3, <2>4 DEF Carried, Extension
  <2>8. Undone'
    BY <2>1 DEF Undone
  <2> QED BY <2>5, <2>6, <2>7, <2>8
<1>7. CASE InFilter
  <2>1. stage = "in" /\ in # <<>> /\ in' = Tail(in) /\ UNCHANGED <<out, sent, codecs>>
    BY <1>7 DEF InFilter
  <2>2. Head(in) \in Codec /\ Tail(in) \in Seq(Codec)
        /\ ToSet(in) = {Head(in)} \cup ToSet(Tail(in))
    BY <2>1, ChainTail DEF Types
  <2>3. hdr.size = BodySize(body) /\ hdr.checksum = Checksum([body EXCEPT !.whole = TRUE])
        /\ body.whole
    BY <2>1 DEF Fits, Carried
  <2>4. body.codec \in {"none"} \cup Codec
    BY <1>b DEF Body
  <2>5. CASE hdr.compression # Head(in)
    <3>1. UNCHANGED <<stage, body, hdr>>
      BY <1>7, <2>5 DEF InFilter
    <3>2. Types' /\ FlagFits'
      BY <2>1, <2>2, <3>1 DEF Types, FlagFits
    <3>3. Fits'
      BY <2>1, <2>3, <3>1 DEF Fits, BodySize, Checksum
    <3>4. Carried'
      BY <2>1, <3>1 DEF Carried, Extension
    <3>5. body.codec # Head(in)
      BY <2>2, <2>5 DEF FlagFits
    <3>6. Undone'
      BY <2>1, <2>2, <3>1, <3>5 DEF Undone
    <3> QED BY <3>2, <3>3, <3>4, <3>6
  <2>6. CASE hdr.compression = Head(in)
    <3> DEFINE plain == [body EXCEPT !.codec = "none"]
               h == [hdr EXCEPT !.compression = "none"]
    <3>1. body.codec = Head(in)
      BY <2>2, <2>4, <2>6 DEF FlagFits, Codec, Unknown
    <3>2. body' = plain /\ hdr' = ChecksumRpc(h, plain) /\ stage' = stage
      BY <1>7, <2>6, <3>1 DEF InFilter, UnpackedHeader
    <3>3. plain \in Body /\ plain.codec = "none" /\ plain.data = body.data /\ plain.whole
          /\ [plain EXCEPT !.whole = TRUE] = plain
      BY <2>3, <1>b, ZenonT(30) DEF Body
    <3>4. h \in Header /\ h.compression = "none" /\ h.meta = hdr.meta /\ h.headers = hdr.headers
      BY <1>b DEF Header, Flag
    <3> HIDE DEF plain, h
    <3>5. hdr' \in Header /\ hdr'.size = BodySize(plain) /\ hdr'.checksum = Checksum(plain)
          /\ hdr'.compression = "none" /\ hdr'.meta = hdr.meta /\ hdr'.headers = hdr.headers
      BY <3>2, <3>3, <3>4, ChecksumRpcType
    <3>6. Types'
      BY <2>1, <2>2, <3>2, <3>3, <3>5 DEF Types
    <3>7. Fits'
      BY <2>1, <3>2, <3>3, <3>5, ZenonT(30) DEF Fits, BodySize, Checksum
    <3>8. FlagFits'
      BY <2>1, <2>2, <3>1, <3>2, <3>3, <3>5 DEF FlagFits, Codec, Unknown
    <3>9. Carried'
      BY <2>1, <3>2, <3>3, <3>5 DEF Carried, Extension
    <3>10. codecs \subseteq Codec /\ "none" \notin Codec
      BY DEF Undone, Codec
    <3>11. Undone'
      BY <2>1, <3>2, <3>3, <3>10 DEF Undone
    <3> QED BY <3>6, <3>7, <3>8, <3>9, <3>11
  <2> QED BY <2>5, <2>6
<1>8. CASE Deliver
  <2>1. stage = "in" /\ in = <<>> /\ UNCHANGED <<hdr, body, out, in, sent, codecs>>
        /\ stage' = IF hdr.compression = "none" THEN "delivered" ELSE "foreign"
    BY <1>8 DEF Deliver
  <2>2. hdr.size = BodySize(body) /\ hdr.checksum = Checksum([body EXCEPT !.whole = TRUE])
    BY <2>1 DEF Fits
  <2>3. body.codec \in {"none"} \cup Codec
    BY <1>b DEF Body
  <2>4. ToSet(in) = {}
    BY <2>1 DEF ToSet
  <2>5. Types' /\ FlagFits'
    BY <2>1 DEF Types, Stage, FlagFits
  <2>6. Fits'
    BY <2>1, <2>2 DEF Fits, BodySize, Checksum
  <2>7. Carried'
    BY <2>1 DEF Carried, Extension
  <2>8. hdr.compression # "none" => body.codec \in Codec \/ sent.compression = "below"
    BY <2>1, <2>3 DEF FlagFits, Unknown
  <2>9. Undone'
    BY <2>1, <2>4, <2>8 DEF Undone
  <2> QED BY <2>5, <2>6, <2>7, <2>9
<1>9. CASE UNCHANGED vars
  BY <1>9 DEF vars, Types, Fits, FlagFits, Carried, Extension, Undone, BodySize, Checksum
<1> QED BY <1>1, <1>2, <1>3, <1>4, <1>5, <1>6, <1>7, <1>8, <1>9 DEF Next

-----------------------------------------------------------------------------

\* The invariant holds throughout.
THEOREM WireInvariance == Spec => []WireInv
  BY WireInit, WireNext, PTL DEF Spec

\* The handler gets what was sent, plain, for every pair of filter chains
\* (rpc_filter_apply on both sides, parse_header and parse_payload between).
THEOREM MessagesDeliveredIntact == Spec => []DeliveredIntact
<1>1. WireInv => DeliveredIntact
  <2> SUFFICES ASSUME WireInv, stage = "delivered"
               PROVE  /\ body = [codec |-> "none", data |-> sent.data, whole |-> TRUE]
                      /\ hdr = ChecksumRpc([compression |-> "none", size |-> 0,
                                            checksum |-> NoSum, meta |-> sent.meta,
                                            headers |-> FALSE], body)
                      /\ sent.compression \notin Unknown /\ ~sent.headers
    BY DEF DeliveredIntact
  <2>1. body \in Body /\ hdr \in Header
    BY DEF WireInv, Types
  <2>2. hdr.compression = "none" /\ body.codec \notin Codec
    BY DEF WireInv, FlagFits, Codec
  <2>3. body.whole /\ body.data = sent.data /\ hdr.meta = sent.meta /\ hdr.headers = FALSE
        /\ ~sent.headers
    BY <2>1 DEF WireInv, Carried, Header
  <2>4. body = [codec |-> "none", data |-> sent.data, whole |-> TRUE]
    BY <2>1, <2>2, <2>3 DEF Body
  <2>5. [body EXCEPT !.whole = TRUE] = body
    BY <2>1, <2>3 DEF Body
  <2>6. hdr.size = BodySize(body) /\ hdr.checksum = Checksum(body)
    BY <2>5, ZenonT(30) DEF WireInv, Fits
  <2>7. hdr = ChecksumRpc([compression |-> "none", size |-> 0, checksum |-> NoSum,
                           meta |-> sent.meta, headers |-> FALSE], body)
    BY <2>1, <2>2, <2>3, <2>6 DEF Header, ChecksumRpc
  <2>8. sent.compression \notin Unknown
    BY <2>2 DEF WireInv, FlagFits, Unknown
  <2> QED BY <2>3, <2>4, <2>7, <2>8
<1> QED BY <1>1, WireInvariance, PTL

\* Compression by any chain of filters keeps the header in step with the body.
THEOREM HeadersFitBodies == Spec => []HeaderFitsBody
<1>1. WireInv => HeaderFitsBody
  <2> SUFFICES ASSUME WireInv, stage \in {"out", "in", "delivered", "foreign"}
               PROVE  /\ hdr.size = BodySize(body) /\ hdr.checksum = Checksum(body)
                      /\ hdr.compression \in Codec \/ body.codec \in Codec
                           => hdr.compression = body.codec
    BY DEF HeaderFitsBody
  <2>1. [body EXCEPT !.whole = TRUE] = body
    BY DEF WireInv, Types, Carried, Body
  <2>2. hdr.size = BodySize(body) /\ hdr.checksum = Checksum(body)
    BY <2>1, ZenonT(30) DEF WireInv, Fits
  <2>3. body.codec \in {"none"} \cup Codec
    BY DEF WireInv, Types, Body
  <2>4. hdr.compression \in Codec \/ body.codec \in Codec => hdr.compression = body.codec
    BY <2>3 DEF WireInv, FlagFits, Codec, Unknown
  <2> QED BY <2>2, <2>4
<1> QED BY <1>1, WireInvariance, PTL

\* No chain of filters makes a message be refused or a decompression fail, for
\* chains of every length: a refusal has its cause in what the sender sent, in the
\* damage done on the way or in the form the message has on the wire.
THEOREM FiltersHarmless == Spec => []RefusedForCause
<1>1. WireInv => RefusedForCause
  <2> SUFFICES ASSUME WireInv PROVE RefusedForCause
    OBVIOUS
  <2>1. stage = "refused" => /\ hdr.size = Size[body.codec][sent.data]
                            /\ (hdr.checksum.zero => <<body.codec, sent.data>> \in ZeroSum)
    <3> SUFFICES ASSUME stage = "refused"
                 PROVE  /\ hdr.size = Size[body.codec][sent.data]
                        /\ (hdr.checksum.zero => <<body.codec, sent.data>> \in ZeroSum)
      OBVIOUS
    <3>1. body \in Body /\ body.data = sent.data
      BY DEF WireInv, Types, Carried
    <3> DEFINE b == [body EXCEPT !.whole = TRUE]
    <3>2. hdr.size = BodySize(body) /\ hdr.checksum = Checksum(b)
      BY DEF WireInv, Fits
    <3>3. b.codec = body.codec /\ b.data = body.data
      BY <3>1 DEF Body
    <3> HIDE DEF b
    <3>4. hdr.checksum.zero = (<<b.codec, b.data>> \in ZeroSum)
      BY <3>2 DEF Checksum
    <3> QED BY <3>1, <3>2, <3>3, <3>4, Zenon DEF BodySize
  <2> QED BY <2>1 DEF WireInv, Carried, Undone, RefusedForCause
<1> QED BY <1>1, WireInvariance, PTL

\* A letter whose sender set "disabled", or a flag the filters do not know, is plain
\* at every stage, and stays so when parse_header turns "disabled" into "none".
THEOREM DisabledNeverCompressed == Spec => []DisabledStaysPlain
<1>1. WireInv => DisabledStaysPlain
  BY DEF WireInv, Types, Body, FlagFits, DisabledStaysPlain
<1> QED BY <1>1, WireInvariance, PTL

=============================================================================
