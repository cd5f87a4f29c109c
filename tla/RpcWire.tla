------------------------------- MODULE RpcWire -------------------------------
(***************************************************************************)
(* The way of one message from the sender's payload to the receiver's      *)
(* handler: rpc_typed_envelope::serialize_data, the outgoing compression   *)
(* filters, rpc_envelope::send, the connection, parse_header,              *)
(* parse_payload, the incoming filters.                                    *)
(*                                                                         *)
(* A body is its data under a codec, whole or damaged.  A checksum stands  *)
(* for the body it was computed from (xxhash is taken to tell the bodies   *)
(* apart) and says whether its 32 bits are zero.                           *)
(***************************************************************************)
EXTENDS Naturals, Sequences, SequencesExt

CONSTANTS
  Data,      \* the payloads
  Size,      \* Size[c][d]: bytes of payload d under codec c
  ZeroSum,   \* <<c, d>>: payload d under codec c has a checksum of zero
  MinSize,   \* min_compression_size of the filters
  MaxBuffer, \* max_flatbuffers_size
  MaxFilters \* bound: filters on either side

Codec == {"zstd", "lz4"}
Flag == {"none", "disabled"} \cup Codec

\* compression_flags is a signed byte: values below and above the enumeration.
Unknown == {"below", "above"}

ASSUME WireAssumption ==
  /\ Size \in [{"none"} \cup Codec -> [Data -> Nat \ {0}]]
  /\ ZeroSum \subseteq ({"none"} \cup Codec) \X Data
  /\ MinSize \in Nat /\ MaxBuffer \in Nat /\ MaxFilters \in Nat

VARIABLES
  stage,    \* where the message is
  hdr,      \* rpc::header
  body,     \* letter.body, then payload
  out,      \* outgoing filters still to be applied
  in,       \* incoming filters still to be applied
  sent,     \* what the sender put in
  codecs    \* the codecs the receiver can undo

vars == <<stage, hdr, body, out, in, sent, codecs>>

NoBody == [codec |-> "none", data |-> "nothing", whole |-> FALSE]
NoSum == [of |-> NoBody, zero |-> TRUE]

(* rpc_checksum_payload and checksum_rpc.                                  *)
Checksum(b) == [of |-> b, zero |-> <<b.codec, b.data>> \in ZeroSum]
BodySize(b) == Size[b.codec][b.data]

\* Mutant: the size of the body before it was replaced stays in the header.
ChecksumRpcOldSize(h, b) == [h EXCEPT !.checksum = Checksum(b)]

ChecksumRpc(h, b) ==
  [compression |-> h.compression, size |-> BodySize(b), checksum |-> Checksum(b),
   meta |-> h.meta, headers |-> h.headers]

(* A letter as the sender's code leaves it: meta is the request id or the    *)
(* status, the compression flag says whether filters may compress, and       *)
(* headers is the bit has_payload_headers.  The flags of a sender of another  *)
(* version may be unknown here.                                              *)
Init ==
  /\ stage = "built"
  /\ \E d \in Data, c \in {"none", "disabled"} \cup Unknown, m \in {0, 200},
        p \in BOOLEAN :
       /\ sent = [data |-> d, compression |-> c, meta |-> m, headers |-> p]
       /\ body = [codec |-> "none", data |-> d, whole |-> TRUE]
       /\ hdr = [compression |-> c, size |-> 0, checksum |-> NoSum, meta |-> m,
                 headers |-> p]
  /\ out \in SeqOf(Codec, MaxFilters)
  /\ in \in SeqOf(Codec, MaxFilters)
  /\ codecs = ToSet(in)

\* serialize_data
Serialize ==
  /\ stage = "built"
  /\ hdr' = ChecksumRpc(hdr, body)
  /\ stage' = "out"
  /\ UNCHANGED <<body, out, in, sent, codecs>>

\* Mutant: a filter does not look whether another one compressed already.
CompressesAlways(c, h, b) == BodySize(b) > MinSize

\* When a compression filter compresses.
Compresses(c, h, b) == h.compression = "none" /\ BodySize(b) > MinSize

\* zstd_compression_filter, lz4_compression_filter, applied by rpc_filter_apply.
OutFilter ==
  /\ stage = "out" /\ out # <<>>
  /\ out' = Tail(out)
  /\ LET c == Head(out)
         packed == [body EXCEPT !.codec = c]
     IN IF Compresses(c, hdr, body)
        THEN /\ body' = packed
             /\ hdr' = ChecksumRpc([hdr EXCEPT !.compression = c], packed)
        ELSE UNCHANGED <<body, hdr>>
  /\ UNCHANGED <<stage, in, sent, codecs>>

\* rpc_envelope::send; on the connection the body may be damaged.
Send ==
  /\ stage = "out" /\ out = <<>>
  /\ stage' = "wire"
  /\ \E w \in BOOLEAN : body' = [body EXCEPT !.whole = w]
  /\ UNCHANGED <<hdr, out, in, sent, codecs>>

\* The connection ends and read_exactly returns less than it was asked for.
ReadShort ==
  /\ stage \in {"wire", "header"}
  /\ stage' = "lost"
  /\ UNCHANGED <<hdr, body, out, in, sent, codecs>>

\* parse_header's checks; only the upper end of the enumeration is looked at.
HeaderAccepted(h) ==
  h.size # 0 /\ h.compression # "above" /\ ~h.checksum.zero /\ h.meta > 0

\* Mutant: "disabled" stays.
ParseHeaderKeepsFlag ==
  /\ stage = "wire"
  /\ stage' = IF HeaderAccepted(hdr) THEN "header" ELSE "refused"
  /\ UNCHANGED <<hdr, body, out, in, sent, codecs>>

\* parse_header: "disabled" has served its purpose and becomes "none".
ParseHeader ==
  /\ stage = "wire"
  /\ IF HeaderAccepted(hdr)
     THEN /\ stage' = "header"
          /\ hdr' = [hdr EXCEPT !.compression = IF @ = "disabled" THEN "none" ELSE @]
     ELSE stage' = "refused" /\ UNCHANGED hdr
  /\ UNCHANGED <<body, out, in, sent, codecs>>

\* Mutant: the checksum is not compared.
PayloadAcceptedUnchecked(h, b) == h.size = BodySize(b) /\ h.size <= MaxBuffer /\ ~h.headers

PayloadAccepted(h, b) ==
  h.size = BodySize(b) /\ h.size <= MaxBuffer /\ ~h.headers /\ h.checksum = Checksum(b)

\* parse_payload
ParsePayload ==
  /\ stage = "header"
  /\ stage' = IF PayloadAccepted(hdr, body) THEN "in" ELSE "refused"
  /\ UNCHANGED <<hdr, body, out, in, sent, codecs>>

\* What a decompression filter makes of the header.
UnpackedHeader(h, b) == ChecksumRpc([h EXCEPT !.compression = "none"], b)

\* zstd_decompression_filter, lz4_decompression_filter.
InFilter ==
  /\ stage = "in" /\ in # <<>>
  /\ in' = Tail(in)
  /\ LET plain == [body EXCEPT !.codec = "none"]
     IN IF hdr.compression # Head(in)
        THEN UNCHANGED <<stage, body, hdr>>
        ELSE IF body.codec # Head(in)
        THEN stage' = "thrown" /\ UNCHANGED <<body, hdr>>
        ELSE body' = plain /\ hdr' = UnpackedHeader(hdr, plain) /\ UNCHANGED stage
  /\ UNCHANGED <<out, sent, codecs>>

\* The check after the filters, in do_dispatch_rpc and in raw_send.
Deliver ==
  /\ stage = "in" /\ in = <<>>
  /\ stage' = IF hdr.compression = "none" THEN "delivered" ELSE "foreign"
  /\ UNCHANGED <<hdr, body, out, in, sent, codecs>>

Next ==
  \/ Serialize \/ OutFilter \/ Send \/ ReadShort \/ ParseHeader \/ ParsePayload
  \/ InFilter \/ Deliver

Spec == Init /\ [][Next]_vars

-----------------------------------------------------------------------------
(* Properties.                                                             *)

\* What reaches the handler is what was sent, plain, with a header that fits it,
\* whatever the filters on both sides and whatever happened on the way; a flag
\* that this version does not know never gets there.
DeliveredIntact ==
  stage = "delivered" =>
    /\ body = [codec |-> "none", data |-> sent.data, whole |-> TRUE]
    /\ hdr = ChecksumRpc([compression |-> "none", size |-> 0, checksum |-> NoSum,
                          meta |-> sent.meta, headers |-> FALSE], body)
    /\ sent.compression \notin Unknown /\ ~sent.headers

\* The header fits the body whenever code outside of this module sees them (the
\* assertion in the constructor of rpc_recv_context): compress, decompress and
\* checksum stay in step.
HeaderFitsBody ==
  stage \in {"out", "in", "delivered", "foreign"} =>
    /\ hdr.size = BodySize(body) /\ hdr.checksum = Checksum(body)
    /\ hdr.compression \in Codec \/ body.codec \in Codec => hdr.compression = body.codec

\* A sender that turned compression off is not compressed, and neither is a letter
\* whose flag the filters do not know.
DisabledStaysPlain == sent.compression # "none" => body.codec = "none"

\* Neither side's filters spoil a message: it is refused only if it was damaged or
\* if what the sender left in it is refused (no meta, an extension this version
\* does not know) or what is on the wire has a checksum of zero or is too large.
\* It ends before the handler only if the receiver lacks the filter or does not know
\* the flag, and no decompression fails.
Extension == sent.headers \/ sent.compression = "above"
RefusedForCause ==
  /\ stage = "refused" => \/ ~body.whole \/ sent.meta = 0 \/ Extension
                          \/ <<body.codec, sent.data>> \in ZeroSum
                          \/ Size[body.codec][sent.data] > MaxBuffer
  /\ stage = "foreign" => body.codec \in Codec \ codecs \/ sent.compression = "below"
  /\ stage # "thrown"

\* "optional fully parsed request, iff the request is supported"
\* (rpc_recv_context.h): parse_header and parse_payload take every message that
\* arrives undamaged, is not too large, uses no extension and has a request id or
\* a status.
SupportedIsParsed ==
  stage = "refused" => ~body.whole \/ sent.meta = 0 \/ Extension \/ hdr.size > MaxBuffer

\* "Typically follows HTTP style. Not imposed by smf whatsoever." (the comment
\* smfc puts into every generated method): a reply gets through whether its
\* handler set a status or not.
StatusNotImposed ==
  stage = "refused" =>
    ~body.whole \/ Extension \/ hdr.checksum.zero \/ hdr.size > MaxBuffer
=============================================================================
