----------------------------- MODULE FrameCodec -----------------------------
(***************************************************************************)
(* The wire format: BindHeader and BindFrame of src/src/frame.rs, the PFP  *)
(* extension of src/src/pfp.rs, the SAP extension of src/src/sap.rs and    *)
(* the payload of a KEY_ROTATION frame of src/src/rotation.rs.             *)
(* A byte is a number below 256, a buffer a sequence of bytes.  The enums  *)
(* of the PFP are their two-bit codes; PAH-Hash and PAH-Signature, which   *)
(* are copied as they are, are together ProofSize opaque bytes.            *)
(***************************************************************************)
EXTENDS Integers, Sequences

CONSTANTS
    MaxPayload,     \* MAX_PAYLOAD_SIZE (64 MB in the code)
    ProofSize,      \* PAH_SIZE + SIG_SIZE (22 in the code)
    NonceSize,      \* NONCE_SIZE (12 in the code)
    None

\* The limit fits in the four bytes of the header.
ASSUME MaxPayloadAssumption ==
    MaxPayload \in Nat /\ MaxPayload \div 16777216 < 256
ASSUME ProofSizeAssumption == ProofSize \in Nat /\ NonceSize \in Nat

Byte == 0 .. 255
Word == 0 .. 256 * 256 - 1
\* The bit of a weight: 1, 2, 4, 8, ...
Bit(n, w) == (n \div w) % 2 = 1
AsBit(b) == IF b THEN 1 ELSE 0

\* The bytes from + 1 .. from + n of a buffer.
Slice(buf, from, n) == SubSeq(buf, from + 1, from + n)

HeaderSize == 8
PfpSize == 4
SapSize == 6 + ProofSize
Magic == <<207, 20>>        \* FAMILY_MAGIC, 0xCF14
SapProtocolId == 1
SapVersion == 1
SeqRotationThreshold == 65534

\* The answers of the decoders.
Ok(value) == [ok |-> TRUE, value |-> value]
Err(error) == [ok |-> FALSE, error |-> error]

----------------------------------------------------------------------------
(* PFP *)

PfpHeader == [modality : 0 .. 3, risk_level : 0 .. 3, body_stance : 0 .. 3,
              proximity_edge : 0 .. 3, output_dest : BOOLEAN,
              override_flag : BOOLEAN, replay_enable : BOOLEAN,
              reserved : 0 .. 31]
ASSUME NoPfpAssumption == None \notin PfpHeader
Medium == 1
Catastrophic == 3

\* PfpHeader::new
PfpHeaderNew(modality, risk, stance, edge, dest, override, replay_enable) ==
    [modality |-> modality, risk_level |-> risk, body_stance |-> stance,
     proximity_edge |-> edge, output_dest |-> dest,
     override_flag |-> override, replay_enable |-> replay_enable,
     reserved |-> 0]

\* PfpHeader::encode: the reserved bits are never set.
Mutant_PfpEncode_FlagsSwapped(p) ==
    Magic \o
    <<p.modality + 4 * p.risk_level + 16 * p.body_stance
        + 64 * p.proximity_edge,
      AsBit(p.output_dest) + 4 * AsBit(p.override_flag)
        + 2 * AsBit(p.replay_enable)>>
PfpEncode(p) ==
    Magic \o
    <<p.modality + 4 * p.risk_level + 16 * p.body_stance
        + 64 * p.proximity_edge,
      AsBit(p.output_dest) + 2 * AsBit(p.override_flag)
        + 4 * AsBit(p.replay_enable)>>

PfpDecode(b) ==
    [modality |-> b[3] % 4, risk_level |-> (b[3] \div 4) % 4,
     body_stance |-> (b[3] \div 16) % 4, proximity_edge |-> b[3] \div 64,
     output_dest |-> Bit(b[4], 1), override_flag |-> Bit(b[4], 2),
     replay_enable |-> Bit(b[4], 4), reserved |-> b[4] \div 8]

\* verify_magic, of a PFP and of a SAP
VerifyMagic(b) == Slice(b, 0, 2) = Magic

IsCatastrophicOverride(p) == p.risk_level = Catastrophic /\ p.override_flag

\* PfpHeader::effective_risk_level (rule 6)
PfpRiskLevel(p) == IF p.replay_enable THEN p.risk_level ELSE Medium

HasUnknownReserved(p) == p.reserved # 0

----------------------------------------------------------------------------
(* SAP *)

SapHeader == [sap_version : 0 .. 15, seq_counter : Word,
              proof : [1 .. ProofSize -> Byte]]
ASSUME NoSapAssumption == None \notin SapHeader

\* SapHeader::new
SapHeaderNew(seq_counter, proof) ==
    [sap_version |-> SapVersion, seq_counter |-> seq_counter,
     proof |-> proof]

\* SapHeader::encode: the upper half of byte 3 is reserved and never set.
SapEncode(s) ==
    Magic \o <<SapProtocolId, s.sap_version % 16, s.seq_counter \div 256,
               s.seq_counter % 256>> \o s.proof

Mutant_SapDecode_LittleEndian(b) ==
    [sap_version |-> b[4] % 16, seq_counter |-> 256 * b[6] + b[5],
     proof |-> Slice(b, 6, ProofSize)]
SapDecode(b) ==
    [sap_version |-> b[4] % 16, seq_counter |-> 256 * b[5] + b[6],
     proof |-> Slice(b, 6, ProofSize)]

VerifyProtocolId(b) == b[3] = SapProtocolId

IsVersionCurrent(s) == s.sap_version = SapVersion
NeedsKeyRotation(s) == s.seq_counter >= SeqRotationThreshold

----------------------------------------------------------------------------
(* KeyRotationPayload *)

PayloadEncode(r) == r.nonce \o r.new_key_encrypted

Mutant_PayloadDecode_NoEmptyKey(buf) ==
    IF Len(buf) <= NonceSize THEN Err("PayloadTooShort")
    ELSE Ok([nonce |-> Slice(buf, 0, NonceSize),
             new_key_encrypted |-> Slice(buf, NonceSize,
                                         Len(buf) - NonceSize)])
PayloadDecode(buf) ==
    IF Len(buf) < NonceSize THEN Err("PayloadTooShort")
    ELSE Ok([nonce |-> Slice(buf, 0, NonceSize),
             new_key_encrypted |-> Slice(buf, NonceSize,
                                         Len(buf) - NonceSize)])

----------------------------------------------------------------------------
(* Header *)

KnownTypes == <<"Data", "Heartbeat", "Control", "Vector", "Handshake",
                "Error", "KeyRotation", "KeyRotationAck">>
FrameTypeFromByte(b) ==
    IF b \in 1 .. 8 THEN [name |-> KnownTypes[b]]
                    ELSE [name |-> "Unknown", byte |-> b]
FrameTypeToByte(t) ==
    IF t.name = "Unknown" THEN t.byte
                          ELSE CHOOSE b \in 1 .. 8 : KnownTypes[b] = t.name

\* BindHeader::new
BindHeaderNew(type, channel, flags, sequence, length) ==
    [frame_type |-> type, channel_id |-> channel, flags |-> flags,
     sequence_id |-> sequence, payload_length |-> length]

\* Flags.
IsFin(h) == Bit(h.flags, 1)
IsCon(h) == Bit(h.flags, 2)
IsSec(h) == Bit(h.flags, 4)
HasPfp(h) == Bit(h.flags, 8)
HasSap(h) == Bit(h.flags, 16)

\* The bytes of a four-byte number, most significant first.
U32Bytes(n) == <<n \div 16777216, (n \div 65536) % 256, (n \div 256) % 256,
                 n % 256>>
U32(a, b, c, d) == 16777216 * a + 65536 * b + 256 * c + d

HeaderEncode(h) ==
    <<FrameTypeToByte(h.frame_type), h.channel_id, h.flags, h.sequence_id>>
    \o U32Bytes(h.payload_length)

HeaderDecode(b) ==
    BindHeaderNew(FrameTypeFromByte(b[1]), b[2], b[3], b[4],
                  U32(b[5], b[6], b[7], b[8]))

ExtensionLength(h) == (IF HasPfp(h) THEN PfpSize ELSE 0)
                    + (IF HasSap(h) THEN SapSize ELSE 0)
TotalFrameLength(h) == HeaderSize + ExtensionLength(h) + h.payload_length

----------------------------------------------------------------------------
(* Frame *)

\* BindFrame::new
BindFrameNew(type, channel, sequence, pfp, sap, payload) ==
    IF Len(payload) > MaxPayload THEN Err("BufferOverflow")
    ELSE IF sap # None /\ pfp = None THEN Err("SapWithoutPfp")
    ELSE Ok([header |-> BindHeaderNew(type, channel,
                            8 * AsBit(pfp # None) + 16 * AsBit(sap # None),
                            sequence, Len(payload)),
             pfp |-> pfp, sap |-> sap, payload |-> payload])

\* BindFrame::new_v1
BindFrameNewV1(type, channel, sequence, payload) ==
    BindFrameNew(type, channel, sequence, None, None, payload)

\* BindFrame::encode goes by the extensions the frame has, not by its flags.
Encode(f) ==
    HeaderEncode(f.header)
    \o (IF f.pfp = None THEN <<>> ELSE PfpEncode(f.pfp))
    \o (IF f.sap = None THEN <<>> ELSE SapEncode(f.sap))
    \o f.payload

\* What decode makes of a buffer that is long enough.
Unpack(buf, h) ==
    LET pfp == Slice(buf, HeaderSize, PfpSize)
        sapAt == HeaderSize + IF HasPfp(h) THEN PfpSize ELSE 0
        sap == Slice(buf, sapAt, SapSize)
    IN  [header |-> h,
         pfp |-> IF HasPfp(h) THEN PfpDecode(pfp) ELSE None,
         sap |-> IF HasSap(h) THEN SapDecode(sap) ELSE None,
         payload |-> Slice(buf, HeaderSize + ExtensionLength(h),
                           h.payload_length)]

\* BindFrame::decode, its checks in their order.
Mutant_Decode_ShortPayload(buf) ==
    LET h == HeaderDecode(Slice(buf, 0, HeaderSize)) IN
    IF Len(buf) < HeaderSize THEN Err("IncompleteHeader")
    ELSE IF Len(buf) < HeaderSize + ExtensionLength(h)
         THEN Err("IncompleteFrame")
    ELSE IF h.payload_length > MaxPayload THEN Err("BufferOverflow")
    ELSE Ok(Unpack(buf \o [i \in 1 .. h.payload_length |-> 0], h))

Mutant_Decode_NoLimit(buf) ==
    LET h == HeaderDecode(Slice(buf, 0, HeaderSize)) IN
    IF Len(buf) < HeaderSize THEN Err("IncompleteHeader")
    ELSE IF Len(buf) < TotalFrameLength(h) THEN Err("IncompleteFrame")
    ELSE Ok(Unpack(buf, h))

Decode(buf) ==
    LET h == HeaderDecode(Slice(buf, 0, HeaderSize))
        sapAt == HeaderSize + IF HasPfp(h) THEN PfpSize ELSE 0
    IN
    IF Len(buf) < HeaderSize THEN Err("IncompleteHeader")
    ELSE IF Len(buf) < TotalFrameLength(h) THEN Err("IncompleteFrame")
    ELSE IF h.payload_length > MaxPayload THEN Err("BufferOverflow")
    ELSE IF HasPfp(h) /\ ~VerifyMagic(Slice(buf, HeaderSize, PfpSize))
         THEN Err("InvalidPfpMagic")
    ELSE IF HasSap(h) /\ ~VerifyMagic(Slice(buf, sapAt, SapSize))
         THEN Err("InvalidSapMagic")
    ELSE IF HasSap(h) /\ ~VerifyProtocolId(Slice(buf, sapAt, SapSize))
         THEN Err("InvalidSapProtocolId")
    ELSE Ok(Unpack(buf, h))

----------------------------------------------------------------------------
(* What a frame is decided by *)

IsV1Compatible(f) == f.pfp = None /\ f.sap = None

\* BindConfig::rule6_enabled
Rule6Enabled(debug_mode) == ~debug_mode

\* effective_risk_level_with_config
EffectiveRiskLevel(f, debug_mode) ==
    IF f.pfp = None THEN None
    ELSE IF Rule6Enabled(debug_mode) THEN PfpRiskLevel(f.pfp)
    ELSE f.pfp.risk_level

\* BindFrame::is_catastrophic_override
TriggersOverride(f) == f.pfp # None /\ IsCatastrophicOverride(f.pfp)

IsReplayDisabled(f) == f.pfp # None /\ ~f.pfp.replay_enable
=============================================================================
