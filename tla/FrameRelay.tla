----------------------------- MODULE FrameRelay -----------------------------
(***************************************************************************)
(* The wire format in use: a frame is built (or a buffer comes from        *)
(* another implementation), its bytes arrive one after the other, the      *)
(* receiver calls BindFrame::decode on what it has, and a relay encodes    *)
(* what it decoded and sends it on.                                        *)
(***************************************************************************)
EXTENDS FrameCodec

CONSTANTS
    Pfps,           \* PfpHeader values (or None) a frame is built with
    SeqCounters,    \* the numbers of the SAPs it is built with (or None)
    FrameTypes,     \* type bytes
    PayloadSizes,   \* sizes of the payloads, and of the keys in KEY_ROTATIONs
    Foreign         \* buffers of other implementations

ASSUME PfpsAssumption == Pfps \subseteq {p \in PfpHeader : p.reserved = 0}
                                         \cup {None}
ASSUME SeqCountersAssumption == SeqCounters \subseteq Word \cup {None}
ASSUME BytesAssumption ==
    FrameTypes \subseteq Byte /\ PayloadSizes \subseteq Nat
ASSUME ForeignAssumption == Foreign \subseteq Seq(Byte)

VARIABLES
    built,      \* the frame the sender built, None for a foreign buffer
    wire,       \* the bytes on their way
    got         \* how many of them have arrived

vars == <<built, wire, got>>

Sap(n) == SapHeaderNew(n, [i \in 1 .. ProofSize |-> 170])

\* A KEY_ROTATION carries a nonce and an encrypted key, any other frame is
\* given bytes.
NewKey(n) == [nonce |-> [i \in 1 .. NonceSize |-> i % 256],
              new_key_encrypted |-> [i \in 1 .. n |-> 187]]
Payload(type, n) == IF type.name = "KeyRotation" THEN PayloadEncode(NewKey(n))
                    ELSE [i \in 1 .. n |-> 187]

\* The frame of a sender that knows v2.0, or of one that does not.
NewFrame(type, p, n, size) ==
    IF p = None /\ n = None
    THEN BindFrameNewV1(type, 1, 0, Payload(type, size))
    ELSE BindFrameNew(type, 1, 0, p, IF n = None THEN None ELSE Sap(n),
                      Payload(type, size))

Init ==
    /\ got = 0
    /\ \/ \E b \in FrameTypes, p \in Pfps, n \in SeqCounters,
             size \in PayloadSizes :
             LET new == NewFrame(FrameTypeFromByte(b), p, n, size)
             IN  /\ new.ok
                 /\ built = new.value
                 /\ wire = Encode(new.value)
       \/ /\ built = None
          /\ wire \in Foreign

Arrived == SubSeq(wire, 1, got)
Answer == Decode(Arrived)

\* The next byte arrives.
Arrive ==
    /\ got < Len(wire)
    /\ got' = got + 1
    /\ UNCHANGED <<built, wire>>

\* What was decoded is sent on.
Forward ==
    /\ Answer.ok
    /\ wire' = Encode(Answer.value)
    /\ got' = Len(wire')
    /\ UNCHANGED built

Next == Arrive \/ Forward

Spec == Init /\ [][Next]_vars

----------------------------------------------------------------------------
(* Properties *)

\* decode never takes the beginning of a frame for a frame, and says that it
\* is waiting rather than that the frame is wrong.
NoEarlyFrame ==
    built # None /\ got < Len(wire) =>
       Answer = Err(IF got < HeaderSize THEN "IncompleteHeader"
                                        ELSE "IncompleteFrame")

\* A frame that BindFrame::new builds arrives as it was built, whatever its
\* fields, its optional parts and the number of relays it passes.
BuiltFrameSurvives ==
    built # None /\ got = Len(wire) => Answer = Ok(built)

\* A key that was put into a KEY_ROTATION is the key that comes out of it,
\* an empty one too, at every relay; a payload that ends before the nonce does
\* is refused, be it short of one byte.
RotationKeySurvives ==
    got = Len(wire) /\ built # None
    /\ built.header.frame_type.name = "KeyRotation" =>
       LET payload == Answer.value.payload IN
       /\ PayloadDecode(payload)
          = Ok(NewKey(built.header.payload_length - NonceSize))
       /\ \A n \in 0 .. NonceSize - 1 :
             PayloadDecode(SubSeq(payload, 1, n)) = Err("PayloadTooShort")

\* Unknown bits call for a version negotiation.
Negotiates(f) == f.pfp # None /\ HasUnknownReserved(f.pfp)

\* What else the receiving side decides a frame by: its kind and fragment, the
\* hard override, the effective risk with rule 6 on and off, whether replays
\* are checked, by which number, and whether that number ends the session.
Decision(f) ==
    [type |-> f.header.frame_type,
     fragment |-> <<IsFin(f.header), IsCon(f.header), IsSec(f.header)>>,
     v1 |-> IsV1Compatible(f),
     override |-> TriggersOverride(f),
     risk |-> [debug \in BOOLEAN |-> EffectiveRiskLevel(f, debug)],
     checked |-> f.sap # None /\ ~IsReplayDisabled(f),
     number |-> IF f.sap = None THEN None ELSE f.sap.seq_counter,
     rotate |-> f.sap # None /\ NeedsKeyRotation(f.sap),
     current |-> f.sap # None /\ IsVersionCurrent(f.sap)]

\* Passing a relay loses one thing of what a frame is decided by, even for a
\* buffer of another implementation that decode accepts: encode writes the
\* reserved bits as zeros, so that behind the relay nobody starts the version
\* negotiation they call for (pfp.rs 188).  Everything else is decided as it
\* was before, and a frame without reserved bits is the same frame.
RelayLosesOnlyReserved ==
    [][wire' # wire =>
          /\ Answer.ok /\ Answer'.ok
          /\ ~Negotiates(Answer'.value)
          /\ Decision(Answer'.value) = Decision(Answer.value)
          /\ ~Negotiates(Answer.value) => Answer'.value = Answer.value]_vars

\* A decoded frame's parts are the ones its flags announce and are in the
\* ranges of their fields, and its payload has the announced size and is
\* within the limit.
DecodedIsConsistent ==
    Answer.ok =>
       LET f == Answer.value IN
       /\ f.pfp \in IF HasPfp(f.header) THEN PfpHeader ELSE {None}
       /\ f.sap \in IF HasSap(f.header) THEN SapHeader ELSE {None}
       /\ Len(f.payload) = f.header.payload_length
       /\ Len(f.payload) <= MaxPayload
=============================================================================
