----------------------------- MODULE Payloads -----------------------------
(***************************************************************************)
(* The payloads of protocol messages: the host's codecs                    *)
(* (src/rci/protocols/messages.py), the firmware's encoders and its motion *)
(* check (firmware/shared/protocol.h, firmware/robot/runtime.h), and how   *)
(* the gateway turns an authorization into a motion message                *)
(* (src/rci/hardware/robot_gateway.py).  A payload is made by one of them, *)
(* may be altered, and is judged by those that read it.                    *)
(*                                                                         *)
(* A result that may be refused is a set: empty when the code raises       *)
(* ProtocolError or returns 0, else holding the one result.                *)
(***************************************************************************)
EXTENDS Integers, Sequences, SequencesExt, FiniteSets

CONSTANTS
  ByteBase,          \* 256 in the code
  MaxJoints,         \* MAX_JOINT_TARGETS, kMaxJointTargets: 8 in the code
  NotFinite,         \* NaN or an infinity
  HostMessages,      \* messages the host is asked to encode
  FirmwareMessages,  \* messages the firmware is asked to encode
  JointProtocolIds,  \* RobotGateway._joint_protocol_ids
  Authorizations,    \* what the gateway is asked to send
  OtherBytes         \* what an altered byte may become

ASSUME PayloadAssumption ==
  /\ ByteBase \in Nat /\ ByteBase >= 16 /\ ByteBase % 2 = 0
  /\ MaxJoints \in 1 .. ByteBase - 1 /\ OtherBytes \subseteq 0 .. ByteBase - 1
  /\ IsFiniteSet(DOMAIN JointProtocolIds)
  /\ \A name \in DOMAIN JointProtocolIds : JointProtocolIds[name] \in 1 .. ByteBase - 1
  /\ \A a, b \in DOMAIN JointProtocolIds : a # b => JointProtocolIds[a] # JointProtocolIds[b]
  /\ \A authorization \in Authorizations :
       authorization.id \in Int /\ authorization.ttl \in Int \cup {NotFinite}

---------------------------------------------------------------------------
(* Little-endian fields, and the values each may carry.                    *)

Field(bytes, lo, hi) == [bytes |-> bytes, lo |-> lo, hi |-> hi]
U8 == Field(1, 0, ByteBase - 1)
WORDS == ByteBase * ByteBase
U16 == Field(2, 0, WORDS - 1)
S16 == Field(2, -(WORDS \div 2), WORDS \div 2 - 1)
U32 == Field(4, 0, WORDS * WORDS - 1)
AtLeastOne(field) == [field EXCEPT !.lo = 1]
DeviceSource == Field(1, 1, 4)
WireSystemState == Field(1, 1, 10)
MotionMode == Field(1, 1, 1)
EstopReason == Field(1, 1, 4)
AckStatus == Field(1, 0, 3)
JointCount == Field(1, 1, MaxJoints)

\* The messages of one size
Layout ==
  [glove |-> <<U16, S16, S16, S16, S16, S16, S16, S16, S16, U16, U8>>,
   heartbeat |-> <<DeviceSource, U32, WireSystemState>>,
   estop |-> <<DeviceSource, EstopReason>>,
   acknowledgement |-> <<U16, AckStatus>>]

\* The messages that list joints; the UUID of a command is one byte here.  The
\* head ends with the number of joints, a joint begins with its id.
JointLayout ==
  [motion |-> [head |-> <<U8, AtLeastOne(U16), MotionMode, JointCount>>,
               joint |-> <<U8, S16>>, tail |-> <<AtLeastOne(U16), AtLeastOne(U16)>>],
   telemetry |-> [head |-> <<U32, WireSystemState, U8, U16, JointCount>>,
                  joint |-> <<AtLeastOne(U8), S16, S16, U16>>, tail |-> <<>>]]

\* One layout for the whole message, with n joints.
WholeLayout(kind, n) ==
  IF kind \in DOMAIN Layout THEN Layout[kind]
  ELSE JointLayout[kind].head
       \o FlattenSeq([k \in 1 .. n |-> JointLayout[kind].joint])
       \o JointLayout[kind].tail

\* A message is its kind and its values in the order of the layout.
JointsOf(message) ==
  IF message.kind \in DOMAIN Layout THEN 0
  ELSE message.values[Len(JointLayout[message.kind].head)]

\* Position of the id of the i-th joint
IdAt(kind, i) ==
  Len(JointLayout[kind].head) + (i - 1) * Len(JointLayout[kind].joint) + 1

JointIds(message) ==
  [i \in 1 .. JointsOf(message) |-> message.values[IdAt(message.kind, i)]]

---------------------------------------------------------------------------
(* struct.pack and unpack.                                                 *)

Digits(v) ==
  LET rest == v \div ByteBase
      high == rest \div ByteBase
  IN <<v % ByteBase, rest % ByteBase, high % ByteBase, high \div ByteBase % ByteBase>>
PackField(field, v) == SubSeq(Digits(v), 1, field.bytes)
Pack(layout, values) ==
  FlattenSeq([k \in DOMAIN layout |-> PackField(layout[k], values[k])])

\* Offsets(layout)[k] bytes are before field k + 1.
Offsets(layout) ==
  LET after[k \in 0 .. Len(layout)] ==
        IF k = 0 THEN 0 ELSE after[k - 1] + layout[k].bytes
  IN after
SizeOf(layout) == Offsets(layout)[Len(layout)]

Unsigned(bytes) ==
  LET Byte(k) == IF k \in DOMAIN bytes THEN bytes[k] ELSE 0
  IN Byte(1) + ByteBase * (Byte(2) + ByteBase * (Byte(3) + ByteBase * Byte(4)))

UnpackField(field, bytes) ==
  IF field.lo < 0 /\ Unsigned(bytes) > field.hi
  THEN Unsigned(bytes) - WORDS ELSE Unsigned(bytes)

Unpack(layout, bytes) ==
  LET at == Offsets(layout)
  IN [k \in DOMAIN layout |-> UnpackField(layout[k], SubSeq(bytes, at[k - 1] + 1, at[k]))]

---------------------------------------------------------------------------
(* The messages one may write down.                                        *)

Kinds == DOMAIN Layout \cup DOMAIN JointLayout

IsMessage(message) ==
  /\ message \in [kind : Kinds, values : Seq(Int)] /\ JointsOf(message) \in Nat
  /\ Len(message.values) = Len(WholeLayout(message.kind, JointsOf(message)))

\* What the firmware's type for a field holds
Raw(field) ==
  IF field.lo < 0 THEN field.lo .. field.hi
  ELSE 0 .. Unsigned([k \in 1 .. field.bytes |-> ByteBase - 1])

\* The status of an acknowledgement is an enumerator.
IsFirmwareMessage(message) ==
  LET layout == WholeLayout(message.kind, JointsOf(message))
  IN /\ IsMessage(message) /\ message.kind \in {"glove", "acknowledgement", "telemetry"}
     /\ \A k \in DOMAIN layout :
          message.values[k] \in IF layout[k] = AckStatus THEN 0 .. 3 ELSE Raw(layout[k])

ASSUME MessagesAssumption ==
  /\ \A message \in HostMessages : IsMessage(message)
  /\ \A message \in FirmwareMessages : IsFirmwareMessage(message)

---------------------------------------------------------------------------
(* The host.                                                               *)

\* Seeded fault: _require_int16 is not called.
FitsUnsigned(layout, values) ==
  \A k \in DOMAIN layout : layout[k].lo < 0 \/ values[k] \in layout[k].lo .. layout[k].hi

\* _require_uint, _require_int16, and membership in the enumerations
Fits(layout, values) ==
  \A k \in DOMAIN layout : values[k] \in layout[k].lo .. layout[k].hi

Encode(message) ==
  LET layout == WholeLayout(message.kind, JointsOf(message))
  IN IF /\ JointsOf(message) <= MaxJoints
        /\ Fits(layout, message.values)
        /\ IsInjective(JointIds(message))
     THEN {Pack(layout, message.values)} ELSE {}

CountIn(kind, bytes) ==
  IF kind \in DOMAIN Layout THEN 0 ELSE bytes[SizeOf(JointLayout[kind].head)]

SizeIsRight(kind, bytes) == Len(bytes) = SizeOf(WholeLayout(kind, CountIn(kind, bytes)))

\* The lists of joints are checked by encoding what was decoded.
Decode(kind, bytes) ==
  IF \/ Len(bytes) < SizeOf(WholeLayout(kind, 1))
     \/ CountIn(kind, bytes) > MaxJoints
     \/ ~SizeIsRight(kind, bytes)
  THEN {}
  ELSE {m \in {[kind |-> kind,
                values |-> Unpack(WholeLayout(kind, CountIn(kind, bytes)), bytes)]} :
          Encode(m) # {}}

---------------------------------------------------------------------------
(* The firmware.                                                           *)

\* EncodeRobotTelemetryPayload refuses a joint id of zero; it knows neither the
\* states nor repeated ids.
FirmwareSends(message) ==
  /\ JointsOf(message) <= MaxJoints
  /\ message.kind = "telemetry" => JointsOf(message) > 0 /\ 0 \notin ToSet(JointIds(message))

FirmwareEncode(message) ==
  IF FirmwareSends(message)
  THEN {Pack(WholeLayout(message.kind, JointsOf(message)), message.values)} ELSE {}

ReadU16Le(bytes, at) == bytes[at + 1] + ByteBase * bytes[at + 2]

MotionFixedPayloadSize == 9
JointTargetPayloadSize == 3

\* seen_joint_ids
TargetIdsOk(bytes) ==
  LET Id(i) == bytes[6 + i * JointTargetPayloadSize]
  IN \A i \in 0 .. bytes[5] - 1 : Id(i) # 0 /\ \A j \in 0 .. i - 1 : Id(j) # Id(i)

ValidateMotionPayload(bytes) ==
  /\ Len(bytes) >= MotionFixedPayloadSize + JointTargetPayloadSize
  /\ ReadU16Le(bytes, 1) # 0 /\ bytes[4] = 1
  /\ bytes[5] \in 1 .. MaxJoints
  /\ Len(bytes) = MotionFixedPayloadSize + bytes[5] * JointTargetPayloadSize
  /\ TargetIdsOk(bytes)
  /\ LET at == 5 + bytes[5] * JointTargetPayloadSize
     IN ReadU16Le(bytes, at) > 0 /\ ReadU16Le(bytes, at + 2) > 0

---------------------------------------------------------------------------
(* The gateway.  Numbers of an authorization are counted in thousandths.   *)

\* Seeded fault: what is not representable is rounded.
RoundedProtocolInteger(value, scale, field) ==
  IF value = NotFinite THEN {}
  ELSE {n \in field.lo .. field.hi : n = (value * scale) \div 1000}

\* _exact_protocol_integer
ExactProtocolInteger(value, scale, field) ==
  IF value = NotFinite THEN {}
  ELSE {n \in field.lo .. field.hi : n * 1000 = value * scale}

The(results) == CHOOSE result \in results : TRUE

\* _encode_authorization: targets sorted by id; refused when a name has no id or
\* a number does not fit.
EncodeAuthorization(authorization) ==
  LET named == DOMAIN authorization.targets
      Target(name) == ExactProtocolInteger(authorization.targets[name], 100, S16)
      Rate(value) == ExactProtocolInteger(value, 100, AtLeastOne(U16))
      ttl == ExactProtocolInteger(authorization.ttl, 1, AtLeastOne(U16))
      names == CHOOSE list \in [1 .. Cardinality(named) -> named] :
                 \A i, j \in DOMAIN list :
                   i < j => JointProtocolIds[list[i]] < JointProtocolIds[list[j]]
      joints == [k \in DOMAIN names |-> <<JointProtocolIds[names[k]], The(Target(names[k]))>>]
  IN IF /\ named \subseteq DOMAIN JointProtocolIds
        /\ {} \notin {Target(name) : name \in named}
        /\ {} \notin {ttl, Rate(authorization.velocity), Rate(authorization.acceleration)}
     THEN {[kind |-> "motion",
            values |-> <<authorization.id, The(ttl), 1, Len(names)>> \o FlattenSeq(joints)
                       \o <<The(Rate(authorization.velocity)),
                             The(Rate(authorization.acceleration))>>]}
     ELSE {}

---------------------------------------------------------------------------

VARIABLES
  origin,   \* who made the payload, and of what (history)
  payload

payloads == <<origin, payload>>

Nobody == [by |-> "nobody", of |-> [kind |-> "none", values |-> <<>>]]

PayloadInit == origin = Nobody /\ payload = <<>>

Made(by, of, results) ==
  /\ \E bytes \in results : payload' = bytes
  /\ origin' = [by |-> by, of |-> of]

HostMakes(message) == Made("host", message, Encode(message))
FirmwareMakes(message) == Made("firmware", message, FirmwareEncode(message))
GatewayMakes(authorization) ==
  Made("gateway", authorization,
       UNION {Encode(message) : message \in EncodeAuthorization(authorization)})

Altered(bytes) ==
  /\ origin.by \in {"host", "firmware", "gateway"}
  /\ payload' = bytes
  /\ origin' = [Nobody EXCEPT !.by = "altered"]

Make ==
  /\ origin = Nobody
  /\ \/ \E message \in HostMessages : HostMakes(message)
     \/ \E message \in FirmwareMessages : FirmwareMakes(message)
     \/ \E authorization \in Authorizations : GatewayMakes(authorization)

PayloadNext ==
  \/ Make
  \/ \E i \in DOMAIN payload, byte \in OtherBytes : Altered([payload EXCEPT ![i] = byte])
  \/ payload # <<>> /\ Altered(Front(payload))
  \/ \E byte \in OtherBytes : Altered(Append(payload, byte))

PayloadSpec == PayloadInit /\ [][PayloadNext]_payloads

---------------------------------------------------------------------------

\* What the host encodes it decodes to the same message: a value that does not
\* fit its field is refused and never wraps.
RoundTrip ==
  origin.by = "host" => Decode(origin.of.kind, payload) = {origin.of}

\* The decoders are strict: whatever bytes they accept are the encoding of the
\* message they return, so no two payloads mean the same.
AcceptedIsCanonical ==
  origin # Nobody => \A kind \in Kinds : \A m \in Decode(kind, payload) : Encode(m) = {payload}

\* The host understands every payload the firmware sends, unless the firmware
\* reports an unknown state or one joint twice.
FirmwareIsUnderstood ==
  origin.by = "firmware" =>
    \/ Decode(origin.of.kind, payload) = {origin.of}
    \/ /\ origin.of.kind = "telemetry"
       /\ \/ ~IsInjective(JointIds(origin.of))
          \/ origin.of.values[2] \notin 1 .. 10

\* All codecs agree on every message and on every payload, altered ones too.
CodecsAgree == RoundTrip /\ AcceptedIsCanonical /\ FirmwareIsUnderstood

\* The two readers of a motion agree on every payload, altered ones too, except
\* that only the firmware refuses the joint id zero; what the gateway sends
\* passes both.
MotionReadersAgree ==
  origin # Nobody =>
  /\ ValidateMotionPayload(payload) <=>
       \E m \in Decode("motion", payload) : 0 \notin ToSet(JointIds(m))
  /\ origin.by = "gateway" => ValidateMotionPayload(payload)

\* No hidden quantization: the numbers the robot reads are exactly those that
\* were authorized, joint by joint.
NoHiddenQuantization ==
  origin.by = "gateway" =>
    \A m \in Decode("motion", payload) :
      LET n == Len(m.values)
          Angle(i) == m.values[IdAt("motion", i) + 1]
      IN /\ \A name \in DOMAIN origin.of.targets :
              \E i \in DOMAIN JointIds(m) :
                /\ JointIds(m)[i] = JointProtocolIds[name]
                /\ Angle(i) * 1000 = origin.of.targets[name] * 100
         /\ Len(JointIds(m)) = Cardinality(DOMAIN origin.of.targets)
         /\ m.values[2] * 1000 = origin.of.ttl
         /\ m.values[n - 1] * 1000 = origin.of.velocity * 100
         /\ m.values[n] * 1000 = origin.of.acceleration * 100

\* The motion that reaches the robot is the motion that was authorized.
MotionIsUnaltered == MotionReadersAgree /\ NoHiddenQuantization

===========================================================================
