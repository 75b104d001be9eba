---------------------------- MODULE MCProtocol ----------------------------
(* The byte stream and the payloads, in small sizes.  A behaviour is about  *)
(* one of the two.                                                         *)
EXTENDS FrameStream, Payloads

Init == StreamInit /\ PayloadInit

Next ==
  \/ origin = Nobody /\ StreamNext /\ UNCHANGED payloads
  \/ sent = <<>> /\ end = "host" /\ PayloadNext /\ UNCHANGED stream

Spec == Init /\ [][Next]_<<stream, payloads>>

\* Payloads with half a magic and with a whole one; a damaged byte may become a
\* version, a type, a length that is too long, or part of a magic.
MCSentPayloads == {<<>>, <<Symbol(0), Symbol(82)>>, MAGIC}
MCDamageValues == {Symbol(n) : n \in {0, 2, 10, 82, 67}}

MCJointProtocolIds == [base |-> 2, head |-> 1, arm |-> 3]
Message(kind, values) == [kind |-> kind, values |-> values]
\* A plain message, and all with one of its values replaced
Varied(message, others) ==
  {[message EXCEPT !.values[i] = v] : i \in DOMAIN message.values, v \in others}
Plain ==
  {Message("glove", <<1, 2, -3, 0, 0, 0, 0, 5, 6, 7, 1>>), Message("heartbeat", <<1, 300, 5>>),
   Message("estop", <<1, 1>>), Message("acknowledgement", <<1, 0>>)}
PlainMotion == Message("motion", <<7, 9, 1, 2, 1, -5, 3, 100, 20, 30>>)
PlainTelemetry == Message("telemetry", <<300, 5, 1, 200, 2, 1, -5, 3, 17, 2, 100, -20, 0>>)
\* Values at and beyond the ends of the fields; the number of joints is not a
\* value one may choose.
Ends == {-129, -128, -1, 0, 1, 127, 128, 255, 256}
KeepsCount(message, k) == {m \in Varied(message, Ends) : m.values[k] = message.values[k]}
Repeated(message, at, from) == [message EXCEPT !.values[at] = message.values[from]]
Telemetries ==
  UNION {KeepsCount(m, 5) : m \in {PlainTelemetry, Repeated(PlainTelemetry, 10, 6)}}
MCHostMessages ==
  UNION {Varied(m, Ends) : m \in Plain} \cup Telemetries
    \cup UNION {KeepsCount(m, 4) : m \in {PlainMotion, Repeated(PlainMotion, 7, 5)}}
    \cup {Message("motion", <<7, 9, 1, n>> \o FlattenSeq([k \in 1 .. n |-> <<k, 0>>]) \o <<1, 1>>) :
            n \in 0 .. 4}
MCFirmwareMessages ==
  {m \in Telemetries \cup UNION {Varied(m, Ends) : m \in Plain} : IsFirmwareMessage(m)}
    \cup [kind : {"acknowledgement"}, values : {0, 255} \X (0 .. 3)]
Numbers == {-1280, -1290, -10, 0, 5, 10, 1270, NotFinite}
MCAuthorizations ==
  [id : {15}, targets : [{"head"} -> Numbers] \cup [{"base", "arm"} -> Numbers]
                             \cup [{"head", "wheel"} -> {0}] \cup [{"base", "head", "arm"} -> {10}],
   ttl : {0, 1500, 255000}, velocity : {0, 10, 2560},
   acceleration : {10, 15}]
MCOtherBytes == {0, 1, 2, 15}
===========================================================================
