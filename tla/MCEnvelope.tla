----------------------------- MODULE MCEnvelope -----------------------------
EXTENDS Envelope
Byte == [t |-> "byte"]
MCJson == {<<[t |-> "event"]>>}
Fake == Header("event", NoAttachment, "", <<1>>)
MCFiles == << {<<>>, <<NL, Fake>>, <<Fake, NL, Byte>>}, {<<NL, Fake, NL>>, <<Byte, Byte, Byte, Byte>>} >>
=============================================================================
