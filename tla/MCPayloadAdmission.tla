------------------------- MODULE MCPayloadAdmission -------------------------
\* Six requests: two small, one that needs the whole budget, one held stream
\* beside a second one that competes for the only stream, and one above the
\* single-payload limit.
EXTENDS PayloadAdmission
CONSTANTS small, medium, whole, stream1, stream2, huge
MCCallers == {small, medium, whole, stream1, stream2, huge}
MCBytes == [c \in MCCallers |->
  CASE c = huge -> 4 [] c = whole -> 3 [] c = medium -> 2 [] OTHER -> 1]
MCIsStream == [c \in MCCallers |-> c \in {stream1, stream2}]
=============================================================================
