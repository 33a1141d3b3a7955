--------------------------- MODULE MCHeaderCodec ---------------------------
EXTENDS HeaderCodec
MCLowerOf == [SIP |-> "sip", UDP |-> "udp", ACK |-> "ack", W |-> "w"]
MCAlphabet ==
  [name |-> {"w", "\"", "\\", "'", ","},
   uri |-> {"w", ",", ";"},
   param |-> {"w", "\"", "\\", "'", ";"},
   realm |-> {"w", "\"", "\\", "'", ","},
   algorithm |-> {"w", "'", "\""},
   nextnonce |-> {"w", "\\", ",", "=", " "},
   host |-> {"w", ":"},
   port |-> {"0", "5", "6"},
   comment |-> {"w", "(", ")", ";"},
   text |-> {"w", "\"", "\\", ","},
   number |-> {"0", "1", "5", "6", "9"},
   major |-> {"0", "1"},
   minor |-> {"0", "3"},
   method |-> {"ACK", "ack", "W"},
   type |-> {"W", "w", "'", "@"},
   subtype |-> {"W", "w"}]
============================================================================
