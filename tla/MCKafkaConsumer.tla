--------------------------- MODULE MCKafkaConsumer ---------------------------
(* Finite instances of KafkaConsumer.  Offsets requested by the application  *)
(* exercise Setup: 0 is a rewind of any partition with a committed offset.   *)
EXTENDS KafkaConsumer

NoStart == [p \in Partitions |-> -1]
Rewind  == [p \in Partitions |-> 0]
=============================================================================
