--------------------------- MODULE MCKafkaProducer ---------------------------
(* Instances of KafkaProducer for TLC: threads of one producer, topics.     *)
EXTENDS KafkaProducer

CONSTANTS t1, t2, k1, k2

OneThread == {t1}

TwoThreads == {t1, t2}

TwoTopics == {k1, k2}

=============================================================================
