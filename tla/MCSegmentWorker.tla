-------------------------- MODULE MCSegmentWorker ---------------------------
EXTENDS SegmentWorker

Symbolizing == [symbolize : {TRUE}, s3 : BOOLEAN]
OnlyS3 == {[symbolize |-> FALSE, s3 |-> TRUE]}
NoOperation == {}
Reading == {"read"}
=============================================================================
