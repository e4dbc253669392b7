------------------------------ MODULE MCReader ------------------------------
EXTENDS Reader

MCStream == {0, 1}

\* Two streams that take turns; the decoder refuses one packet of stream 1.
MCMedia ==
  <<[stream |-> 0, time |-> 1, intact |-> TRUE], [stream |-> 1, time |-> 1, intact |-> TRUE],
    [stream |-> 0, time |-> 2, intact |-> TRUE], [stream |-> 1, time |-> 2, intact |-> FALSE]>>

MCFrame == DOMAIN MCMedia

MCDelay == [s \in MCStream |-> 1 - s]
=============================================================================
