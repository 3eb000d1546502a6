--------------------------- MODULE MCDispensation ---------------------------
EXTENDS Dispensation

\* A single output, two recipients at once, one recipient twice, an empty output.
MCOutputs == {
    <<[recipient |-> 1, coins |-> 1]>>,
    <<[recipient |-> 2, coins |-> 1], [recipient |-> 1, coins |-> 1]>>,
    <<[recipient |-> 2, coins |-> 1], [recipient |-> 2, coins |-> 1]>>,
    <<[recipient |-> 2, coins |-> 0], [recipient |-> 1, coins |-> 1]>> }
=============================================================================
