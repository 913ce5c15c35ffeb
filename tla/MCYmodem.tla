------------------------------ MODULE MCYmodem ------------------------------
EXTENDS Ymodem

\* Files of one packet and of three, so that the numbers wrap, and an empty one.
MCLengths == <<1, 5, 0>>
=============================================================================
