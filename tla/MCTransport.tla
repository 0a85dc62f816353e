---------------------------- MODULE MCTransport ----------------------------
(* Small instances of Transport.                                           *)
EXTENDS Transport

ThreeSockets == {"s1", "s2", "s3"}
ReadOnly   == {"read"}
ReadWrite  == {"read", "write"}
TcpAndSerial == {"tcp", "serial"}
Both       == BOOLEAN
Always     == {TRUE}
Never      == {FALSE}

=============================================================================
