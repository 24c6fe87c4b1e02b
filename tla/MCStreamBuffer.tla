---------------------------- MODULE MCStreamBuffer ----------------------------
(***************************************************************************)
(* StreamBuffer for TLC: two byte values, written one or two at a time.    *)
(***************************************************************************)
EXTENDS StreamBuffer, TLC

MCBytes == {0, 1}
MCChunk == {<<1>>, <<0, 1>>}

=============================================================================
