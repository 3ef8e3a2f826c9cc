------------------------------- MODULE Decoders -------------------------------
(***************************************************************************)
(* The decoders of bip138-ll, which read bytes that somebody else wrote:   *)
(* decode_v1 with the walk of the inspect command over a backup, and       *)
(* decode_plaintext over what its cyphertext was made from.  One call is   *)
(* made, to either; the encoders write some of the bytes.                  *)
(***************************************************************************)
EXTENDS WireFormat, PlaintextCodec

decodersVars == <<wireVars, codecVars>>

DecodersInit == \/ WireInit /\ CodecIdle
                \/ CodecInit /\ WireIdle

DecodersNext == \/ WireStep /\ UNCHANGED codecVars
                \/ CodecStep /\ UNCHANGED wireVars

\* a call runs by itself
DecodersSpec == DecodersInit /\ [][DecodersNext]_decodersVars /\ WF_decodersVars(DecodersNext)

-----------------------------------------------------------------------------
(* Properties                                                              *)

\* Type invariant of both.
TypeOK == WireTypeOK /\ CodecTypeOK

WireReturned == stage \in {"idle", "done", "refused"}
CodecReturned == outcome \notin {"padding", "running"}

\* Both decoders come to an end on every input, and so does the search for the
\* padded size (decode_v1, decode_v1_encrypted_payload_lengths,
\* decode_plaintext, geometric_bucket).
DecodersReturn == <>(WireReturned /\ CodecReturned)
=============================================================================
