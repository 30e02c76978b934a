----------------------------- MODULE MCFraming -----------------------------
(* Three messages of different sizes; a read covers neither a size nor the  *)
(* buffers exactly, so that reads straddle every boundary.                  *)
EXTENDS Framing

MCSize == <<2, 3, 1>>
=============================================================================
