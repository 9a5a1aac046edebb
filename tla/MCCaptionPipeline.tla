------------------------- MODULE MCCaptionPipeline -------------------------
(* CaptionPipeline for TLC; the cfg gives the bounds.                        *)
EXTENDS CaptionPipeline

=============================================================================
