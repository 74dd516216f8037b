------------------------------- MODULE MCAudio -------------------------------
(* The instances of Audio that TLC checks.                                  *)
EXTENDS Audio

MCKinds == << "oscillator", "bufferSource", "gain", "compressor" >>
==============================================================================
