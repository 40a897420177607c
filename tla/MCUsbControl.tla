---------------------------- MODULE MCUsbControl ----------------------------
(***************************************************************************)
(* The control pipe with two supported rates and one that is not.          *)
(***************************************************************************)
EXTENDS UsbControlProofs

MCRates      == {44, 48}
MCOtherRates == {22}
MCVolumes    == {-1, 0}
MCOneVolume  == {0}
=============================================================================
