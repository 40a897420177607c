----------------------------- MODULE MCA2dpSink ------------------------------
(***************************************************************************)
(* Sources that do and do not switch reports on, offer them at the         *)
(* endpoint BTstack picks or at another, and refuse or accept one.         *)
(***************************************************************************)
EXTENDS A2dpSinkProofs

Source(sbc, offers, wants, refuses) ==
  [sbc |-> sbc, offers |-> offers, wants |-> wants, refuses |-> refuses]

MCRates == {44, 48}
MCLags == {0, 1}

\* A player with reports, one without, and one that refuses what it switched on.
MCSources ==
  {Source(1, {1}, TRUE, FALSE), Source(2, {1}, FALSE, FALSE), Source(2, {2}, TRUE, TRUE)}
MCReporters == {Source(1, {1}, TRUE, FALSE), Source(1, {}, TRUE, TRUE)}
==============================================================================
