------------------------------- MODULE Charger --------------------------------
(***************************************************************************)
(* usb_dac_pcm.h and usb_dac.c: telling a charger from a host that is      *)
(* slow.  charger_check samples the two data lines on every pass of the    *)
(* main loop; a charger holds both high (SE1), which no host does, and a   *)
(* host that has addressed the box is never taken for one.                 *)
(*                                                                         *)
(* The clock is in units and wraps, as the microseconds do after 71        *)
(* minutes; a pass takes one of Gaps.  What the samples amount to is       *)
(* defined once more over their history, and compared.                     *)
(***************************************************************************)
EXTENDS Integers, Sequences

CONSTANTS
  Window,    \* USB_DAC_CHARGER_WINDOW_MS
  Se1Time,   \* USB_DAC_CHARGER_SE1_MS
  MaxGap,    \* USB_DAC_CHARGER_MAX_GAP_MS
  NoHosts,   \* USB_DAC_NO_HOST_FALLBACK_MS in the builds there are; 0: off
  Wrap,      \* where the elapsed time starts again
  Width,     \* 2^32
  Gaps,      \* how long a pass takes
  MaxTime    \* bound: units the box has been up

ASSUME TimeAssumption ==
  /\ {Window, Se1Time, MaxGap, Wrap, Width, MaxTime} \subseteq Nat
  /\ NoHosts \subseteq Nat /\ Gaps \subseteq Nat \ {0} /\ Gaps # {}
  /\ \A g \in Gaps : \A n \in NoHosts \cup {Window} : n + g < Wrap
  /\ Wrap < Width

VARIABLES
  no_host,   \* the build's USB_DAC_NO_HOST_FALLBACK_MS
  now,       \* since the device was started, and never wraps
  charger,   \* struct usb_dac_charger
  retired,
  verdict,
  samples    \* what the passes have seen: [at, se1, addressed]

chargerVars == <<no_host, now, charger, retired, verdict, samples>>

Later(a, b) == IF a > b THEN a ELSE b
Minus(a, b) == (a - b) % Width     \* unsigned
LastTime == Later(Window, no_host)
Verdicts == {"keep_going", "charger", "no_host"}

\* Every variable has its type; nothing is judged long after its time.
ChargerTypeOK ==
  /\ no_host \in NoHosts /\ now \in 0 .. MaxTime
  /\ charger \in [se1_run : BOOLEAN, host_seen : BOOLEAN, se1_since : 0 .. Window,
                  last : 0 .. Wrap - 1, have_last : BOOLEAN]
  /\ \E g \in Gaps : charger.last <= LastTime + g
  /\ retired \in BOOLEAN /\ verdict \in Verdicts
  /\ samples \in Seq([at : Nat, se1 : BOOLEAN, addressed : BOOLEAN])

\* usb_dac_charger_init.
ChargerInit ==
  /\ no_host \in NoHosts /\ now = 0
  /\ charger = [se1_run |-> FALSE, host_seen |-> FALSE, se1_since |-> 0, last |-> 0,
                have_last |-> FALSE]
  /\ retired = FALSE /\ verdict = "keep_going" /\ samples = <<>>

\* Mutant: time nobody looked at is vouched for.
Unbroken_Any(c, elapsed) == c.se1_run

\* A gap between samples ends a run of SE1.
Unbroken(c, elapsed) ==
  c.se1_run /\ ~ (c.have_last /\ Minus(elapsed, c.last) > MaxGap)

\* usb_dac_charger_step: the record after it.
StepTo(c, elapsed, se1, addressed) ==
  LET d == [c EXCEPT !.host_seen = @ \/ addressed]
      run == se1 /\ elapsed <= Window
      since == IF Unbroken(c, elapsed) THEN c.se1_since ELSE elapsed
  IN  IF d.host_seen \/ (no_host # 0 /\ elapsed >= no_host) THEN d
      ELSE [d EXCEPT !.last = elapsed, !.have_last = TRUE, !.se1_run = run,
                     !.se1_since = IF run THEN since ELSE @]

\* ... and its verdict.
Judge(c, elapsed, se1, addressed) ==
  LET d == StepTo(c, elapsed, se1, addressed)
  IN  IF d.host_seen THEN "keep_going"
      ELSE IF no_host # 0 /\ elapsed >= no_host THEN "no_host"
      ELSE IF d.se1_run /\ Minus(elapsed, d.se1_since) >= Se1Time THEN "charger"
      ELSE "keep_going"

Retire(elapsed, addressed) == addressed \/ elapsed > LastTime

\* charger_check on a pass.
ChargerCheck(gap, se1, addressed) ==
  /\ verdict = "keep_going" /\ now + gap <= MaxTime
  /\ now' = now + gap
  /\ IF retired THEN UNCHANGED <<charger, retired, verdict, samples>>
     ELSE LET elapsed == now' % Wrap IN
          /\ charger' = StepTo(charger, elapsed, se1, addressed)
          /\ verdict' = Judge(charger, elapsed, se1, addressed)
          /\ retired' = (verdict' = "keep_going" /\ Retire(elapsed, addressed))
          /\ samples' = Append(samples, [at |-> now', se1 |-> se1, addressed |-> addressed])
  /\ UNCHANGED no_host

\* The box has restarted into Bluetooth, or time is up.
Stop == (verdict # "keep_going" \/ \A g \in Gaps : now + g > MaxTime) /\ UNCHANGED chargerVars

ChargerNext ==
  \/ \E gap \in Gaps, se1, addressed \in BOOLEAN : ChargerCheck(gap, se1, addressed)
  \/ Stop

ChargerSpec == ChargerInit /\ [][ChargerNext]_chargerVars

-----------------------------------------------------------------------------
NoHostYet == \A i \in DOMAIN samples : ~ samples[i].addressed

\* The newest samples, as many as are SE1, in time and close together, span Se1Time.
Held ==
  \E i \in DOMAIN samples :
    /\ \A j \in i .. Len(samples) : samples[j].se1 /\ samples[j].at <= Window
    /\ \A j \in i .. Len(samples) - 1 : samples[j + 1].at - samples[j].at <= MaxGap
    /\ samples[Len(samples)].at - samples[i].at >= Se1Time

\* The box leaves for Bluetooth exactly when the samples say so: SE1 held without a
\* gap for long enough, within the first seconds, by the true time and not the
\* clock that wraps, and no host ever there (usb_dac_pcm.h:206-262,
\* usb_dac.c:1084-1119).
VerdictIsEvidence ==
  /\ ChargerTypeOK
  /\ verdict = "charger" <=>
       /\ NoHostYet /\ Held
       /\ no_host # 0 => samples[Len(samples)].at < no_host
  /\ verdict = "no_host" <=>
       no_host # 0 /\ NoHostYet /\ \E i \in DOMAIN samples : samples[i].at >= no_host
===============================================================================
