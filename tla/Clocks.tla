------------------------------- MODULE Clocks -------------------------------
(***************************************************************************)
(* The deadlines of Time, include/util.h:175-202.                          *)
(*                                                                         *)
(* GetTimeSpec adds in doubles and truncates, which is exact: a tv_sec has *)
(* room for a fraction of 20 bits beside it.                               *)
(***************************************************************************)
EXTENDS Naturals

NsecPerSec == 1000000000
NsecPerMsec == 1000000

TimeSpecs == [tv_sec : Nat, tv_nsec : {n \in Nat : n < NsecPerSec}]

\* The time msec after a reading of the clock.
GetTimeSpec(clock, msec) ==
  LET nsec == clock.tv_nsec + (msec % 1000) * NsecPerMsec
  IN  [tv_sec |-> clock.tv_sec + msec \div 1000 + nsec \div NsecPerSec,
       tv_nsec |-> nsec % NsecPerSec]

\* How pthreads compares the clock with a deadline.
Reached(clock, deadline) ==
  \/ clock.tv_sec > deadline.tv_sec
  \/ clock.tv_sec = deadline.tv_sec /\ clock.tv_nsec >= deadline.tv_nsec

=============================================================================
