---------------------------- MODULE MCReqIdAlloc ----------------------------
(* ReqIdAlloc instantiated for TLC.  The widths are those of the build
   divided by 8/3: an int of 12 bits is three hexadecimal digits as the
   int of the build is eight, MinDigits is 3 as the precision of "%8.8d"
   is 8, and INT_MAX = 2047 has four decimal digits, one more than
   MinDigits, as 2147483647 has ten, two more than eight. *)
EXTENDS ReqIdAlloc

CONSTANTS t1, t2

TwoThreads == {t1, t2}
=============================================================================
