----------------------------- MODULE TimeAfter -----------------------------
(***************************************************************************)
(* Counters that wrap round, and the comparison of two of their readings   *)
(* by the sign of the difference: main.c and its note on the overflow of   *)
(* variables, and the kernel's jiffies, which the timers of the drivers    *)
(* are compared with.  A counter takes 2 * half values; main.c shows it    *)
(* for unsigned char, where half is 128.                                   *)
(***************************************************************************)
EXTENDS Integers

\* The reading of a counter that has counted to n.
Wrapped(n, half) == n % (2 * half)

\* The cast to the signed type of the same width.
Signed(x, half) == IF x < half THEN x ELSE x - 2 * half

\* time_after of main.c, and the kernel's time_after(a, b)
time_after(unknown, known, half) ==
  Signed(Wrapped(known - unknown, half), half) < 0

\* The kernel's time_after_eq(a, b): how a timer's expiry is compared.
time_after_eq(a, b, half) == Signed(Wrapped(a - b, half), half) >= 0
=============================================================================
