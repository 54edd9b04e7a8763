--------------------------- MODULE OsalClockProofs ---------------------------
(* The clock of OSAL_Clock.c is exact while the main loop comes round at   *)
(* least every 2 * 8188 ticks (5.24 s), with the numbers of the code.      *)
EXTENDS OsalClock, TLAPS

(* The numbers of the code, and the passes for which it is exact.          *)
SoonEnough == W = 65536 /\ MAXCALCTICKS = 8188 /\ Gaps \subseteq 1 .. 16376

IInv == TypeOK /\ ClockExact

(* A uint16 that is in range is kept as it is.                             *)
LEMMA InRange ==
  ASSUME NEW x \in Nat, x <= 65535
  PROVE  x % 65536 = x
  OBVIOUS

(* A conversion to milliseconds splits the time into them and the rest.    *)
LEMMA Conversion ==
  ASSUME NEW x \in Nat
  PROVE  /\ x = 25 * (x \div 25) + (x % 25)
         /\ x \div 25 \in Nat /\ x % 25 \in Nat /\ x % 25 <= 24
  OBVIOUS

(* The turns of the loop on such a pass.                                   *)
OneTurn(ticks) == IF ticks <= 8188 THEN 0 ELSE 1

(* What the conversion of a pass computes when no uint16 wraps.            *)
LEMMA NoWrap ==
  ASSUME SoonEnough, TypeOK, NEW ticks \in Gaps
  PROVE  /\ Tmp(ticks) = (ticks - OneTurn(ticks) * 8188) * 8 + (remUsTicks + 4 * OneTurn(ticks))
         /\ Tmp(ticks) \in Nat /\ Tmp(ticks) <= 65535
         /\ ElapsedMSec(ticks) = OneTurn(ticks) * 2620 + (Tmp(ticks) \div 25)
         /\ ElapsedMSec(ticks) \in Nat /\ ElapsedMSec(ticks) <= 5241
<1>1. /\ ticks \in Nat /\ 1 <= ticks /\ ticks <= 16376
      /\ remUsTicks \in Nat /\ remUsTicks <= 24
      /\ W = 65536 /\ MAXCALCTICKS = 8188
  <2>1. W = 65536 /\ MAXCALCTICKS = 8188 /\ Gaps \subseteq 1 .. 16376
    BY DEF SoonEnough
  <2>2. ticks \in 1 .. 16376
    BY <2>1
  <2>3. remUsTicks \in 0 .. 24
    BY DEF TypeOK
  <2>q. QED BY <2>1, <2>2, <2>3
<1> DEFINE turns == IF ticks <= 8188 THEN 0 ELSE 1
           rem == remUsTicks + 4 * turns
           tmp == (ticks - turns * 8188) * 8 + rem
           ms == turns * 2620 + tmp \div 25
<1>2. turns \in {0, 1} /\ ticks - turns * 8188 \in Nat /\ ticks - turns * 8188 <= 8188
  BY <1>1
<1>3. Turns(ticks) = turns
  <2>1. (ticks - 1) \div 8188 = turns
    BY <1>1
  <2>q. QED BY <2>1, <1>1 DEF Turns
<1>4. RemUsTicks(ticks) = rem
  <2>1. (MAXCALCTICKS * 8) % 25 = 4
    <3>1. (8188 * 8) % 25 = 4
      OBVIOUS
    <3>q. QED BY <3>1, <1>1
  <2>2. turns * 4 = 4 * turns /\ rem \in Nat /\ rem <= 65535
    BY <1>1, <1>2
  <2>3. rem % 65536 = rem
    BY <2>2, InRange
  <2>q. QED BY <2>1, <2>2, <2>3, <1>1, <1>3 DEF RemUsTicks
<1>5. Tmp(ticks) = tmp /\ tmp \in Nat /\ tmp <= 65535
  <2>1. tmp \in Nat /\ tmp <= 65535
    BY <1>1, <1>2
  <2>2. tmp % 65536 = tmp
    BY <2>1, InRange
  <2>q. QED BY <2>1, <2>2, <1>1, <1>3, <1>4 DEF Tmp
<1>6. ElapsedMSec(ticks) = ms /\ ms \in Nat /\ ms <= 5241
  <2>1. ms \in Nat /\ ms <= 5241
    <3> HIDE DEF tmp
    <3>1. tmp \div 25 \in Nat /\ tmp \div 25 <= 2621
      BY <1>5
    <3>q. QED BY <3>1, <1>2
  <2>2. ms % 65536 = ms
    BY <2>1, InRange
  <2>3. (MAXCALCTICKS * 8) \div 25 = 2620
    <3>1. (8188 * 8) \div 25 = 2620
      OBVIOUS
    <3>q. QED BY <3>1, <1>1
  <2>q. QED BY <2>1, <2>2, <2>3, <1>1, <1>3, <1>5 DEF ElapsedMSec
<1>q. QED BY <1>5, <1>6 DEF OneTurn

(* Every pass keeps the rest and the milliseconds in range and loses no    *)
(* time (osalTimeUpdate, osalClockUpdate).                                 *)
LEMMA PassIsExact ==
  ASSUME SoonEnough, IInv, NEW ticks \in Gaps, osalTimeUpdate(ticks)
  PROVE  IInv'
<1> DEFINE ms == ElapsedMSec(ticks)
           msec == (timeMSec + ms) % W
<1>0. /\ ticks \in Nat /\ 1 <= ticks /\ ticks <= 16376
      /\ remUsTicks \in Nat /\ remUsTicks <= 24
      /\ timeMSec \in Nat /\ timeMSec <= 1000
      /\ W = 65536 /\ lostUs = 0 /\ lostMSec = 0
  <2>1. TypeOK /\ ClockExact
    BY DEF IInv
  <2>2. ticks \in 1 .. 16376 /\ W = 65536
    <3>1. W = 65536 /\ Gaps \subseteq 1 .. 16376
      BY DEF SoonEnough
    <3>q. QED BY <3>1
  <2>3. remUsTicks \in 0 .. 24 /\ timeMSec \in 0 .. 1000
    BY <2>1 DEF TypeOK
  <2>q. QED BY <2>1, <2>2, <2>3 DEF ClockExact
<1>a. TypeOK
  BY DEF IInv
<1> DEFINE turns == OneTurn(ticks)
<1>1. /\ turns \in {0, 1}
      /\ Tmp(ticks) = (ticks - turns * 8188) * 8 + (remUsTicks + 4 * turns)
      /\ Tmp(ticks) \in Nat /\ Tmp(ticks) <= 65535
      /\ ms = turns * 2620 + (Tmp(ticks) \div 25)
      /\ ms \in Nat /\ ms <= 5241
  BY NoWrap, <1>a DEF OneTurn
<1>2. remUsTicks' = Tmp(ticks) % 25 /\ remUsTicks' \in Nat /\ remUsTicks' <= 24
  BY <1>1, Conversion DEF osalTimeUpdate
<1>3. lostUs' = 0
  <2>1. Tmp(ticks) = 25 * (Tmp(ticks) \div 25) + remUsTicks' /\ Tmp(ticks) \div 25 \in Nat
    BY <1>1, <1>2, Conversion
  <2>2. CASE turns = 0
    <3>1. ms * 25 + remUsTicks' = ticks * 8 + remUsTicks
      BY <1>0, <1>1, <1>2, <2>1, <2>2
    <3>q. QED BY <3>1, <1>0, <1>1, <1>2 DEF osalTimeUpdate
  <2>3. CASE turns = 1
    <3>1. ms * 25 + remUsTicks' = ticks * 8 + remUsTicks
      BY <1>0, <1>1, <1>2, <2>1, <2>3
    <3>q. QED BY <3>1, <1>0, <1>1, <1>2 DEF osalTimeUpdate
  <2>q. QED BY <1>1, <2>2, <2>3
<1>4. msec = timeMSec + ms /\ msec \in Nat /\ msec <= 6241
  <2>1. (timeMSec + ms) % 65536 = timeMSec + ms
    BY <1>0, <1>1, InRange
  <2>q. QED BY <2>1, <1>0, <1>1
<1>5. timeMSec' = msec - RolledUp(msec) * 1000
  BY DEF osalTimeUpdate
<1>6. RolledUp(msec) \in Nat /\ timeMSec' \in Nat /\ timeMSec' <= 1000
  <2> HIDE DEF msec
  <2>1. /\ RolledUp(msec) \in Nat /\ msec - RolledUp(msec) * 1000 \in Nat
      /\ msec - RolledUp(msec) * 1000 <= 1000
    BY <1>4 DEF RolledUp
  <2>q. QED BY <2>1, <1>5
<1>7. lostMSec' = 0
  <2>1. lostMSec' = lostMSec + (timeMSec + ms) - (RolledUp(msec) * 1000 + timeMSec')
    BY DEF osalTimeUpdate
  <2>q. QED BY <1>0, <1>1, <1>4, <1>5, <1>6, <2>1 DEF IInv, ClockExact
<1>q. QED BY <1>2, <1>3, <1>6, <1>7 DEF IInv, TypeOK, ClockExact

(* The clock is exact for every sequence of passes of which none is more   *)
(* than 16376 ticks, 5.24 s, after the last (osalTimeUpdate).              *)
THEOREM ClockIsExact == SoonEnough /\ Spec => []ClockExact
<1>1. Init => IInv
  BY DEF Init, IInv, TypeOK, ClockExact
<1>2. SoonEnough /\ IInv /\ [Next]_vars => IInv'
  <2> SUFFICES ASSUME SoonEnough, IInv, [Next]_vars PROVE IInv'
    OBVIOUS
  <2>1. CASE Next
    BY <2>1, PassIsExact DEF Next
  <2>2. CASE UNCHANGED vars
    BY <2>2 DEF IInv, TypeOK, ClockExact, vars
  <2>q. QED BY <2>1, <2>2
<1>3. IInv => ClockExact
  BY DEF IInv
<1>4. SoonEnough => [](SoonEnough)
  <2>1. SoonEnough => SoonEnough'
    BY DEF SoonEnough
  <2>q. QED BY <2>1, PTL
<1>q. QED BY <1>1, <1>2, <1>3, <1>4, PTL DEF Spec

(* The rest is less than a millisecond and the clock shows no more than a  *)
(* second, however long the passes (osalTimeUpdate).                       *)
THEOREM ClockTypes == Spec => []TypeOK
<1>1. Init => TypeOK
  BY DEF Init, TypeOK
<1>2. TypeOK /\ [Next]_vars => TypeOK'
  <2> SUFFICES ASSUME TypeOK, [Next]_vars PROVE TypeOK'
    OBVIOUS
  <2>1. ASSUME NEW ticks \in Gaps, osalTimeUpdate(ticks) PROVE TypeOK'
    <3>1. W \in Nat /\ W > 0 /\ ticks \in Nat /\ MAXCALCTICKS \in Nat /\ MAXCALCTICKS > 0
      BY ClockAssumption
    <3>2. \A x \in Int : x % W \in Nat
      BY <3>1
    <3>3. Turns(ticks) \in Int
      BY <3>1 DEF Turns
    <3>4. RemUsTicks(ticks) \in Nat
      BY <3>1, <3>2, <3>3 DEF RemUsTicks, TypeOK
    <3>5. Tmp(ticks) \in Nat
      BY <3>1, <3>2, <3>3, <3>4 DEF Tmp
    <3>6. ElapsedMSec(ticks) \in Nat
      BY <3>1, <3>2, <3>3, <3>5 DEF ElapsedMSec
    <3> DEFINE msec == (timeMSec + ElapsedMSec(ticks)) % W
    <3>7. msec \in Nat
      BY <3>2, <3>6 DEF TypeOK
    <3>8. /\ remUsTicks' = Tmp(ticks) % 25
          /\ lostUs' = lostUs + (ticks * 8 + remUsTicks)
                              - (ElapsedMSec(ticks) * 25 + remUsTicks')
          /\ timeMSec' = msec - RolledUp(msec) * 1000
          /\ lostMSec' = lostMSec + (timeMSec + ElapsedMSec(ticks))
                                  - (RolledUp(msec) * 1000 + timeMSec')
      BY <2>1 DEF osalTimeUpdate
    <3> HIDE DEF msec
    <3>9. RolledUp(msec) \in Nat /\ timeMSec' \in 0 .. 1000
      BY <3>7, <3>8 DEF RolledUp
    <3>10. remUsTicks' \in 0 .. 24
      BY <3>5, <3>8
    <3>11. lostUs' \in Int /\ lostMSec' \in Int
      BY <3>1, <3>6, <3>8, <3>9, <3>10 DEF TypeOK
    <3> QED
      BY <3>9, <3>10, <3>11 DEF TypeOK
  <2>2. CASE UNCHANGED vars
    BY <2>2 DEF TypeOK, vars
  <2> QED
    BY <2>1, <2>2 DEF Next
<1> QED
  BY <1>1, <1>2, PTL DEF Spec
=============================================================================
