------------------------- MODULE SpeedControlProofs -------------------------
(***************************************************************************)
(* Proofs about SpeedControl, for any indices and limits, any width of an  *)
(* int and any number of calls that does not wrap a uint64_t: the type     *)
(* invariant, that initialised indices are in range, and that the speeds   *)
(* reported add up.                                                        *)
(***************************************************************************)
EXTENDS SpeedControl, TLAPS

\* Counts stay within the calls made.
ControlInv == \A i \in Indices : all[i] <= calls

\* The same for the counters that are reported; the count a report has read lies
\* between the last one reported and the counter.
DataInv ==
  /\ \A i \in Indices :
       /\ dlast[i] <= dall[i] /\ dall[i] <= calls
       /\ ~overrun[i] => reported[i] = dlast[i]
  /\ sat # Idle => dlast[sat] <= sgot /\ sgot <= dall[sat]

IInv == TypeOK /\ InitialisedIsInRange /\ ControlInv /\ DataInv

\* The difference of two uint64_t counts, the second not the larger one.
LEMMA Difference ==
  ASSUME NEW a \in 0 .. MaxCalls, NEW b \in 0 .. MaxCalls, b <= a
  PROVE  (a - b) % Word = a - b
<1>1. Word \in Nat /\ MaxCalls \in Nat /\ MaxCalls < Word
  BY SpeedAssumption
<1> DEFINE d == a - b  r == d % Word  q == d \div Word
<1>2. d \in Int /\ Word > 0 /\ d >= 0 /\ d < Word
  BY <1>1
<1>3. r \in 0 .. Word - 1 /\ q \in Int /\ d = Word * q + r
  BY <1>1, <1>2 DEF d, r, q
<1> HIDE DEF r, q
<1>4. q = 0
  BY <1>1, <1>2, <1>3
<1> QED  BY <1>1, <1>2, <1>3, <1>4 DEF r

\* static_cast<int>: a small difference is kept, and what comes out is a number.
LEMMA CastInt ==
  ASSUME NEW d \in Nat
  PROVE  Cast(d) \in Int /\ (d < IntMax => Cast(d) = d)
<1>1. IntMax \in Nat /\ IntMax > 0 /\ 2 * IntMax \in Nat /\ 2 * IntMax > 0
  BY SpeedAssumption
<1> DEFINE w == 2 * IntMax  r == d % w  q == d \div w
<1>2. w \in Nat /\ w > 0 /\ w = IntMax + IntMax
  BY <1>1
<1> HIDE DEF w
<1>3. r \in 0 .. w - 1 /\ q \in Int /\ d = w * q + r
  BY <1>2 DEF r, q
<1>4. Cast(d) = IF r < IntMax THEN r ELSE r - w
  BY DEF Cast, r, w
<1> HIDE DEF r, q
<1>5. Cast(d) \in Int
  BY <1>2, <1>3, <1>4
<1>6. ASSUME d < IntMax PROVE Cast(d) = d
  <2>1. q = 0
    BY <1>1, <1>2, <1>3, <1>6
  <2>2. r = d
    BY <1>2, <1>3, <2>1
  <2> QED  BY <1>4, <1>6, <2>2
<1> QED  BY <1>5, <1>6

\* Counting does not wrap.
LEMMA Increment ==
  ASSUME NEW a \in Nat, a + 1 < Word, Word \in Nat
  PROVE  (a + 1) % Word = a + 1
<1> DEFINE r == (a + 1) % Word  q == (a + 1) \div Word
<1>1. r \in 0 .. Word - 1 /\ q \in Int /\ a + 1 = Word * q + r
  OBVIOUS
<1> HIDE DEF r, q
<1>2. q = 0
  BY <1>1
<1> QED  BY <1>1, <1>2 DEF r

\* The initial state satisfies the invariant.
LEMMA InitInv == Init => IInv
<1> SUFFICES ASSUME Init PROVE IInv  OBVIOUS
<1>0. 0 \in 0 .. MaxCalls
  BY SpeedAssumption
<1>1. TypeOK
  <2>1. /\ ready \in BOOLEAN /\ size \in [Kinds -> Nat] /\ objs \in [Kinds -> SUBSET Indices]
        /\ calls \in 0 .. MaxCalls
    BY <1>0 DEF Init
  <2>2. Zero \in [Indices -> 0 .. MaxCalls] /\ Zero \in [Indices -> Nat]
        /\ Zero \in [Indices -> Int]
    BY <1>0 DEF Zero
  <2>3. sat \in Indices \cup {Idle} /\ sgot \in 0 .. MaxCalls /\ overrun \in [Indices -> BOOLEAN]
    BY <1>0 DEF Init
  <2> QED  BY <2>1, <2>2, <2>3 DEF Init, TypeOK
<1>2. InitialisedIsInRange
  BY DEF Init, InitialisedIsInRange
<1>3. ControlInv
  <2>1. calls = 0 /\ \A i \in Indices : all[i] = 0
    BY DEF Init, Zero
  <2>2. ASSUME NEW i \in Indices PROVE all[i] <= calls
    <3>1. all[i] = 0
      BY <2>1
    <3> QED  BY <2>1, <3>1
  <2> QED  BY <2>2 DEF ControlInv
<1>4. DataInv
  BY DEF Init, DataInv, Zero, Idle
<1> QED  BY <1>1, <1>2, <1>3, <1>4 DEF IInv

\* Growing one of the vectors changes no counter.
LEMMA IndexInitStep ==
  ASSUME IInv, NEW k \in Kinds, NEW i \in Indices, IndexInit(k, i)
  PROVE  IInv'
<1> USE DEF IInv
<1>1. i \in Nat
  BY SpeedAssumption
<1>2. /\ size' = [size EXCEPT ![k] = IF @ <= i THEN i + 1 ELSE @ + @]
      /\ objs' = [objs EXCEPT ![k] = @ \cup {i}]
      /\ UNCHANGED <<ready, calls, controlVars, dataVars>>
  BY DEF IndexInit
<1>3. TypeOK'
  BY <1>1, <1>2 DEF TypeOK, controlVars, dataVars
<1>4. ASSUME NEW j \in Kinds
      PROVE  objs'[j] \subseteq 0 .. size'[j] - 1
  <2>1. CASE j = k
    <3>1. objs'[j] = objs[j] \cup {i} /\ size[j] \in Nat
          /\ size'[j] = IF size[j] <= i THEN i + 1 ELSE size[j] + size[j]
      BY <1>2, <2>1 DEF TypeOK
    <3>2. objs[j] \subseteq 0 .. size[j] - 1
      BY DEF InitialisedIsInRange
    <3>3. i < size'[j] /\ size[j] <= size'[j] /\ size'[j] \in Nat
      BY <1>1, <3>1
    <3> QED  BY <1>1, <3>1, <3>2, <3>3
  <2>2. CASE j # k
    <3>1. objs'[j] = objs[j] /\ size'[j] = size[j]
      BY <1>2, <2>2 DEF TypeOK
    <3> QED  BY <3>1 DEF InitialisedIsInRange
  <2> QED  BY <2>1, <2>2
<1>5. InitialisedIsInRange'
  BY <1>4 DEF InitialisedIsInRange
<1>6. ControlInv' /\ DataInv'
  BY <1>2 DEF ControlInv, DataInv, controlVars, dataVars
<1> QED  BY <1>3, <1>5, <1>6

\* A call is counted against a limit.
LEMMA ControlAddStep ==
  ASSUME IInv, NEW i \in Indices, ControlAdd(i)
  PROVE  IInv'
<1> USE DEF IInv
<1>0. MaxCalls \in Nat /\ Word \in Nat /\ MaxCalls < Word
  BY SpeedAssumption
<1>1. /\ all[i] \in Nat /\ all[i] <= calls /\ calls \in Nat /\ calls < MaxCalls
      /\ all[i] + 1 < Word
  BY <1>0 DEF TypeOK, ControlInv, ControlAdd
<1>2. PICK ok : /\ all' = [all EXCEPT ![i] = all[i] + 1] /\ calls' = calls + 1
                /\ passed' = [passed EXCEPT ![i] = IF ok THEN @ + 1 ELSE @]
                /\ UNCHANGED <<setVars, dataVars>>
  BY <1>0, <1>1, Increment DEF ControlAdd
<1>3. TypeOK'
  <2>1. passed' \in [Indices -> Nat]
    BY <1>2 DEF TypeOK
  <2>2. all' \in [Indices -> 0 .. MaxCalls] /\ calls' \in 0 .. MaxCalls
    BY <1>0, <1>1, <1>2 DEF TypeOK
  <2> QED  BY <1>2, <2>1, <2>2 DEF TypeOK, setVars, dataVars
<1>4. InitialisedIsInRange'
  BY <1>2 DEF InitialisedIsInRange, setVars
<1>5. ControlInv'
  BY <1>1, <1>2 DEF ControlInv, TypeOK
<1>6. DataInv'
  BY <1>1, <1>2 DEF DataInv, TypeOK, dataVars
<1> QED  BY <1>3, <1>4, <1>5, <1>6

\* A call is counted that is only reported.
LEMMA DataAddStep ==
  ASSUME IInv, NEW i \in Indices, DataAdd(i)
  PROVE  IInv'
<1> USE DEF IInv
<1>0. MaxCalls \in Nat /\ Word \in Nat /\ MaxCalls < Word
  BY SpeedAssumption
<1>1. /\ dall[i] \in Nat /\ dall[i] <= calls /\ calls \in Nat /\ calls < MaxCalls
      /\ dall[i] + 1 < Word
  BY <1>0 DEF TypeOK, DataInv, DataAdd
<1>2. dall' = [dall EXCEPT ![i] = dall[i] + 1] /\ calls' = calls + 1
      /\ UNCHANGED <<setVars, controlVars, dlast, sat, sgot, reported, overrun>>
  BY <1>0, <1>1, Increment DEF DataAdd
<1>3. TypeOK'
  BY <1>0, <1>1, <1>2 DEF TypeOK, setVars, controlVars
<1>4. InitialisedIsInRange'
  BY <1>2 DEF InitialisedIsInRange, setVars
<1>5. ControlInv'
  BY <1>1, <1>2 DEF ControlInv, controlVars, TypeOK
<1>6. DataInv'
  BY <1>1, <1>2 DEF DataInv, TypeOK
<1> QED  BY <1>3, <1>4, <1>5, <1>6

\* The speed is taken: the count is read,
LEMMA SpeedGetStep ==
  ASSUME IInv, NEW i \in Indices, SpeedGet(i)
  PROVE  IInv'
<1> USE DEF IInv
<1>1. TypeOK'
  BY DEF SpeedGet, TypeOK, setVars, controlVars
<1>2. InitialisedIsInRange' /\ ControlInv'
  BY DEF SpeedGet, InitialisedIsInRange, ControlInv, setVars, controlVars
<1>3. DataInv'
  BY DEF SpeedGet, DataInv, TypeOK
<1> QED  BY <1>1, <1>2, <1>3

\* and the difference reported.
LEMMA SpeedStoreStep ==
  ASSUME IInv, SpeedStore
  PROVE  IInv'
<1> USE DEF IInv
<1> DEFINE d == sgot - dlast[sat]
<1>1. /\ sat \in Indices /\ dlast[sat] <= sgot /\ sgot <= dall[sat]
      /\ sgot \in 0 .. MaxCalls /\ dlast[sat] \in 0 .. MaxCalls /\ MaxCalls \in Nat
      /\ overrun[sat] \in BOOLEAN /\ reported[sat] \in Int
      /\ (~overrun[sat] => reported[sat] = dlast[sat])
  BY SpeedAssumption DEF SpeedStore, TypeOK, DataInv
<1>2. d \in Nat /\ (sgot - dlast[sat]) % Word = d /\ dlast[sat] + d = sgot
  <2>1. (sgot - dlast[sat]) % Word = d
    BY <1>1, Difference
  <2>2. d \in Nat /\ dlast[sat] + d = sgot
    BY <1>1
  <2> QED  BY <2>1, <2>2
<1>3. Cast(d) \in Int /\ (d < IntMax => Cast(d) = d) /\ IntMax \in Nat
  BY <1>2, CastInt, SpeedAssumption
<1> DEFINE c == Cast(d)  o == (overrun[sat] \/ d >= IntMax)
<1>4. /\ reported' = [reported EXCEPT ![sat] = @ + c]
      /\ overrun' = [overrun EXCEPT ![sat] = o]
      /\ dlast' = [dlast EXCEPT ![sat] = sgot]
      /\ sat' = Idle /\ sgot' = 0
      /\ UNCHANGED <<setVars, calls, controlVars, dall>>
  BY <1>2 DEF SpeedStore, Report
<1>5. ~o => reported[sat] + c = sgot
  BY <1>1, <1>2, <1>3
<1>6. c \in Int /\ o \in BOOLEAN
  BY <1>1, <1>3
<1> HIDE DEF c, o, d
<1>7. TypeOK'
  <2>1. reported' \in [Indices -> Int]
    BY <1>1, <1>4, <1>6 DEF TypeOK
  <2>2. overrun' \in [Indices -> BOOLEAN]
    BY <1>4, <1>6 DEF TypeOK
  <2>3. dlast' \in [Indices -> 0 .. MaxCalls] /\ sat' \in Indices \cup {Idle} /\ sgot' \in 0 .. MaxCalls
    BY <1>1, <1>4 DEF TypeOK
  <2> QED  BY <1>4, <2>1, <2>2, <2>3 DEF TypeOK, setVars, controlVars
<1>8. InitialisedIsInRange' /\ ControlInv'
  BY <1>4 DEF InitialisedIsInRange, ControlInv, setVars, controlVars
<1>9. DataInv'
  <2>1. ASSUME NEW i \in Indices
        PROVE  /\ dlast'[i] <= dall'[i] /\ dall'[i] <= calls'
               /\ ~overrun'[i] => reported'[i] = dlast'[i]
    <3>1. CASE i = sat
      <4>1. dlast'[i] = sgot /\ dall'[i] = dall[i] /\ calls' = calls
        BY <1>4, <3>1 DEF TypeOK
      <4>2. overrun'[i] = o /\ reported'[i] = reported[sat] + c
        BY <1>4, <3>1 DEF TypeOK
      <4> QED  BY <1>1, <1>5, <3>1, <4>1, <4>2 DEF DataInv
    <3>2. CASE i # sat
      BY <1>4, <3>2 DEF DataInv, TypeOK
    <3> QED  BY <3>1, <3>2
  <2> QED  BY <1>4, <2>1 DEF DataInv
<1> QED  BY <1>7, <1>8, <1>9

\* Every step keeps the invariant.
LEMMA NextInv == IInv /\ [Next]_vars => IInv'
<1> SUFFICES ASSUME IInv, [Next]_vars PROVE IInv'
  OBVIOUS
<1>1. CASE Ready
  BY <1>1 DEF Ready, IInv, TypeOK, InitialisedIsInRange, ControlInv, DataInv, controlVars, dataVars
<1>2. CASE UNCHANGED vars
  BY <1>2 DEF vars, IInv, TypeOK, InitialisedIsInRange, ControlInv, DataInv, setVars, controlVars,
              dataVars
<1> QED
  BY <1>1, <1>2, IndexInitStep, ControlAddStep, DataAddStep, SpeedGetStep, SpeedStoreStep
  DEF Next

\* IInv is an invariant of the specification.
LEMMA Invariance == Spec => []IInv
  BY InitInv, NextInv, PTL DEF Spec

\* The type invariant of the counters (ControlData.h) and their vectors
\* (SpeedControl.cpp).
THEOREM TypeCorrect == Spec => []TypeOK
<1>1. IInv => TypeOK
  BY DEF IInv
<1> QED  BY <1>1, Invariance, PTL

\* speedControlIndexInit and speedDataIndexInit: an index that was initialised is
\* in range, whatever the order of the indices.
THEOREM IndicesInRange == Spec => []InitialisedIsInRange
<1>1. IInv => InitialisedIsInRange
  BY DEF IInv
<1> QED  BY <1>1, Invariance, PTL

\* SpeedData::everySecondSpeed: no count is reported twice or skipped, for any
\* width of an int, until a difference is no int.
THEOREM ReportsAddUp == Spec => []SpeedsAddUp
<1>1. IInv => SpeedsAddUp
  BY DEF IInv, DataInv, SpeedsAddUp
<1> QED  BY <1>1, Invariance, PTL
=============================================================================
