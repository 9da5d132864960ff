---------------------------- MODULE SpeedControl ----------------------------
(***************************************************************************)
(* speedcontrol: DataStatistics keeps two vectors of counters, ControlSpeed *)
(* (a limit on calls) and SpeedData (calls counted and reported once a      *)
(* period). The counts are atomic integers; a report reads the count and    *)
(* stores it as lastCounNum_ in two steps, while calls go on.               *)
(*                                                                          *)
(* ControlSpeed::everySeondReset has no caller, and controlSpeedVec is      *)
(* private without an accessor: the lastCounNum_ of a limit stays 0.        *)
(***************************************************************************)
EXTENDS Integers

CONSTANTS
  Indices,        \* the indices the application uses
  MaxSpeed,       \* per index: the maxSpeed given, 0 for no limit
  Word,           \* 2^64, the values of uint64_t
  IntMax,         \* 2^31, the first number that is no int
  MaxCalls        \* bound on the calls counted

ASSUME SpeedAssumption ==
  /\ Indices \subseteq Nat
  /\ MaxSpeed \in [Indices -> Int]
  /\ IntMax \in Nat \ {0} /\ Word \in Nat \ {0}
  /\ MaxCalls \in Nat /\ MaxCalls < Word

Kinds == {"control", "data"}
Idle == -1

VARIABLES
  ready,          \* the set-up is over: counters are in use
  calls,          \* calls counted so far, for the bound
  size, objs,     \* per vector: its size, the indices that hold a counter
  all, passed,    \* ControlSpeed, per index: allCountNum_, the calls let through
  dall, dlast,    \* SpeedData, per index: allCountNum_, lastCounNum_
  sat, sgot,      \* everySecondSpeed: the index, all
  reported,       \* per index: the speeds reported so far, summed up
  overrun         \* per index: a speed was reported that is no int

setVars == <<ready, size, objs>>
controlVars == <<all, passed>>
dataVars == <<dall, dlast, sat, sgot, reported, overrun>>
vars == <<setVars, calls, controlVars, dataVars>>

Zero == [i \in Indices |-> 0]

Init ==
  /\ ready = FALSE /\ calls = 0 /\ size = [k \in Kinds |-> 0] /\ objs = [k \in Kinds |-> {}]
  /\ all = Zero /\ passed = Zero
  /\ dall = Zero /\ dlast = Zero /\ sat = Idle /\ sgot = 0 /\ reported = Zero
  /\ overrun = [i \in Indices |-> FALSE]

-----------------------------------------------------------------------------
(* DataStatistics: set-up, by one thread before the counters are used       *)

\* speedControlIndexInit and speedDataIndexInit: a vector that is long enough is
\* made twice as long, all the same
IndexInit(k, i) ==
  /\ ~ready /\ i \notin objs[k]
  /\ size' = [size EXCEPT ![k] = IF @ <= i THEN i + 1 ELSE @ + @]
  /\ objs' = [objs EXCEPT ![k] = @ \cup {i}]
  /\ UNCHANGED <<ready, calls, controlVars, dataVars>>

Ready == ~ready /\ ready' = TRUE /\ UNCHANGED <<calls, size, objs, controlVars, dataVars>>

Has(k, i) == ready /\ i < size[k] /\ i \in objs[k]

-----------------------------------------------------------------------------
(* ControlSpeed                                                             *)

\* static_cast<uint64_t>(maxSpeed): a negative limit is a very large one
Limit(i) == MaxSpeed[i] % Word

\* controlSpeedAdd, of an index with a counter: speedCount. The one access to
\* what threads share is allCountNum_.incrementAndGet().
ControlAdd(i) ==
  LET nowCount == (all[i] + 1) % Word
      ok == Limit(i) = 0 \/ nowCount <= Limit(i)
  IN  /\ Has("control", i) /\ calls < MaxCalls
      /\ calls' = calls + 1
      /\ all' = [all EXCEPT ![i] = nowCount]
      /\ passed' = [passed EXCEPT ![i] = IF ok THEN @ + 1 ELSE @]
      /\ UNCHANGED <<setVars, dataVars>>

-----------------------------------------------------------------------------
(* SpeedData. speedDataAdd; of an index without a counter it does nothing   *)
DataAdd(i) ==
  /\ Has("data", i) /\ calls < MaxCalls
  /\ calls' = calls + 1
  /\ dall' = [dall EXCEPT ![i] = (@ + 1) % Word]
  /\ UNCHANGED <<setVars, controlVars, dlast, sat, sgot, reported, overrun>>

\* currentSpeed, by a timer. everySecondSpeed: allCountNum_.get(),
SpeedGet(i) ==
  /\ Has("data", i) /\ sat = Idle
  /\ sat' = i /\ sgot' = dall[i]
  /\ UNCHANGED <<setVars, calls, controlVars, dall, dlast, reported, overrun>>

\* static_cast<int> of a uint64_t
Cast(d) ==
  LET low == d % (2 * IntMax)
  IN  IF low < IntMax THEN low ELSE low - 2 * IntMax

\* the report of a difference that is an int, or of one that is not
Report(i, diff) ==
  /\ reported' = [reported EXCEPT ![i] = @ + Cast(diff)]
  /\ overrun' = [overrun EXCEPT ![i] = (@ \/ diff >= IntMax)]

\* Mutation: lastCounNum_ takes the count a second time.
SpeedStoreAgain ==
  /\ sat # Idle
  /\ Report(sat, (sgot - dlast[sat]) % Word)
  /\ dlast' = [dlast EXCEPT ![sat] = dall[sat]]
  /\ sat' = Idle /\ sgot' = 0
  /\ UNCHANGED <<setVars, calls, controlVars, dall>>

\* the speed since the last time, and lastCounNum_ = all
SpeedStore ==
  /\ sat # Idle
  /\ Report(sat, (sgot - dlast[sat]) % Word)
  /\ dlast' = [dlast EXCEPT ![sat] = sgot]
  /\ sat' = Idle /\ sgot' = 0
  /\ UNCHANGED <<setVars, calls, controlVars, dall>>

-----------------------------------------------------------------------------
Next ==
  \/ Ready \/ SpeedStore
  \/ \E i \in Indices :
       \/ \E k \in Kinds : IndexInit(k, i)
       \/ ControlAdd(i) \/ DataAdd(i) \/ SpeedGet(i)

Spec == Init /\ [][Next]_vars

-----------------------------------------------------------------------------
(* Properties.                                                              *)

\* Every variable has its type.
TypeOK ==
  /\ ready \in BOOLEAN /\ size \in [Kinds -> Nat] /\ objs \in [Kinds -> SUBSET Indices]
  /\ calls \in 0 .. MaxCalls
  /\ all \in [Indices -> 0 .. MaxCalls] /\ passed \in [Indices -> Nat]
  /\ dall \in [Indices -> 0 .. MaxCalls] /\ dlast \in [Indices -> 0 .. MaxCalls]
  /\ sat \in Indices \cup {Idle} /\ sgot \in 0 .. MaxCalls
  /\ reported \in [Indices -> Int] /\ overrun \in [Indices -> BOOLEAN]

\* controlSpeedVec[index] and speedDataVec[index] exist for every index that was
\* initialised, in whatever order that was done.
InitialisedIsInRange == \A k \in Kinds : objs[k] \subseteq 0 .. size[k] - 1

\* everySecondSpeed: no count is reported twice and none is skipped, though calls
\* are counted while a speed is taken. The speeds returned add up to the last
\* total handed out, as long as every difference is an int.
SpeedsAddUp ==
  \A i \in Indices : dlast[i] <= dall[i] /\ (overrun[i] \/ reported[i] = dlast[i])

\* The same without the excuse. (Not met: of 2^31 calls in a period the speed is
\* a negative number.)
SpeedsAlwaysAddUp == \A i \in Indices : reported[i] = dlast[i]

\* A limit of calls in a period lets that many calls through again in a later
\* one. (Not met: nothing resets lastCounNum_, so that the limit counts all calls
\* ever made.)
LimitComesBack ==
  \A i \in Indices : MaxSpeed[i] > 0 /\ all[i] > 2 * MaxSpeed[i] => passed[i] > MaxSpeed[i]
=============================================================================
