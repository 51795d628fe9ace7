----------------------------- MODULE Benchmark ------------------------------
(***************************************************************************)
(* dhrystone_main.c and the timer it measures with: the program reads the  *)
(* free-running counter before and after its runs, takes the difference    *)
(* and tries again with ten times the runs if that is too small.           *)
(*                                                                         *)
(* The timer is that of Timer, with the compare register as reset leaves   *)
(* it; nobody reads its status.  A step of the program that does not touch *)
(* the timer takes as many edges (Elsewhere) as it likes.                  *)
(***************************************************************************)
EXTENDS Dhrystone

CONSTANTS
  NUMBER_OF_RUNS, HZ, Too_Small_Time, Mic_secs_Per_Second,
  ElapsedMax        (* What the history variable elapsed counts up to.      *)

ASSUME BenchmarkAssumption ==
  /\ Modulus \in Nat /\ Modulus > 2 /\ Modulus % 2 = 0
  /\ NUMBER_OF_RUNS \in Nat \ {0} /\ HZ \in Nat \ {0}
  /\ HZ * NUMBER_OF_RUNS < Modulus \div 2
  /\ Too_Small_Time = 1
  /\ Mic_secs_Per_Second \in Nat
  /\ ElapsedMax \in Nat /\ ElapsedMax >= Modulus

VARIABLES
  CompareR, CounterR, StatusR,          (* the timer                        *)
  at,                                   (* the next statement of main       *)
  Number_Of_Runs, Begin_Time, End_Time, User_Time,
  Microseconds, Dhrystones_Per_Second,
  v,                                    (* the variables of the benchmark   *)
  elapsed,    (* Edges between the two reads of the counter (history).      *)
  total       (* Runs made so far, over all tries (history).                *)

T == INSTANCE Timer

timerVars == <<CompareR, CounterR, StatusR>>
times     == <<Begin_Time, End_Time, User_Time>>
report    == <<Microseconds, Dhrystones_Per_Second>>
vars == <<timerVars, at, Number_Of_Runs, times, report, v, elapsed, total>>

Statements == {"Start_Timer", "Runs", "Stop_Timer", "Check", "Report", "Done"}

Long == -(Modulus \div 2) .. Modulus \div 2 - 1

TypeOK ==
  /\ T!TypeOK
  /\ at \in Statements
  /\ {Number_Of_Runs, Begin_Time, End_Time, User_Time,
      Microseconds, Dhrystones_Per_Second} \subseteq Long
  /\ elapsed \in 0 .. ElapsedMax

-----------------------------------------------------------------------------

Idle        == [cs |-> FALSE, write |-> FALSE, addr |-> "None", data |-> 0]
ReadCounter == [cs |-> TRUE, write |-> FALSE, addr |-> "Counter", data |-> 0]

Longer == IF elapsed < ElapsedMax THEN elapsed + 1 ELSE elapsed

\* A rising edge while the program is busy with something else.
Elsewhere ==
  /\ at # "Done"
  /\ T!Tick(Idle)
  /\ elapsed' = IF at \in {"Runs", "Stop_Timer"} THEN Longer ELSE elapsed
  /\ UNCHANGED <<at, Number_Of_Runs, times, report, v, total>>

Start_Timer ==
  /\ at = "Start_Timer" /\ at' = "Runs"
  /\ Begin_Time' = Signed(T!DataOut(ReadCounter))
  /\ T!Tick(ReadCounter)
  /\ elapsed' = 1
  /\ UNCHANGED <<Number_Of_Runs, End_Time, User_Time, report, v, total>>

RunsMade ==
  /\ at = "Runs" /\ at' = "Stop_Timer"
  /\ v' = Runs(v, Number_Of_Runs)
  /\ total' = IF Number_Of_Runs > 0 THEN Wrap(total + Number_Of_Runs) ELSE total
  /\ UNCHANGED <<timerVars, Number_Of_Runs, times, report, elapsed>>

Stop_Timer ==
  /\ at = "Stop_Timer" /\ at' = "Check"
  /\ End_Time' = Signed(T!DataOut(ReadCounter))
  /\ T!Tick(ReadCounter)
  /\ UNCHANGED <<Number_Of_Runs, Begin_Time, User_Time, report, v, elapsed, total>>

\* Fault: the sign of the difference is lost.
Check_Unsigned ==
  /\ at = "Check"
  /\ LET difference == Wrap(IF End_Time >= Begin_Time THEN End_Time - Begin_Time
                            ELSE Begin_Time - End_Time)
     IN  /\ User_Time' = difference
         /\ IF difference < Too_Small_Time
            THEN Number_Of_Runs' = Wrap(Number_Of_Runs * 10) /\ at' = "Start_Timer"
            ELSE at' = "Report" /\ UNCHANGED Number_Of_Runs
  /\ UNCHANGED <<timerVars, Begin_Time, End_Time, report, v, elapsed, total>>

\* Fault: the difference is taken the wrong way round.
Check_Swapped ==
  /\ at = "Check"
  /\ LET difference == Wrap(Begin_Time - End_Time)
     IN  /\ User_Time' = difference
         /\ IF difference < Too_Small_Time
            THEN Number_Of_Runs' = Wrap(Number_Of_Runs * 10) /\ at' = "Start_Timer"
            ELSE at' = "Report" /\ UNCHANGED Number_Of_Runs
  /\ UNCHANGED <<timerVars, Begin_Time, End_Time, report, v, elapsed, total>>

\* Fault: ten times the runs without the overflow of an int.
Check_NoWrap ==
  /\ at = "Check"
  /\ LET difference == Wrap(End_Time - Begin_Time)
     IN  /\ User_Time' = difference
         /\ IF difference < Too_Small_Time
            THEN Number_Of_Runs' = Number_Of_Runs * 10 /\ at' = "Start_Timer"
            ELSE at' = "Report" /\ UNCHANGED Number_Of_Runs
  /\ UNCHANGED <<timerVars, Begin_Time, End_Time, report, v, elapsed, total>>

\* A difference below one cycle, a negative one included, calls for more runs.
Check ==
  /\ at = "Check"
  /\ LET difference == Wrap(End_Time - Begin_Time)
     IN  /\ User_Time' = difference
         /\ IF difference < Too_Small_Time
            THEN Number_Of_Runs' = Wrap(Number_Of_Runs * 10) /\ at' = "Start_Timer"
            ELSE at' = "Report" /\ UNCHANGED Number_Of_Runs
  /\ UNCHANGED <<timerVars, Begin_Time, End_Time, report, v, elapsed, total>>

\* C divides towards zero; the divider answers -1 to a division by zero.
Divided(m, n) ==
  IF n = 0 THEN -1
  ELSE IF m < 0 /\ n > 0 THEN -((-m) \div n)
  ELSE IF m >= 0 /\ n < 0 THEN -(m \div (-n))
  ELSE IF m < 0 THEN (-m) \div (-n)
  ELSE m \div n

\* The report, csr_tohost(1) and tb_exit(123).
Report ==
  /\ at = "Report" /\ at' = "Done"
  /\ Microseconds' =
       Divided(Wrap(Divided(User_Time, Number_Of_Runs) * Mic_secs_Per_Second), HZ)
  /\ Dhrystones_Per_Second' = Divided(Wrap(HZ * Number_Of_Runs), User_Time)
  /\ UNCHANGED <<timerVars, Number_Of_Runs, times, v, elapsed, total>>

Main == Start_Timer \/ RunsMade \/ Stop_Timer \/ Check \/ Report

Init ==
  /\ T!AtReset
  /\ at = "Start_Timer"
  /\ Number_Of_Runs = NUMBER_OF_RUNS
  /\ Begin_Time = 0 /\ End_Time = 0 /\ User_Time = 0
  /\ Microseconds = 0 /\ Dhrystones_Per_Second = 0
  /\ v = Initial
  /\ elapsed = 0 /\ total = 0

Next == Elsewhere \/ Main

\* The clock runs, and the core executes the program: no statement lasts for
\* ever.
Executed == \A s \in Statements \ {"Done"} : []<>(at # s)

Spec == Init /\ [][Next]_vars /\ WF_vars(Elsewhere) /\ Executed

-----------------------------------------------------------------------------
(* Correctness.                                                             *)

\* A measurement that began in the first half of the counter's period and is
\* reported is exact to the cycle, was made in the first try, and the rate
\* is computed from it without overflow: a counter that wraps around or
\* freezes at a match in the meantime yields no plausible number.
MeasurementExact ==
  at = "Done" /\ Begin_Time >= 0 =>
    /\ User_Time = elapsed
    /\ Number_Of_Runs = NUMBER_OF_RUNS
    /\ Dhrystones_Per_Second = (HZ * NUMBER_OF_RUNS) \div elapsed

\* The values the report says the variables should have, whatever the number
\* of tries and runs; Arr_2_Glob[8][7] counts the runs of all tries, which is
\* the number the report expects only if there was one.
FinalValues ==
  at \in {"Stop_Timer", "Check", "Report", "Done"} /\ total > 0 =>
    /\ v.Int_Glob = 5 /\ v.Bool_Glob = 1 /\ v.Ch_1_Glob = 65 /\ v.Ch_2_Glob = 66
    /\ v.Arr_1_Glob[8] = 7
    /\ v.Arr_2_Glob[8][7] = Wrap(total + 10)
    /\ v.rec = [r \in Records |->
                  [Ptr_Comp |-> "Next", Discr |-> 0, Str_Comp |-> 0,
                   Enum_Comp |-> IF r = "Ptr" THEN 2 ELSE 1,
                   Int_Comp |-> IF r = "Ptr" THEN 17 ELSE 18]]
    /\ v.Int_1_Loc = 5 /\ v.Int_2_Loc = 13 /\ v.Int_3_Loc = 7 /\ v.Enum_Loc = 1
    /\ v.Str_1_Loc = 1 /\ v.Str_2_Loc = 2

\* A try that begins in the first half of the counter's first period ends in
\* a report unless its runs take half a period or more: no such measurement
\* sends the program back to try again, where the counter, frozen at 0 by the
\* match nobody reads, would keep it for ever.
Reports ==
  at = "Runs" /\ Begin_Time >= 0 /\ StatusR = 0
    ~> at = "Done" \/ elapsed >= Modulus \div 2
=============================================================================
