----------------------------- MODULE Dhrystone ------------------------------
(***************************************************************************)
(* One run through the Dhrystone benchmark (the body of the loop in        *)
(* dhrystone_main.c with the procedures of dhrystone.c), as a function on  *)
(* the variables of the program.                                           *)
(*                                                                         *)
(* A character is its code, a string the number of the text it holds       *)
(* (0: SOME STRING, 1: 1'ST, 2: 2'ND, 3: 3'RD, in the order of strcmp).    *)
(***************************************************************************)
EXTENDS Integers

CONSTANT Modulus    (* Number of words: 2^32.                               *)

\* A word as an int or a long, and an int after an overflow.
Signed(w) == IF w < Modulus \div 2 THEN w ELSE w - Modulus
Wrap(n)   == Signed(n % Modulus)

Ident_1 == 0
Ident_2 == 1
Ident_3 == 2
Ident_4 == 3
Ident_5 == 4

\* The records that Ptr_Glob and Next_Ptr_Glob point to.
Records == {"Ptr", "Next"}

\* The indices of the arrays: those of 0 .. 49 that the program uses.  The
\* other elements stay 0.
One_Fifty == {7, 8, 9, 28, 38}

Initial ==
  [Int_Glob |-> 0, Bool_Glob |-> 0, Ch_1_Glob |-> 0, Ch_2_Glob |-> 0,
   Arr_1_Glob |-> [k \in One_Fifty |-> 0],
   Arr_2_Glob |-> [k \in One_Fifty |-> [l \in One_Fifty |-> IF k = 8 /\ l = 7 THEN 10 ELSE 0]],
   rec |-> [r \in Records |->
              [Ptr_Comp |-> "Next", Discr |-> Ident_1,
               Enum_Comp |-> IF r = "Ptr" THEN Ident_3 ELSE Ident_1,
               Int_Comp |-> IF r = "Ptr" THEN 40 ELSE 0, Str_Comp |-> 0]],
   Int_1_Loc |-> 0, Int_2_Loc |-> 0, Int_3_Loc |-> 0, Enum_Loc |-> Ident_1,
   Str_1_Loc |-> 1, Str_2_Loc |-> 0]

-----------------------------------------------------------------------------

\* Func_1 answers Ident_1 for different characters; for equal ones it also
\* changes Ch_1_Glob.
Func_1(c, d)         == IF c # d THEN Ident_1 ELSE Ident_2
Func_1_Globals(s, c, d) == IF c # d THEN s ELSE [s EXCEPT !.Ch_1_Glob = c]

\* The loop compares str1[2] = 'R' with str2[3] = 'Y' once and leaves 'A' in
\* Ch_Loc, so that only strcmp decides.
Func_2(str1, str2) == str1 > str2
Func_2_Globals(s, str1, str2) ==
  IF Func_2(str1, str2) THEN [s EXCEPT !.Int_Glob = 3 + 7] ELSE s

Proc_5(s) == [s EXCEPT !.Ch_1_Glob = 65, !.Bool_Glob = 0]

Proc_4(s) ==
  [s EXCEPT !.Bool_Glob = IF s.Ch_1_Glob = 65 \/ s.Bool_Glob = 1 THEN 1 ELSE 0,
            !.Ch_2_Glob = 66]

\* What Proc_6 leaves in *Enum_Ref_Par.
Proc_6(s, e) ==
  CASE e = Ident_1 -> Ident_1
    [] e = Ident_2 -> IF s.Int_Glob > 100 THEN Ident_1 ELSE Ident_4
    [] e = Ident_3 -> Ident_2
    [] e = Ident_4 -> Ident_4
    [] e = Ident_5 -> Ident_3

Proc_7(i, j) == j + (i + 2)

Proc_8(s, i, j) ==
  LET l   == i + 5
      Arr == s.Arr_2_Glob
  IN  [s EXCEPT
        !.Arr_1_Glob = [s.Arr_1_Glob EXCEPT ![l] = j, ![l + 1] = j, ![l + 30] = l],
        !.Arr_2_Glob =
          [Arr EXCEPT ![l] = [Arr[l] EXCEPT ![l] = l, ![l + 1] = l,
                                            ![l - 1] = Wrap(Arr[l][l - 1] + 1)],
                      ![l + 20] = [Arr[l + 20] EXCEPT ![l] = j]],
        !.Int_Glob = 5]

Proc_3(s, next) ==
  [s EXCEPT !.rec[next].Ptr_Comp = s.rec["Ptr"].Ptr_Comp,
            !.rec["Ptr"].Int_Comp = Proc_7(10, s.Int_Glob)]

\* Fault: the third Proc_7 of the run is left out.
Proc_1_NoThird(s) ==
  LET next == s.rec["Ptr"].Ptr_Comp
      copied == [s EXCEPT !.rec[next] = [s.rec["Ptr"] EXCEPT !.Int_Comp = 5],
                          !.rec["Ptr"].Int_Comp = 5]
      t == Proc_3(copied, next)
  IN  [t EXCEPT !.rec[next].Int_Comp = 6,
                !.rec[next].Enum_Comp = Proc_6(t, t.rec["Ptr"].Enum_Comp)]

\* Called with Ptr_Glob: its record is copied to the next one, then both are
\* changed, the next one through the copy of the pointer.
Proc_1(s) ==
  LET next == s.rec["Ptr"].Ptr_Comp
      copied == [s EXCEPT !.rec[next] = [s.rec["Ptr"] EXCEPT !.Int_Comp = 5],
                          !.rec["Ptr"].Int_Comp = 5]
      t == Proc_3(copied, next)
  IN  IF t.rec[next].Discr = Ident_1
      THEN [t EXCEPT !.rec[next].Int_Comp = Proc_7(6, 10),
                     !.rec[next].Enum_Comp = Proc_6(t, t.rec["Ptr"].Enum_Comp),
                     !.rec[next].Ptr_Comp = t.rec["Ptr"].Ptr_Comp]
      ELSE [t EXCEPT !.rec["Ptr"] = t.rec[t.rec["Ptr"].Ptr_Comp]]

\* The loop ends with its first round because Ch_1_Glob is 'A'.
Proc_2(s, v) == v + 10 - 1 - s.Int_Glob

-----------------------------------------------------------------------------
(* The body of the loop over Run_Index.                                     *)

\* Up to Proc_8.  The while loop goes round once, with Int_1_Loc = 2.
FirstHalf(s) ==
  LET t == Proc_4(Proc_5(s))
      u == [Func_2_Globals(t, t.Str_1_Loc, 2) EXCEPT
              !.Bool_Glob = IF Func_2(t.Str_1_Loc, 2) THEN 0 ELSE 1, !.Str_2_Loc = 2,
              !.Enum_Loc = Ident_2, !.Int_1_Loc = 3, !.Int_2_Loc = 3,
              !.Int_3_Loc = Proc_7(2, 3)]
  IN  Proc_1(Proc_8(u, u.Int_1_Loc, u.Int_3_Loc))

\* One round of the loop over Ch_Index.
Letter(s, c, Run_Index) ==
  LET t == Func_1_Globals(s, c, 67)
  IN  IF t.Enum_Loc # Func_1(c, 67) THEN t
      ELSE [t EXCEPT !.Enum_Loc = Proc_6(t, Ident_1), !.Str_2_Loc = 3,
                     !.Int_2_Loc = Run_Index, !.Int_Glob = Run_Index]

\* Ch_Index runs from 'A' to Ch_2_Glob, which is 'B' throughout.
SecondHalf(s, Run_Index) ==
  LET t == Letter(Letter(s, 65, Run_Index), 66, Run_Index)
      product  == t.Int_2_Loc * t.Int_1_Loc
      quotient == product \div t.Int_3_Loc
  IN  [t EXCEPT !.Int_2_Loc = 7 * (product - t.Int_3_Loc) - quotient,
                !.Int_1_Loc = Proc_2(t, quotient)]

OneRun(s, Run_Index) == SecondHalf(FirstHalf(s), Run_Index)

\* for (Run_Index = 1; Run_Index <= n; ++Run_Index)
Runs(s, n) ==
  LET after[k \in 0 .. n] == IF k = 0 THEN s ELSE OneRun(after[k - 1], k)
  IN  IF n < 1 THEN s ELSE after[n]
=============================================================================
