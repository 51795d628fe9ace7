------------------------------- MODULE Tbman -------------------------------
(***************************************************************************)
(* The testbench manager (tbman_wrap, tbman_apbs, tbman_regs) of a SIM     *)
(* build: a program prints characters and numbers on the simulation        *)
(* console and ends the simulation through it.  One Edge is one rising     *)
(* edge; the argument is what the bus asks of it in that cycle.            *)
(***************************************************************************)
EXTENDS Naturals, Sequences

CONSTANTS
  Modulus,        (* Number of words: 2^32.                                 *)
  CharSize,       (* Number of characters, wdata[7:0]: 2^8.                 *)
  IrqSize,        (* Number of values of irq_force, wdata[15:0]: 2^16.      *)
  Newline,        (* The character that ends a line.                        *)
  LineMax         (* Characters print_str holds: 128.                       *)

VARIABLES
  print_str,      (* The characters of the line so far, as many as fit.     *)
  irq_force,
  console,        (* What $display has shown.                               *)
  finished        (* $finish has been called.                               *)

vars == <<print_str, irq_force, console, finished>>

\* addr = apbs_paddr & 16'h1c.
Ports == <<"PRINT", "PUTINT", "EXIT", "DEFINES", "STUB", "IRQ_FORCE", "NONE", "NONE">>
Port(addr) == Ports[1 + ((addr \div 4) % 8)]

\* tbman_sel is both psel and penable.
Bus == [sel : BOOLEAN, write : BOOLEAN, addr : 0 .. Modulus - 1,
        data : 0 .. Modulus - 1]

Writes(b, port) == b.sel /\ b.write /\ Port(b.addr) = port

Char(b) == b.data % CharSize

TypeOK ==
  /\ print_str \in Seq(0 .. CharSize - 1) /\ Len(print_str) <= LineMax
  /\ irq_force \in 0 .. IrqSize - 1
  /\ finished \in BOOLEAN

-----------------------------------------------------------------------------

\* Fault: print_ptr runs around the buffer.
PrintNext_Wraps(b) ==
  IF ~Writes(b, "PRINT") THEN print_str
  ELSE IF Char(b) = Newline THEN <<>>
  ELSE IF Len(print_str) = LineMax THEN <<Char(b)>>
  ELSE Append(print_str, Char(b))

\* Fault: the buffer is not bounded.
PrintNext_Grows(b) ==
  IF ~Writes(b, "PRINT") THEN print_str
  ELSE IF Char(b) = Newline THEN <<>>
  ELSE Append(print_str, Char(b))

\* A character beyond the end of print_str is lost; a newline empties it.
PrintNext(b) ==
  IF ~Writes(b, "PRINT") THEN print_str
  ELSE IF Char(b) = Newline THEN <<>>
  ELSE IF Len(print_str) < LineMax THEN Append(print_str, Char(b))
  ELSE print_str

\* What $display shows at this edge.
Displayed(b) ==
  IF Writes(b, "PRINT") /\ Char(b) = Newline THEN <<[line |-> print_str]>>
  ELSE IF Writes(b, "PUTINT") THEN <<[int |-> b.data]>>
  ELSE IF Writes(b, "EXIT") THEN <<[exit |-> b.data]>>
  ELSE <<>>

Edge(b) ==
  /\ print_str' = PrintNext(b)
  /\ console' = console \o Displayed(b)
  /\ finished' = (finished \/ Writes(b, "EXIT"))
  /\ irq_force' = IF Writes(b, "IRQ_FORCE") THEN b.data % IrqSize ELSE irq_force

\* The read port: SIM is defined and FPGA is not, nothing is stubbed.
DataOut(addr) == CASE Port(addr) = "DEFINES"   -> 1
                   [] Port(addr) = "IRQ_FORCE" -> irq_force
                   [] OTHER                    -> 0

\* rst_n falls; the line in the buffer stays.
Reset == irq_force' = 0 /\ UNCHANGED <<print_str, console, finished>>

Init == print_str = <<>> /\ irq_force = 0 /\ console = <<>> /\ finished = FALSE
=============================================================================
