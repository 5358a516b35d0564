------------------------------- MODULE StackVM -------------------------------
(***************************************************************************)
(* Program.Eval (pkg/vm/vm.go): the bytecode of one rule run against one   *)
(* row on a fixed array of values.  The operand of an instruction is the   *)
(* entry of the constant pool its index names.                             *)
(***************************************************************************)
EXTENDS RuleValue

CONSTANTS
    stackMax,   \* length of the stack array (256)
    Fields      \* field names

ASSUME StackAssumption == stackMax \in Nat \ {0}

VARIABLES
    code, row,  \* the program and the row it runs against
    i,          \* index of the next instruction
    st, sp,     \* the array and the number of values on it
    exit,       \* "running", or why Eval returned
    result      \* what Eval returned

machine == <<i, st, sp, exit, result>>
vmVars  == <<code, row, machine>>

Slots == 0..(stackMax - 1)

Load(c, r) ==
    /\ code = c /\ row = r
    /\ i = 1
    /\ st = [s \in Slots |-> undef]
    /\ sp = 0
    /\ exit = "running"
    /\ result = FALSE

Running(ops) == exit = "running" /\ i <= Len(code) /\ code[i].op \in ops

return(why, b) ==
    /\ exit' = why
    /\ result' = b
    /\ UNCHANGED <<code, row, i, st, sp>>

(* The instruction pops n values, n or n - 1 of them leave, and v is on top. *)
Replace(n, v) ==
    /\ sp' = sp - n + 1
    /\ st' = [st EXCEPT ![sp - n] = v]
    /\ i' = i + 1
    /\ UNCHANGED <<code, row, exit, result>>

(* Mutant: the check lets one value past the end of the array. *)
HasRoom_off_by_one == sp <= stackMax

HasRoom == sp < stackMax

Push ==
    /\ Running(Pushes) /\ HasRoom
    /\ Replace(0, load(code[i], row))

Overflow == Running(Pushes) /\ ~HasRoom /\ return("overflow", FALSE)

Between ==
    /\ Running({"Between"}) /\ sp >= 3
    /\ Replace(3, boolV(between(st[sp - 3], st[sp - 2], st[sp - 1])))

Binary ==
    /\ Running(Binaries) /\ sp >= 2
    /\ Replace(2, boolV(binaryOp(code[i].op, st[sp - 2], st[sp - 1])))

Unary ==
    /\ Running(Unaries) /\ sp >= 1
    /\ Replace(1, boolV(unaryOp(code[i], st[sp - 1])))

Underflow ==
    /\ \/ Running({"Between"}) /\ sp < 3
       \/ Running(Binaries) /\ sp < 2
       \/ Running(Unaries) /\ sp < 1
    /\ return("underflow", FALSE)

Unknown == exit = "running" /\ i <= Len(code) /\ code[i].op \notin Opcodes /\ return("unknown", FALSE)

(* After the last instruction exactly one boolean must be left. *)
Finish ==
    /\ exit = "running" /\ i > Len(code)
    /\ IF sp = 1 /\ st[0].k = "bool" THEN return("value", st[0].b) ELSE return("unbalanced", FALSE)

VMStep == Push \/ Overflow \/ Between \/ Binary \/ Unary \/ Underflow \/ Unknown \/ Finish

------------------------------------------------------------------------------
(* Properties *)

Instr ==
    [op : {"LoadField"}, a : Fields] \cup [op : {"ConstNum"}, a : Int]
    \cup [op : {"ConstStr"} \cup Likes, a : Text] \cup [op : {"In"}, a : SUBSET Text]
    \cup [op : Binaries \cup {"Between", "IsNull", "IsNotNull", "Not", "unknown"}]

(* Any bytecode at all, against any row. *)
VMInit == \E c \in Seq(Instr), r \in [Fields -> Value \cup {otherV}] : Load(c, r)

VMSpec == VMInit /\ [][VMStep]_vmVars

(* The machine keeps its types, in particular sp never leaves the array:       *)
(* Eval indexes st only with values below stackMax, whatever the bytecode is   *)
(* (pkg/vm/vm.go:8, "on overflow Eval returns false rather than panicking").   *)
MachineTypeOK ==
    /\ i \in 1..(Len(code) + 1)
    /\ st \in [Slots -> Value]
    /\ sp \in 0..stackMax
    /\ exit \in {"running", "value", "unbalanced", "overflow", "underflow", "unknown"}
    /\ result \in BOOLEAN

(* Eval returned m, or gave up on a stack too small for a rule that needs d. *)
Returns(m, d) ==
    exit # "running" => \/ exit = "value" /\ result = m
                        \/ exit = "overflow" /\ d > stackMax
==============================================================================
