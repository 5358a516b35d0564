---------------------------- MODULE StackVMProofs ----------------------------
(***************************************************************************)
(* The VM's stack stays inside its array, whatever the bytecode; and the   *)
(* compiler is correct: the code of a rule, optimized or not, returns what *)
(* the rule means, and what the tree-walking runtime says of it.           *)
(***************************************************************************)
EXTENDS StackVM, RuleNode, WellFoundedInduction, SequenceTheorems, TLAPS

CodeTypeOK == code \in Seq(Instr) /\ row \in [Fields -> Value \cup {otherV}]

VMInv == CodeTypeOK /\ MachineTypeOK

(* A pushed value is a VM value: constants have the type of their pool, and a  *)
(* field of a type the VM does not know is undefined (load, vm.go:65).         *)
LEMMA LoadType ==
    ASSUME NEW in \in Instr, in.op \in Pushes, NEW r \in [Fields -> Value \cup {otherV}]
    PROVE  load(in, r) \in Value
  BY DEF Instr, Pushes, Likes, Binaries, Compares, Value, load, numV, strV, toValue, undef, otherV

(* Every opcode that pops values pushes a boolean (vm.go:81 and vm.go:94).     *)
LEMMA ResultTypes ==
    /\ \A op \in Binaries : \A x, y : binaryOp(op, x, y) \in BOOLEAN
    /\ \A in : in.op \in Unaries => \A x : unaryOp(in, x) \in BOOLEAN
    /\ \A x, lo, hi : between(x, lo, hi) \in BOOLEAN
  BY DEF binaryOp, unaryOp, between

(* Its boolean is a VM value. *)
LEMMA BoolIsValue == \A v \in BOOLEAN : boolV(v) \in Value
  BY DEF boolV, Value

(* Replacing n popped values by one keeps the machine well typed when they     *)
(* are there and, for a push, there is room.                                   *)
LEMMA ReplaceType ==
    ASSUME VMInv, i <= Len(code), NEW n \in 0..3, NEW v \in Value, sp >= n, sp - n < stackMax,
           Replace(n, v)
    PROVE  VMInv'
  <1>1. code' = code /\ row' = row /\ exit' = exit /\ result' = result
    BY DEF Replace
  <1>2. Len(code) \in Nat
    BY DEF VMInv, CodeTypeOK
  <1>3. i' \in 1..(Len(code') + 1)
    BY <1>1, <1>2 DEF VMInv, MachineTypeOK, Replace
  <1>4. st' \in [Slots -> Value]
    BY DEF VMInv, MachineTypeOK, Replace
  <1>5. sp' \in 0..stackMax
    BY StackAssumption DEF VMInv, MachineTypeOK, Replace
  <1> QED BY <1>1, <1>3, <1>4, <1>5 DEF VMInv, CodeTypeOK, MachineTypeOK

(* Returning changes only why and what Eval returned. *)
LEMMA ReturnType ==
    ASSUME VMInv, NEW b \in BOOLEAN,
           NEW why \in {"value", "unbalanced", "overflow", "underflow", "unknown"}, return(why, b)
    PROVE  VMInv'
  BY DEF VMInv, CodeTypeOK, MachineTypeOK, return

(* Every step of Eval keeps the invariant. *)
LEMMA StepType == VMInv /\ [VMStep]_vmVars => VMInv'
  <1> SUFFICES ASSUME VMInv, [VMStep]_vmVars PROVE VMInv'
    OBVIOUS
  <1>0. \A ops : Running(ops) => i <= Len(code) /\ code[i] \in Instr /\ code[i].op \in ops
    BY DEF VMInv, CodeTypeOK, MachineTypeOK, Running
  <1>1. CASE Push
    <2>1. load(code[i], row) \in Value
      BY <1>0, <1>1, LoadType DEF Push, VMInv, CodeTypeOK
    <2> QED BY <1>0, <1>1, <2>1, ReplaceType DEF Push, HasRoom, VMInv, MachineTypeOK
  <1>2. CASE Between
    <2>1. boolV(between(st[sp - 3], st[sp - 2], st[sp - 1])) \in Value
      BY ResultTypes, BoolIsValue
    <2> QED BY <1>0, <1>2, <2>1, ReplaceType, StackAssumption DEF Between, VMInv, MachineTypeOK
  <1>3. CASE Binary
    <2>1. boolV(binaryOp(code[i].op, st[sp - 2], st[sp - 1])) \in Value
      BY <1>0, <1>3, ResultTypes, BoolIsValue DEF Binary
    <2> QED BY <1>0, <1>3, <2>1, ReplaceType, StackAssumption DEF Binary, VMInv, MachineTypeOK
  <1>4. CASE Unary
    <2>1. boolV(unaryOp(code[i], st[sp - 1])) \in Value
      BY <1>0, <1>4, ResultTypes, BoolIsValue DEF Unary
    <2> QED BY <1>0, <1>4, <2>1, ReplaceType, StackAssumption DEF Unary, VMInv, MachineTypeOK
  <1>5. CASE Overflow \/ Underflow \/ Unknown
    BY <1>5, ReturnType DEF Overflow, Underflow, Unknown
  <1>6. CASE Finish
    <2>1. CASE sp = 1 /\ st[0].k = "bool"
      <3>1. st[0].b \in BOOLEAN
        BY <2>1, StackAssumption DEF VMInv, MachineTypeOK, Value, Slots, undef
      <3> QED BY <1>6, <2>1, <3>1, ReturnType DEF Finish
    <2>2. CASE ~(sp = 1 /\ st[0].k = "bool")
      BY <1>6, <2>2, ReturnType DEF Finish
    <2> QED BY <2>1, <2>2
  <1>7. CASE UNCHANGED vmVars
    BY <1>7 DEF VMInv, CodeTypeOK, MachineTypeOK, vmVars, machine
  <1> QED BY <1>1, <1>2, <1>3, <1>4, <1>5, <1>6, <1>7 DEF VMStep

(* A machine with any program loaded satisfies the invariant. *)
LEMMA LoadInv ==
    ASSUME NEW c \in Seq(Instr), NEW r \in [Fields -> Value \cup {otherV}], Load(c, r)
    PROVE  VMInv
<1>1. undef \in Value BY DEF Value
<1>2. i \in 1..(Len(code) + 1) /\ sp \in 0..stackMax BY StackAssumption DEF Load
<1>3. st \in [Slots -> Value] BY <1>1 DEF Load
<1>4. CodeTypeOK BY DEF Load, CodeTypeOK
<1> QED BY <1>2, <1>3, <1>4 DEF Load, VMInv, MachineTypeOK

(* Whatever bytecode Eval is given, well formed or not, it never reads or      *)
(* writes outside its stack array, and it returns a boolean (pkg/vm/vm.go:15). *)
THEOREM StackInBounds == VMSpec => []MachineTypeOK
<1>1. VMInit => VMInv BY LoadInv DEF VMInit
<1> QED BY <1>1, StepType, PTL DEF VMSpec, VMInv

------------------------------------------------------------------------------
(* What code does to a stack.  Outline(s, c, d, r): s[k] is the stack after k  *)
(* instructions of c on row r, never higher than d.  Runs: from a to b.        *)

(* n values of stack a leave, and v is on top of what is left: stack b. *)
Pops(a, b, n, v) ==
    /\ Len(a) >= n /\ Len(b) = Len(a) - n + 1
    /\ b[Len(b)] = v
    /\ \A k \in 1..(Len(a) - n) : b[k] = a[k]

(* What one instruction does to a stack (the switch of Eval, vm.go:19-55). *)
Effect(in, a, b, r) ==
    \/ in.op \in Pushes /\ Pops(a, b, 0, load(in, r))
    \/ in.op = "Between" /\ Pops(a, b, 3, boolV(between(a[Len(a) - 2], a[Len(a) - 1], a[Len(a)])))
    \/ in.op \in Binaries /\ Pops(a, b, 2, boolV(binaryOp(in.op, a[Len(a) - 1], a[Len(a)])))
    \/ in.op \in Unaries /\ Pops(a, b, 1, boolV(unaryOp(in, a[Len(a)])))

(* The stacks between the instructions of c. *)
Outline(s, c, d, r) ==
    /\ s \in [0..Len(c) -> Seq(Value)]
    /\ \A k \in 1..Len(c) : Effect(c[k], s[k - 1], s[k], r)
    /\ \A k \in 0..Len(c) : Len(s[k]) <= d

(* Code c turns stack a into stack b, with at most d values on it. *)
Runs(c, a, b, d, r) ==
    /\ c \in Seq(Instr)
    /\ \E s : Outline(s, c, d, r) /\ s[0] = a /\ s[Len(c)] = b

(* A nonempty set of naturals has a least element: what every induction below  *)
(* starts from.                                                                *)
LEMMA LeastElement ==
    ASSUME NEW T, T \subseteq Nat, T # {}
    PROVE  \E x \in T : \A y \in T : x <= y
<1>1. PICK x \in T : \A y \in T : ~(<<y, x>> \in OpToRel(<, Nat))
  BY WFMin, NatLessThanWellFounded
<1>2. \A y \in T : <<y, x>> \in Nat \X Nat OBVIOUS
<1>3. \A y \in T : ~(y < x) BY <1>1, <1>2 DEF OpToRel
<1>4. \A y \in T : y \in Nat /\ x \in Nat OBVIOUS
<1>5. \A y \in T : x <= y BY <1>3, <1>4
<1> QED BY <1>5

(* An instruction that pops values and pushes one does the same on top of a    *)
(* stack x.                                                                    *)
LEMMA FramePops ==
    ASSUME NEW x \in Seq(Value), NEW a \in Seq(Value), NEW b \in Seq(Value), NEW n \in 0..3, NEW v,
           Pops(a, b, n, v)
    PROVE  Pops(x \o a, x \o b, n, v)
<1> DEFINE xa == x \o a
           xb == x \o b
<1>1. /\ Len(x) \in Nat /\ Len(a) \in Nat /\ Len(b) \in Nat
      /\ Len(xa) = Len(x) + Len(a) /\ Len(xb) = Len(x) + Len(b)
      /\ \A k \in 1..Len(xa) : xa[k] = IF k <= Len(x) THEN x[k] ELSE a[k - Len(x)]
      /\ \A k \in 1..Len(xb) : xb[k] = IF k <= Len(x) THEN x[k] ELSE b[k - Len(x)]
  BY ConcatProperties, LenProperties
<1>2. Len(a) >= n /\ Len(b) = Len(a) - n + 1 /\ b[Len(b)] = v /\ \A k \in 1..(Len(a) - n) : b[k] = a[k]
  BY DEF Pops
<1> HIDE DEF xa, xb
<1>3. Len(xa) >= n /\ Len(xb) = Len(xa) - n + 1 BY <1>1, <1>2
<1>4. xb[Len(xb)] = v
  <2>1. Len(xb) \in 1..Len(xb) /\ ~(Len(xb) <= Len(x)) /\ Len(xb) - Len(x) = Len(b) BY <1>1, <1>2
  <2> QED BY <1>1, <1>2, <2>1
<1>5. ASSUME NEW k \in 1..(Len(xa) - n) PROVE xb[k] = xa[k]
  <2>1. k \in 1..Len(xa) /\ k \in 1..Len(xb) BY <1>1, <1>2
  <2>2. CASE k <= Len(x) BY <1>1, <2>1, <2>2
  <2>3. CASE ~(k <= Len(x))
    <3>1. k - Len(x) \in 1..(Len(a) - n) BY <1>1, <1>2, <2>3
    <3> QED BY <1>1, <1>2, <2>1, <2>3, <3>1
  <2> QED BY <2>2, <2>3
<1> QED BY <1>3, <1>4, <1>5 DEF Pops, xa, xb

(* So does every instruction: Eval looks at no value below the ones it pops    *)
(* (vm.go:19).                                                                 *)
LEMMA FrameEffect ==
    ASSUME NEW x \in Seq(Value), NEW a \in Seq(Value), NEW b \in Seq(Value), NEW in, NEW r,
           Effect(in, a, b, r)
    PROVE  Effect(in, x \o a, x \o b, r)
<1> DEFINE xa == x \o a
           xb == x \o b
<1>1. /\ Len(x) \in Nat /\ Len(a) \in Nat /\ Len(xa) = Len(x) + Len(a)
      /\ \A k \in 1..Len(xa) : xa[k] = IF k <= Len(x) THEN x[k] ELSE a[k - Len(x)]
  BY ConcatProperties, LenProperties
<1>2. ASSUME NEW n \in 0..3, NEW v, Pops(a, b, n, v) PROVE Pops(xa, xb, n, v) /\ Len(a) >= n
  <2>1. Pops(x \o a, x \o b, n, v) BY <1>2, FramePops
  <2>2. Len(a) >= n BY <1>2 DEF Pops
  <2> QED BY <2>1, <2>2
<1> HIDE DEF xa, xb
<1>3. ASSUME NEW l \in 0..2, Len(a) > l PROVE xa[Len(xa) - l] = a[Len(a) - l]
  <2>1. Len(xa) - l \in 1..Len(xa) /\ ~(Len(xa) - l <= Len(x)) /\ Len(xa) - l - Len(x) = Len(a) - l
    BY <1>1, <1>3
  <2> QED BY <1>1, <2>1
<1>4. Len(a) > 0 => xa[Len(xa)] = a[Len(a)]
  <2>1. Len(xa) - 0 = Len(xa) /\ Len(a) - 0 = Len(a) BY <1>1
  <2> QED BY <2>1, <1>3
<1>5. CASE in.op \in Pushes /\ Pops(a, b, 0, load(in, r))
  BY <1>5, <1>2 DEF Effect, xa, xb
<1>6. CASE in.op = "Between" /\ Pops(a, b, 3, boolV(between(a[Len(a) - 2], a[Len(a) - 1], a[Len(a)])))
  <2>1. Len(a) >= 3 BY <1>6, <1>2
  <2>2. xa[Len(xa) - 2] = a[Len(a) - 2] /\ xa[Len(xa) - 1] = a[Len(a) - 1] /\ xa[Len(xa)] = a[Len(a)]
    BY <2>1, <1>1, <1>3, <1>4
  <2>3. Pops(xa, xb, 3, boolV(between(xa[Len(xa) - 2], xa[Len(xa) - 1], xa[Len(xa)])))
    BY <1>6, <1>2, <2>2
  <2> QED BY <1>6, <2>3 DEF Effect, xa, xb
<1>7. CASE in.op \in Binaries /\ Pops(a, b, 2, boolV(binaryOp(in.op, a[Len(a) - 1], a[Len(a)])))
  <2>1. Len(a) >= 2 BY <1>7, <1>2
  <2>2. xa[Len(xa) - 1] = a[Len(a) - 1] /\ xa[Len(xa)] = a[Len(a)]
    BY <2>1, <1>1, <1>3, <1>4
  <2>3. Pops(xa, xb, 2, boolV(binaryOp(in.op, xa[Len(xa) - 1], xa[Len(xa)])))
    BY <1>7, <1>2, <2>2
  <2> QED BY <1>7, <2>3 DEF Effect, xa, xb
<1>8. CASE in.op \in Unaries /\ Pops(a, b, 1, boolV(unaryOp(in, a[Len(a)])))
  <2>1. Len(a) > 0 BY <1>8, <1>2, <1>1
  <2>2. xa[Len(xa)] = a[Len(a)] BY <2>1, <1>4
  <2>3. Pops(xa, xb, 1, boolV(unaryOp(in, xa[Len(xa)])))
    BY <1>8, <1>2, <2>2
  <2> QED BY <1>8, <2>3 DEF Effect, xa, xb
<1> QED BY <1>5, <1>6, <1>7, <1>8 DEF Effect

(* Code that turns a into b on a stack does so above any values x, and needs   *)
(* the room of x more.                                                         *)
LEMMA RunsFrame ==
    ASSUME NEW c, NEW a \in Seq(Value), NEW b \in Seq(Value), NEW d \in Nat, NEW r, Runs(c, a, b, d, r),
           NEW x \in Seq(Value)
    PROVE  Runs(c, x \o a, x \o b, Len(x) + d, r)
<1>1. PICK s : Outline(s, c, d, r) /\ s[0] = a /\ s[Len(c)] = b BY DEF Runs
<1>2. c \in Seq(Instr) /\ Len(c) \in Nat BY DEF Runs
<1> DEFINE z == [k \in 0..Len(c) |-> x \o s[k]]
<1>3. ASSUME NEW k \in 0..Len(c) PROVE s[k] \in Seq(Value) /\ z[k] = x \o s[k] /\ z[k] \in Seq(Value) /\ Len(z[k]) <= Len(x) + d
  <2>1. s[k] \in Seq(Value) /\ Len(s[k]) <= d BY <1>1 DEF Outline
  <2>2. Len(x \o s[k]) = Len(x) + Len(s[k]) /\ x \o s[k] \in Seq(Value) /\ Len(x) \in Nat /\ Len(s[k]) \in Nat
    BY <2>1, ConcatProperties, LenProperties
  <2> QED BY <2>1, <2>2
<1>4. z \in [0..Len(c) -> Seq(Value)] BY <1>3
<1> HIDE DEF z
<1>5. ASSUME NEW k \in 1..Len(c) PROVE Effect(c[k], z[k - 1], z[k], r)
  <2>1. k \in 0..Len(c) /\ k - 1 \in 0..Len(c) BY <1>2
  <2>2. Effect(c[k], s[k - 1], s[k], r) BY <1>1 DEF Outline
  <2>3. s[k - 1] \in Seq(Value) /\ s[k] \in Seq(Value) /\ z[k] = x \o s[k] /\ z[k - 1] = x \o s[k - 1]
    BY <1>3, <2>1
  <2> QED BY <2>2, <2>3, FrameEffect
<1>6. Outline(z, c, Len(x) + d, r) BY <1>3, <1>4, <1>5 DEF Outline
<1>7. z[0] = x \o a /\ z[Len(c)] = x \o b
  <2>1. 0 \in 0..Len(c) /\ Len(c) \in 0..Len(c) BY <1>2
  <2> QED BY <1>1, <1>3, <2>1
<1> QED BY <1>2, <1>6, <1>7 DEF Runs

(* Code run after code: how emit glues the code of the parts of a rule         *)
(* together (compile.go:74).                                                   *)
LEMMA RunsSeq ==
    ASSUME NEW c, NEW e, NEW a, NEW b, NEW g, NEW d, NEW r, Runs(c, a, b, d, r), Runs(e, b, g, d, r)
    PROVE  Runs(c \o e, a, g, d, r)
<1>1. PICK s : Outline(s, c, d, r) /\ s[0] = a /\ s[Len(c)] = b BY DEF Runs
<1>2. PICK t : Outline(t, e, d, r) /\ t[0] = b /\ t[Len(e)] = g BY DEF Runs
<1>3. c \in Seq(Instr) /\ e \in Seq(Instr) BY DEF Runs
<1> DEFINE ce == c \o e
           m == Len(c)
           n == Len(e)
           z == [k \in 0..Len(ce) |-> IF k <= m THEN s[k] ELSE t[k - m]]
<1>4. /\ m \in Nat /\ n \in Nat /\ ce \in Seq(Instr) /\ Len(ce) = m + n
      /\ \A k \in 1..(m + n) : ce[k] = IF k <= m THEN c[k] ELSE e[k - m]
  BY <1>3, ConcatProperties, LenProperties
<1>5. /\ \A k \in 0..m : s[k] \in Seq(Value) /\ Len(s[k]) <= d
      /\ \A k \in 0..n : t[k] \in Seq(Value) /\ Len(t[k]) <= d
      /\ \A k \in 1..m : Effect(c[k], s[k - 1], s[k], r)
      /\ \A k \in 1..n : Effect(e[k], t[k - 1], t[k], r)
  BY <1>1, <1>2 DEF Outline
<1>6. ASSUME NEW k \in 0..(m + n)
      PROVE  (k <= m => z[k] = s[k] /\ k \in 0..m) /\ (~(k < m) => z[k] = t[k - m] /\ k - m \in 0..n)
  <2>1. z[k] = IF k <= m THEN s[k] ELSE t[k - m] BY <1>4
  <2>2. k = m => s[k] = t[k - m] BY <1>1, <1>2, <1>4
  <2> HIDE DEF z
  <2> QED BY <2>1, <2>2, <1>4
<1>7. z = [k \in 0..Len(ce) |-> z[k]] OBVIOUS
<1> HIDE DEF z, ce
<1>8. ASSUME NEW k \in 0..Len(ce) PROVE z[k] \in Seq(Value) /\ Len(z[k]) <= d
  <2>1. CASE k <= m BY <2>1, <1>4, <1>5, <1>6
  <2>2. CASE ~(k <= m)
    <3>1. k \in 0..(m + n) /\ ~(k < m) BY <2>2, <1>4
    <3>2. z[k] = t[k - m] /\ k - m \in 0..n BY <3>1, <1>6
    <3> QED BY <3>2, <1>5
  <2> QED BY <2>1, <2>2
<1>9. ASSUME NEW k \in 1..Len(ce) PROVE Effect(ce[k], z[k - 1], z[k], r)
  <2>1. CASE k <= m
    <3>1. k \in 0..(m + n) /\ k - 1 \in 0..(m + n) /\ k - 1 <= m /\ k \in 1..m BY <2>1, <1>4
    <3>2. z[k] = s[k] /\ z[k - 1] = s[k - 1] BY <2>1, <3>1, <1>6
    <3>3. ce[k] = c[k] BY <2>1, <1>4
    <3> QED BY <3>1, <3>2, <3>3, <1>5
  <2>2. CASE ~(k <= m)
    <3>1. k \in 0..(m + n) /\ k - 1 \in 0..(m + n) /\ ~(k < m) /\ ~(k - 1 < m) /\ k - m \in 1..n
          /\ (k - 1) - m = (k - m) - 1
      BY <2>2, <1>4
    <3>2. z[k] = t[k - m] /\ z[k - 1] = t[(k - m) - 1] BY <3>1, <1>6
    <3>3. ce[k] = e[k - m] BY <2>2, <1>4
    <3> QED BY <3>1, <3>2, <3>3, <1>5
  <2> QED BY <2>1, <2>2
<1>10. Outline(z, ce, d, r)
  <2>1. z \in [0..Len(ce) -> Seq(Value)] BY <1>7, <1>8
  <2> QED BY <2>1, <1>8, <1>9 DEF Outline
<1>11. z[0] = a /\ z[Len(ce)] = g
  <2>1. 0 \in 0..(m + n) /\ 0 <= m /\ m + n \in 0..(m + n) /\ ~(m + n < m) /\ (m + n) - m = n BY <1>4
  <2> QED BY <2>1, <1>1, <1>2, <1>4, <1>6
<1> QED BY <1>4, <1>10, <1>11 DEF Runs, ce

(* More room does not change what code does. *)
LEMMA RunsMore ==
    ASSUME NEW c, NEW a, NEW b, NEW d \in Nat, NEW e \in Nat, d <= e, NEW r, Runs(c, a, b, d, r)
    PROVE  Runs(c, a, b, e, r)
<1>1. PICK s : Outline(s, c, d, r) /\ s[0] = a /\ s[Len(c)] = b BY DEF Runs
<1>2. \A k \in 0..Len(c) : Len(s[k]) \in Nat /\ Len(s[k]) <= d BY <1>1, LenProperties DEF Outline
<1>3. \A k \in 0..Len(c) : Len(s[k]) <= e BY <1>2
<1>4. Outline(s, c, e, r) BY <1>1, <1>3 DEF Outline
<1> QED BY <1>1, <1>4 DEF Runs

(* A single instruction. *)
LEMMA RunsOne ==
    ASSUME NEW in \in Instr, NEW a \in Seq(Value), NEW b \in Seq(Value), NEW d \in Nat, NEW r,
           Effect(in, a, b, r), Len(a) <= d, Len(b) <= d
    PROVE  Runs(<<in>>, a, b, d, r)
<1> DEFINE s == [k \in 0..1 |-> IF k = 0 THEN a ELSE b]
<1>1. s[0] = a /\ s[1] = b /\ s \in [0..1 -> Seq(Value)] OBVIOUS
<1>2. <<in>> \in Seq(Instr) /\ Len(<<in>>) = 1 /\ <<in>>[1] = in OBVIOUS
<1> HIDE DEF s
<1>3. \A k \in 1..1 : k = 1 OBVIOUS
<1>4. \A k \in 0..1 : k = 0 \/ k = 1 OBVIOUS
<1>5. \A k \in 1..1 : Effect(<<in>>[k], s[k - 1], s[k], r) BY <1>1, <1>2, <1>3
<1>6. \A k \in 0..1 : Len(s[k]) <= d BY <1>1, <1>4
<1>7. Outline(s, <<in>>, d, r) BY <1>1, <1>2, <1>5, <1>6 DEF Outline
<1> QED BY <1>1, <1>2, <1>7 DEF Runs

------------------------------------------------------------------------------
(* The machine follows an outline of its code. *)

(* The machine's array holds the stack the outline has before instruction i. *)
AsOutlined(s) ==
    /\ sp = Len(s[i - 1])
    /\ \A p \in 1..sp : st[p - 1] = s[i - 1][p]

FollowsInv(s, c, m, d, r) ==
    /\ VMInv
    /\ code = c /\ row = r
    /\ exit = "running" => AsOutlined(s)
    /\ Returns(m, d)

(* No opcode is in two classes, so an instruction is executed by one branch of *)
(* Eval's switch.                                                              *)
LEMMA OpcodesDisjoint ==
    ASSUME NEW op
    PROVE  /\ op \in Pushes => op \notin Binaries /\ op \notin Unaries /\ op # "Between"
           /\ op \in Binaries => op \notin Pushes /\ op \notin Unaries /\ op # "Between"
           /\ op \in Unaries => op \notin Pushes /\ op \notin Binaries /\ op # "Between"
           /\ op = "Between" => op \notin Pushes /\ op \notin Binaries /\ op \notin Unaries
           /\ op \in Pushes \/ op \in Binaries \/ op \in Unaries \/ op = "Between" => op \in Opcodes
BY DEF Pushes, Binaries, Unaries, Compares, Likes, Opcodes

(* A step that replaces the popped values by the one the outline has on top    *)
(* keeps the machine on the outline.                                           *)
LEMMA ReplaceFollows ==
    ASSUME VMInv, VMInv', NEW n \in 0..3, NEW v, Replace(n, v),
           NEW s, NEW b \in Seq(Value), s[i] = b, NEW a \in Seq(Value), s[i - 1] = a,
           Pops(a, b, n, v), AsOutlined(s)
    PROVE  AsOutlined(s)'
<1>1. sp' = sp - n + 1 /\ st' = [st EXCEPT ![sp - n] = v] /\ i' = i + 1 BY DEF Replace
<1>2. sp \in 0..stackMax /\ i \in Nat /\ i \in Int /\ st \in [Slots -> Value] /\ sp' \in 0..stackMax /\ stackMax \in Nat
  <2>1. Len(code) \in Nat BY DEF VMInv, CodeTypeOK
  <2> QED BY <2>1, StackAssumption DEF VMInv, MachineTypeOK
<1>3. i' - 1 = i BY <1>1, <1>2
<1>4. sp = Len(a) /\ \A p \in 1..sp : st[p - 1] = a[p] BY DEF AsOutlined
<1>5. Len(a) >= n /\ Len(b) = Len(a) - n + 1 /\ b[Len(b)] = v /\ \A k \in 1..(Len(a) - n) : b[k] = a[k]
  BY DEF Pops
<1>6. sp' = Len(b) BY <1>1, <1>4, <1>5
<1>7. ASSUME NEW p \in 1..sp' PROVE st'[p - 1] = b[p]
  <2>1. sp - n \in Slots /\ p - 1 \in Slots /\ p \in Int BY <1>1, <1>2, <1>4, <1>5 DEF Slots
  <2>2. CASE p = sp'
    <3>1. p - 1 = sp - n /\ p = Len(b) BY <2>2, <1>1, <1>2, <1>6
    <3> QED BY <3>1, <2>1, <1>1, <1>2, <1>5
  <2>3. CASE p # sp'
    <3>1. p \in 1..(Len(a) - n) /\ p \in 1..sp /\ p - 1 # sp - n BY <2>3, <1>1, <1>2, <1>4
    <3> QED BY <3>1, <2>1, <1>1, <1>2, <1>4, <1>5
  <2> QED BY <2>2, <2>3
<1>8. s[i' - 1] = b BY <1>3
<1> QED BY <1>6, <1>7, <1>8 DEF AsOutlined

(* Every step of Eval on code with an outline follows it: it underflows        *)
(* nowhere, meets no unknown opcode, and overflows only where the outline is   *)
(* deeper than the array (vm.go:19-64).                                        *)
LEMMA FollowsStep ==
    ASSUME NEW CONSTANT c, NEW CONSTANT s, NEW CONSTANT m \in BOOLEAN, NEW CONSTANT d \in Nat, NEW CONSTANT r,
           c \in Seq(Instr), Outline(s, c, d, r), s[Len(c)] = <<boolV(m)>>,
           FollowsInv(s, c, m, d, r), [VMStep]_vmVars
    PROVE  FollowsInv(s, c, m, d, r)'
<1> USE DEF FollowsInv
<1>1. VMInv' BY StepType
<1>2. code' = code /\ row' = row
  BY DEF VMStep, Push, Overflow, Between, Binary, Unary, Underflow, Unknown, Finish, Replace, return, vmVars
<1>3. CASE UNCHANGED vmVars
  BY <1>1, <1>2, <1>3 DEF AsOutlined, Returns, vmVars, machine
<1>4. CASE VMStep
  <2> DEFINE a == s[i - 1]
             b == s[i]
  <2>0. exit = "running" /\ AsOutlined(s) /\ sp = Len(a)
    BY <1>4 DEF VMStep, Push, Overflow, Between, Binary, Unary, Underflow, Unknown, Finish, Running, AsOutlined
  <2>1. Len(c) \in Nat /\ i \in 1..(Len(c) + 1) BY DEF VMInv, MachineTypeOK, CodeTypeOK
  <2>2. i - 1 \in 0..Len(c) /\ a \in Seq(Value)
    <3>1. i - 1 \in 0..Len(c) BY <2>1
    <3> QED BY <3>1 DEF Outline
  <2>3. ASSUME i <= Len(c)
        PROVE  b \in Seq(Value) /\ Len(b) <= d /\ Effect(code[i], a, b, r)
    <3>1. i \in 1..Len(c) /\ i \in 0..Len(c) BY <2>1, <2>3
    <3> QED BY <3>1 DEF Outline
  <2> HIDE DEF a, b
  <2>4. ASSUME NEW n \in 0..3, NEW v, Replace(n, v), Pops(a, b, n, v), i <= Len(c)
        PROVE  FollowsInv(s, c, m, d, r)'
    <3>1. AsOutlined(s)' BY <2>4, <2>0, <2>2, <2>3, <1>1, ReplaceFollows DEF a, b
    <3>2. exit' = exit BY <2>4 DEF Replace
    <3> QED BY <1>1, <1>2, <3>1, <3>2, <2>0 DEF Returns
  <2>5. \A ops : Running(ops) => i <= Len(c) /\ code[i].op \in ops BY DEF Running
  <2>6. Len(a) \in Nat /\ sp \in Int BY <2>0, <2>2, LenProperties
  <2>7. ASSUME NEW ops, Running(ops) PROVE i <= Len(c) /\ code[i].op \in ops /\ Effect(code[i], a, b, r)
    BY <2>7, <2>3, <2>5
  <2>8. ASSUME NEW p \in 1..sp PROVE st[p - 1] = a[p]
    BY <2>0 DEF AsOutlined, a
  <2>9. CASE Push
    <3>1. Running(Pushes) BY <2>9 DEF Push
    <3>2. Pops(a, b, 0, load(code[i], row)) /\ i <= Len(c) BY <3>1, <2>7, OpcodesDisjoint DEF Effect
    <3>3. Replace(0, load(code[i], row)) BY <2>9 DEF Push
    <3> QED BY <3>2, <3>3, <2>4
  <2>10. CASE Overflow
    <3>1. Running(Pushes) /\ ~(sp < stackMax) /\ return("overflow", FALSE) BY <2>10 DEF Overflow, HasRoom
    <3>2. Pops(a, b, 0, load(code[i], row)) /\ i <= Len(c) BY <3>1, <2>7, OpcodesDisjoint DEF Effect
    <3>3. Len(b) = Len(a) + 1 /\ Len(b) <= d BY <3>2, <2>3, <2>6 DEF Pops
    <3>4. d > stackMax BY <3>1, <3>3, <2>0, <2>6, StackAssumption
    <3>5. exit' = "overflow" BY <3>1 DEF return
    <3> QED BY <1>1, <1>2, <3>4, <3>5 DEF Returns
  <2>11. CASE Between
    <3>1. Running({"Between"}) /\ sp >= 3 BY <2>11 DEF Between
    <3>2. Pops(a, b, 3, boolV(between(a[Len(a) - 2], a[Len(a) - 1], a[Len(a)]))) /\ i <= Len(c)
      BY <3>1, <2>7, OpcodesDisjoint DEF Effect
    <3>3. st[sp - 3] = a[Len(a) - 2] /\ st[sp - 2] = a[Len(a) - 1] /\ st[sp - 1] = a[Len(a)]
      <4>1. sp \in 1..sp /\ sp - 1 \in 1..sp /\ sp - 2 \in 1..sp /\ (sp - 1) - 1 = sp - 2 /\ (sp - 2) - 1 = sp - 3
        BY <3>1, <2>6
      <4> QED BY <4>1, <2>8, <2>0
    <3>4. Replace(3, boolV(between(st[sp - 3], st[sp - 2], st[sp - 1]))) BY <2>11 DEF Between
    <3> QED BY <3>2, <3>3, <3>4, <2>4
  <2>12. CASE Binary
    <3>1. Running(Binaries) /\ sp >= 2 BY <2>12 DEF Binary
    <3>2. Pops(a, b, 2, boolV(binaryOp(code[i].op, a[Len(a) - 1], a[Len(a)]))) /\ i <= Len(c)
      BY <3>1, <2>7, OpcodesDisjoint DEF Effect
    <3>3. st[sp - 2] = a[Len(a) - 1] /\ st[sp - 1] = a[Len(a)]
      <4>1. sp \in 1..sp /\ sp - 1 \in 1..sp /\ (sp - 1) - 1 = sp - 2
        BY <3>1, <2>6
      <4> QED BY <4>1, <2>8, <2>0
    <3>4. Replace(2, boolV(binaryOp(code[i].op, st[sp - 2], st[sp - 1]))) BY <2>12 DEF Binary
    <3> QED BY <3>2, <3>3, <3>4, <2>4
  <2>13. CASE Unary
    <3>1. Running(Unaries) /\ sp >= 1 BY <2>13 DEF Unary
    <3>2. Pops(a, b, 1, boolV(unaryOp(code[i], a[Len(a)]))) /\ i <= Len(c)
      BY <3>1, <2>7, OpcodesDisjoint DEF Effect
    <3>3. st[sp - 1] = a[Len(a)]
      <4>1. sp \in 1..sp BY <3>1, <2>6
      <4> QED BY <4>1, <2>8, <2>0
    <3>4. Replace(1, boolV(unaryOp(code[i], st[sp - 1]))) BY <2>13 DEF Unary
    <3> QED BY <3>2, <3>3, <3>4, <2>4
  <2>14. ~Underflow
    <3>1. ASSUME Running({"Between"}) PROVE sp >= 3
      BY <3>1, <2>0, <2>7, OpcodesDisjoint DEF Effect, Pops
    <3>2. ASSUME Running(Binaries) PROVE sp >= 2
      BY <3>2, <2>0, <2>7, OpcodesDisjoint DEF Effect, Pops
    <3>3. ASSUME Running(Unaries) PROVE sp >= 1
      BY <3>3, <2>0, <2>7, OpcodesDisjoint DEF Effect, Pops
    <3>4. ~(sp >= 3 /\ sp < 3) /\ ~(sp >= 2 /\ sp < 2) /\ ~(sp >= 1 /\ sp < 1) BY <2>6
    <3> QED BY <3>1, <3>2, <3>3, <3>4, Zenon DEF Underflow
  <2>15. ~Unknown
    BY <2>3, OpcodesDisjoint DEF Unknown, Effect
  <2>16. CASE Finish
    <3>1. i = Len(c) + 1 BY <2>16, <2>1 DEF Finish
    <3>2. a = <<boolV(m)>>
      <4>1. i - 1 = Len(c) BY <3>1, <2>1
      <4> QED BY <4>1 DEF a
    <3>3. sp = 1 BY <3>2, <2>0
    <3>4. st[0] = boolV(m)
      <4>1. st[1 - 1] = a[1] BY <3>3, <2>8
      <4> QED BY <4>1, <3>2
    <3>5. st[0].k = "bool" /\ st[0].b = m BY <3>4 DEF boolV
    <3>6. exit' = "value" /\ result' = m BY <2>16, <3>3, <3>5 DEF Finish, return
    <3> QED BY <1>1, <1>2, <3>6 DEF Returns
  <2> QED BY <1>4, <2>9, <2>10, <2>11, <2>12, <2>13, <2>14, <2>15, <2>16 DEF VMStep
<1> QED BY <1>3, <1>4

(* The machine starts on the outline. *)
LEMMA FollowsLoad ==
    ASSUME NEW CONSTANT c, NEW CONSTANT s, NEW CONSTANT m, NEW CONSTANT d, NEW CONSTANT r,
           c \in Seq(Instr), r \in [Fields -> Value \cup {otherV}], s[0] = <<>>, Load(c, r)
    PROVE  FollowsInv(s, c, m, d, r)
<1>1. VMInv BY LoadInv
<1>2. AsOutlined(s) BY DEF Load, AsOutlined
<1> QED BY <1>1, <1>2 DEF Load, FollowsInv, Returns

------------------------------------------------------------------------------
(* Induction, and single instructions. *)

(* Induction up to a bound, for a set. *)
LEMMA CountUp ==
    ASSUME NEW n \in Nat, NEW G, 0 \in G, \A k \in 1..n : k - 1 \in G => k \in G
    PROVE  \A k \in 0..n : k \in G
<1> DEFINE B == {k \in 0..n : k \notin G}
<1> SUFFICES B = {} OBVIOUS
<1> SUFFICES ASSUME B # {} PROVE FALSE OBVIOUS
<1>1. B \subseteq Nat OBVIOUS
<1>2. PICK k \in B : \A l \in B : k <= l
  <2> HIDE DEF B
  <2> QED BY <1>1, LeastElement
<1>3. k \in 1..n /\ k - 1 \in 0..n /\ ~(k <= k - 1) OBVIOUS
<1>4. k - 1 \notin B BY <1>2, <1>3
<1> QED BY <1>3, <1>4

(* Induction over the height of trees: a node is good when all lower ones are, *)
(* so all are.                                                                 *)
LEMMA ClimbUp ==
    ASSUME NEW T, NEW h \in [T -> Nat], NEW G,
           \A n \in T : (\A k \in T : h[k] < h[n] => k \in G) => n \in G
    PROVE  \A n \in T : n \in G
<1> DEFINE B == {n \in T : n \notin G}
           H == {h[n] : n \in B}
<1> SUFFICES ASSUME B # {} PROVE FALSE OBVIOUS
<1>1. H \subseteq Nat /\ H # {} OBVIOUS
<1>2. PICK x \in H : \A y \in H : x <= y
  <2> HIDE DEF H
  <2> QED BY <1>1, LeastElement
<1>3. PICK n \in B : h[n] = x BY <1>2
<1>4. ASSUME NEW k \in T, h[k] < h[n] PROVE k \in G
  <2>1. h[k] \in Nat /\ h[n] \in Nat /\ ~(h[n] <= h[k]) BY <1>4
  <2>2. h[k] \notin H BY <2>1, <1>2, <1>3
  <2> QED BY <2>2
<1> QED BY <1>3, <1>4

IsStep(step, E, n) == step \in [E \X (1..n) -> E]

(* f counts from v, n times. *)
Iterate(f, E, v, n, step) ==
    f \in [0..n -> E] /\ f[0] = v /\ \A j \in 1..n : f[j] = step[<<f[j - 1], j>>]

(* A step can be iterated from any start: the recursive functions of RuleNode  *)
(* exist.                                                                      *)
LEMMA Iterates ==
    ASSUME NEW E, NEW v \in E, NEW n \in Nat, NEW step, IsStep(step, E, n)
    PROVE  \E f : Iterate(f, E, v, n, step)
<1>0. step \in [E \X (1..n) -> E] BY DEF IsStep
<1> DEFINE Good(k, f) == f \in [0..k -> E] /\ f[0] = v /\ \A j \in 1..k : f[j] = step[<<f[j - 1], j>>]
           G == {k \in 0..n : \E f : Good(k, f)}
<1>1. 0 \in G
  <2> DEFINE g == [j \in 0..0 |-> v]
  <2>1. g \in [0..0 -> E] /\ g[0] = v OBVIOUS
  <2>2. \A j \in 1..0 : FALSE OBVIOUS
  <2> HIDE DEF g
  <2>3. Good(0, g) BY <2>1, <2>2
  <2> QED BY <2>3
<1>2. ASSUME NEW k \in 1..n, k - 1 \in G PROVE k \in G
  <2>1. PICK f : Good(k - 1, f) BY <1>2
  <2> DEFINE w == step[<<f[k - 1], k>>]
             g == [j \in 0..k |-> IF j = k THEN w ELSE f[j]]
  <2>2. f[k - 1] \in E BY <2>1
  <2>3. w \in E BY <2>2, <1>0
  <2>4. \A j \in 0..k : j # k => j \in 0..(k - 1) OBVIOUS
  <2>5. \A j \in 0..k : g[j] = IF j = k THEN w ELSE f[j] OBVIOUS
  <2>6. g \in [0..k -> E] BY <2>1, <2>3, <2>4
  <2> HIDE DEF g, w
  <2>7. g[0] = v BY <2>1, <2>5
  <2>8. ASSUME NEW j \in 1..k PROVE g[j] = step[<<g[j - 1], j>>]
    <3>1. j \in 0..k /\ j - 1 \in 0..k /\ j - 1 # k OBVIOUS
    <3>2. CASE j = k BY <3>1, <3>2, <2>5 DEF w
    <3>3. CASE j # k
      <4>1. j \in 1..(k - 1) BY <3>3
      <4>2. f[j] = step[<<f[j - 1], j>>] BY <4>1, <2>1
      <4> QED BY <3>1, <3>3, <4>2, <2>5
    <3> QED BY <3>2, <3>3
  <2>9. Good(k, g) BY <2>6, <2>7, <2>8
  <2> QED BY <2>9
<1> HIDE DEF G
<1>3. \A k \in 0..n : k \in G BY <1>1, <1>2, CountUp
<1>4. n \in G BY <1>3
<1> QED BY <1>4 DEF G, Iterate

(* A nonempty list of naturals has a largest entry. *)
LEMMA MaxExists ==
    ASSUME NEW n \in Nat, NEW f \in [1..n -> Nat], n # 0
    PROVE  \E j \in 1..n : \A l \in 1..n : f[l] <= f[j]
<1> DEFINE G == {k \in 0..n : k = 0 \/ \E j \in 1..k : \A l \in 1..k : f[l] <= f[j]}
<1>1. 0 \in G OBVIOUS
<1>2. ASSUME NEW k \in 1..n, k - 1 \in G PROVE k \in G
  <2>1. CASE k = 1
    <3>1. 1 \in 1..k /\ \A l \in 1..k : l = 1 BY <2>1
    <3>2. f[1] \in Nat BY <2>1
    <3>3. \A l \in 1..k : f[l] <= f[1] BY <3>1, <3>2
    <3> QED BY <3>1, <3>3
  <2>2. CASE k # 1
    <3>1. PICK j \in 1..(k - 1) : \A l \in 1..(k - 1) : f[l] <= f[j] BY <1>2, <2>2
    <3>2. f[j] \in Nat /\ f[k] \in Nat /\ \A l \in 1..k : l = k \/ l \in 1..(k - 1) OBVIOUS
    <3>3. \A l \in 1..k : f[l] \in Nat OBVIOUS
    <3>4. CASE f[k] <= f[j] BY <3>1, <3>2, <3>4
    <3>5. CASE ~(f[k] <= f[j])
      <4>1. \A l \in 1..k : f[l] <= f[k] BY <3>1, <3>2, <3>3, <3>5
      <4> QED BY <4>1
    <3> QED BY <3>4, <3>5
  <2> QED BY <2>1, <2>2
<1> HIDE DEF G
<1>3. n \in 0..n OBVIOUS
<1>4. n \in G BY <1>1, <1>2, <1>3, CountUp
<1> QED BY <1>4 DEF G

(* A push, on any stack. *)
LEMMA PushRuns ==
    ASSUME NEW in \in Instr, in.op \in Pushes, NEW a \in Seq(Value), NEW b \in Seq(Value), NEW r,
           Pops(a, b, 0, load(in, r))
    PROVE  Runs(<<in>>, a, b, Len(b), r)
<1>1. Len(a) \in Nat /\ Len(b) \in Nat /\ Len(a) <= Len(b) BY LenProperties DEF Pops
<1>2. Effect(in, a, b, r) BY DEF Effect
<1> QED BY <1>1, <1>2, RunsOne

(* A unary opcode turns one value into a boolean. *)
LEMMA UnaryRuns ==
    ASSUME NEW in \in Instr, in.op \in Unaries, NEW x \in Value, NEW r
    PROVE  Runs(<<in>>, <<x>>, <<boolV(unaryOp(in, x))>>, 1, r)
<1> DEFINE v == boolV(unaryOp(in, x))
<1>1. v \in Value BY ResultTypes, BoolIsValue
<1>2. Effect(in, <<x>>, <<v>>, r) BY DEF Effect, Pops
<1> HIDE DEF v
<1>3. <<x>> \in Seq(Value) /\ <<v>> \in Seq(Value) /\ Len(<<x>>) <= 1 /\ Len(<<v>>) <= 1 BY <1>1
<1> QED BY <1>2, <1>3, RunsOne DEF v

(* A binary opcode turns two values into a boolean. *)
LEMMA BinaryRuns ==
    ASSUME NEW in \in Instr, in.op \in Binaries, NEW x \in Value, NEW y \in Value, NEW r
    PROVE  Runs(<<in>>, <<x, y>>, <<boolV(binaryOp(in.op, x, y))>>, 2, r)
<1> DEFINE v == boolV(binaryOp(in.op, x, y))
<1>1. v \in Value BY ResultTypes, BoolIsValue
<1>2. Effect(in, <<x, y>>, <<v>>, r) BY DEF Effect, Pops
<1> HIDE DEF v
<1>3. <<x, y>> \in Seq(Value) /\ <<v>> \in Seq(Value) /\ Len(<<x, y>>) <= 2 /\ Len(<<v>>) <= 2 BY <1>1
<1> QED BY <1>2, <1>3, RunsOne DEF v

(* BETWEEN turns three values into a boolean. *)
LEMMA BetweenRuns ==
    ASSUME NEW in \in Instr, in.op = "Between", NEW x \in Value, NEW lo \in Value, NEW hi \in Value, NEW r
    PROVE  Runs(<<in>>, <<x, lo, hi>>, <<boolV(between(x, lo, hi))>>, 3, r)
<1> DEFINE v == boolV(between(x, lo, hi))
<1>1. v \in Value BY ResultTypes, BoolIsValue
<1>2. Effect(in, <<x, lo, hi>>, <<v>>, r) BY DEF Effect, Pops
<1> HIDE DEF v
<1>3. <<x, lo, hi>> \in Seq(Value) /\ <<v>> \in Seq(Value) /\ Len(<<x, lo, hi>>) <= 3 /\ Len(<<v>>) <= 3 BY <1>1
<1> QED BY <1>2, <1>3, RunsOne DEF v

------------------------------------------------------------------------------
(* Leaves: the trees without children that front ends build. *)

(* Literals and leaves (ast.go:14-62). *)
Lit == [IsString : BOOLEAN, text : Text]

Compare0 == [t : {"Compare"}, Field : Fields, Op : DOMAIN cmpOp, Val : Lit]
Between0 == [t : {"Between"}, Field : Fields, Lo : Lit, Hi : Lit]
In0      == [t : {"In"}, Field : Fields, Vals : Seq(Lit), Negate : BOOLEAN]
Like0    == [t : {"Like"}, Field : Fields, Pattern : Text, Negate : BOOLEAN]
IsNull0  == [t : {"IsNull"}, Field : Fields, Negate : BOOLEAN]

LeafNode == Compare0 \cup Between0 \cup In0 \cup Like0 \cup IsNull0

Row == [Fields -> Value \cup {otherV}]

(* Loading a field pushes its value, undefined for a type the VM does not know *)
(* (vm.go:65).                                                                 *)
LEMMA FieldRuns ==
    ASSUME NEW f \in Fields, NEW r \in Row
    PROVE  /\ toValue(r[f]) \in Value
           /\ Runs(Arg("LoadField", f), <<>>, <<toValue(r[f])>>, 1, r)
<1> DEFINE in == [op |-> "LoadField", a |-> f]
<1>1. in \in Instr /\ in.op \in Pushes BY DEF Instr, Pushes
<1>2. load(in, r) = toValue(r[f]) BY DEF load
<1>3. load(in, r) \in Value BY <1>1, LoadType DEF Row
<1> DEFINE x == load(in, r)
<1>4. <<>> \in Seq(Value) /\ <<x>> \in Seq(Value) /\ Pops(<<>>, <<x>>, 0, x) /\ Len(<<x>>) = 1
  <2>0. x \in Value BY <1>3
  <2> HIDE DEF x
  <2>1. <<>> \in Seq(Value) /\ <<x>> \in Seq(Value) /\ Len(<<>>) = 0 /\ Len(<<x>>) = 1 /\ <<x>>[1] = x BY <2>0
  <2>2. \A k \in 1..(0 - 0) : FALSE OBVIOUS
  <2> QED BY <2>1, <2>2 DEF Pops
<1>5. Runs(<<in>>, <<>>, <<x>>, 1, r)
  <2> HIDE DEF in
  <2> QED BY <1>1, <1>4, PushRuns
<1> QED BY <1>2, <1>3, <1>5 DEF Arg

(* The code of a number pushes it (pushVal, compile.go:175). *)
LEMMA NumeralRuns ==
    ASSUME NEW v \in Lit, IsNumeral(v), NEW r \in Row
    PROVE  /\ LitV(v) \in Value
           /\ \A a, b \in Seq(Value) : Pops(a, b, 0, LitV(v)) => Runs(pushVal(v), a, b, Len(b), r)
<1> DEFINE in == [op |-> "ConstNum", a |-> TextNum[v.text]]
<1>0. TextNum[v.text] \in Int BY NumeralsAssumption DEF IsNumeral
<1>1. in \in Instr /\ in.op \in Pushes BY <1>0 DEF Instr, Pushes
<1>2. load(in, r) = LitV(v) BY DEF load, LitV
<1>3. pushVal(v) = <<in>> BY DEF pushVal, Arg, IsNumeral
<1> HIDE DEF in
<1> QED BY <1>1, <1>2, <1>3, LoadType, PushRuns DEF Row

(* The code of a literal pushes it (pushVal, compile.go:175). *)
LEMMA LiteralRuns ==
    ASSUME NEW v \in Lit, pushVal(v) # Error, NEW r \in Row
    PROVE  /\ LitV(v) \in Value
           /\ \A a, b \in Seq(Value) : Pops(a, b, 0, LitV(v)) => Runs(pushVal(v), a, b, Len(b), r)
<1>1. CASE v.IsString
  <2> DEFINE in == [op |-> "ConstStr", a |-> v.text]
  <2>1. in \in Instr /\ in.op \in Pushes BY DEF Instr, Pushes, Lit
  <2>2. load(in, r) = LitV(v) BY <1>1 DEF load, LitV, IsNumeral
  <2>3. pushVal(v) = <<in>> BY <1>1 DEF pushVal, Arg, IsNumeral
  <2> HIDE DEF in
  <2> QED BY <2>1, <2>2, <2>3, LoadType, PushRuns DEF Row
<1>2. CASE IsNumeral(v) BY <1>2, NumeralRuns
<1>3. v.IsString \/ IsNumeral(v) BY DEF pushVal
<1> QED BY <1>1, <1>2, <1>3

(* The opcode chosen for a comparison compares a defined operand as the        *)
(* reference does, number with number as numbers and everything else as text,  *)
(* and is false for a missing one (compare, vm.go).                            *)
LEMMA CompareMeans ==
    ASSUME NEW x \in Value, NEW v \in Lit, v.IsString \/ IsNumeral(v), NEW op \in DOMAIN cmpOp
    PROVE  binaryOp(cmpOp[op], x, LitV(v)) =
             LET o == IF op = "==" THEN "=" ELSE op IN
             /\ x # undef
             /\ IF x.k = "num" /\ LitV(v).k = "num"
                THEN Ordered(o, x.n = LitV(v).n, x.n < LitV(v).n, x.n > LitV(v).n)
                ELSE Ordered(o, asString(x) = asString(LitV(v)),
                             TextLess(asString(x), asString(LitV(v))),
                             TextLess(asString(LitV(v)), asString(x)))
<1> DEFINE y == LitV(v)
           c == cmpOp[op]
           lt == TextLess(asString(x), asString(y))
           gt == TextLess(asString(y), asString(x))
<1>1. y.k \in {"num", "str"} /\ y.k # "undef" BY DEF LitV, numV, strV
<1>2. x.k \in {"undef", "num", "str", "bool"} /\ (x.k = "undef" <=> x = undef) BY DEF Value, undef
<1>3. c \in Compares /\ c # "And" /\ c # "Or"
  BY DEF cmpOp, Compares
<1>4. binaryOp(c, x, y) = compare(x, y, c) BY <1>3 DEF binaryOp, compare
<1>5. eq(x, y) = IF x.k = "num" /\ y.k = "num" THEN x.n = y.n ELSE asString(x) = asString(y)
  <2>1. CASE x.k = "num" /\ y.k = "num"
    <3>1. x = [k |-> "num", n |-> x.n] /\ y = [k |-> "num", n |-> y.n]
      BY <2>1 DEF Value, undef, LitV, numV, strV
    <3>2. x = y <=> x.n = y.n BY <3>1
    <3> QED BY <2>1, <3>2 DEF eq
  <2>2. CASE ~(x.k = "num" /\ y.k = "num")
    BY <2>2, <1>1 DEF eq
  <2> QED BY <2>1, <2>2
<1>6. less(x, y) = (IF x.k = "num" /\ y.k = "num" THEN x.n < y.n ELSE lt) BY DEF less
<1>7. less(y, x) = (IF x.k = "num" /\ y.k = "num" THEN x.n > y.n ELSE gt)
  <2>1. CASE x.k = "num" /\ y.k = "num"
    <3>1. x.n \in Int /\ y.n \in Int BY <2>1, NumeralsAssumption DEF Value, undef, LitV, numV, strV, IsNumeral
    <3> QED BY <2>1, <3>1 DEF less
  <2>2. CASE ~(x.k = "num" /\ y.k = "num") BY <2>2 DEF less
  <2> QED BY <2>1, <2>2
<1> DEFINE o == IF op = "==" THEN "=" ELSE op
<1>8. \/ o = "=" /\ c = "Eq"
      \/ o = "!=" /\ c = "Ne"
      \/ o = ">" /\ c = "Gt"
      \/ o = ">=" /\ c = "Ge"
      \/ o = "<" /\ c = "Lt"
      \/ o = "<=" /\ c = "Le"
  BY DEF cmpOp
<1> HIDE DEF y, c, lt, gt, o
<1>9. compare(x, y, c) = (/\ x # undef
             /\ IF x.k = "num" /\ y.k = "num"
                THEN Ordered(o, x.n = y.n, x.n < y.n, x.n > y.n)
                ELSE Ordered(o, asString(x) = asString(y), lt, gt))
  BY <1>1, <1>2, <1>5, <1>6, <1>7, <1>8 DEF compare, Ordered
<1> QED BY <1>4, <1>9 DEF y, c, lt, gt, o

(* The code of a comparison computes its meaning, with two values on the       *)
(* stack.                                                                      *)
LEMMA CompareRuns ==
    ASSUME NEW n \in Compare0, NEW codes, NEW ms, NEW r \in Row, emitNode(n, codes) # Error
    PROVE  Runs(emitNode(n, codes), <<>>, <<boolV(meaningNode(n, ms, r))>>, 2, r)
<1> DEFINE x == toValue(r[n.Field])
           v == n.Val
           y == LitV(v)
           in == [op |-> cmpOp[n.Op]]
<1>0. n.t = "Compare" /\ n.Field \in Fields /\ n.Op \in DOMAIN cmpOp /\ v \in Lit BY DEF Compare0
<1>1. /\ emitNode(n, codes) = Arg("LoadField", n.Field) \o pushVal(v) \o Op(cmpOp[n.Op])
      /\ pushVal(v) # Error
  BY <1>0 DEF emitNode
<1>2. v.IsString \/ IsNumeral(v) BY <1>1 DEF pushVal
<1>3. x \in Value /\ Runs(Arg("LoadField", n.Field), <<>>, <<x>>, 1, r) BY <1>0, FieldRuns
<1> HIDE DEF x, v
<1>4. y \in Value /\ \A a, b \in Seq(Value) : Pops(a, b, 0, y) => Runs(pushVal(v), a, b, Len(b), r)
  BY <1>0, <1>1, LiteralRuns
<1> HIDE DEF y
<1>5. <<x>> \in Seq(Value) /\ <<x, y>> \in Seq(Value) /\ Pops(<<x>>, <<x, y>>, 0, y) /\ Len(<<x, y>>) = 2
  BY <1>3, <1>4 DEF Pops
<1>6. Runs(pushVal(v), <<x>>, <<x, y>>, 2, r) BY <1>4, <1>5
<1>7. in \in Instr /\ in.op \in Binaries /\ in.op = cmpOp[n.Op] BY <1>0 DEF cmpOp, Instr, Binaries, Compares
<1>8. Runs(<<in>>, <<x, y>>, <<boolV(binaryOp(cmpOp[n.Op], x, y))>>, 2, r)
  <2> HIDE DEF in
  <2> QED BY <1>3, <1>4, <1>7, BinaryRuns
<1>9. Runs(Arg("LoadField", n.Field), <<>>, <<x>>, 2, r) BY <1>3, RunsMore
<1>10. Runs(Arg("LoadField", n.Field) \o pushVal(v), <<>>, <<x, y>>, 2, r) BY <1>6, <1>9, RunsSeq
<1>11. Runs(emitNode(n, codes), <<>>, <<boolV(binaryOp(cmpOp[n.Op], x, y))>>, 2, r)
  BY <1>1, <1>8, <1>10, RunsSeq DEF Op
<1>12. binaryOp(cmpOp[n.Op], x, y) = meaningNode(n, ms, r)
  <2> DEFINE o == IF n.Op = "==" THEN "=" ELSE n.Op
  <2>1. binaryOp(cmpOp[n.Op], x, y) =
             (/\ x # undef
              /\ IF x.k = "num" /\ y.k = "num"
                THEN Ordered(o, x.n = y.n, x.n < y.n, x.n > y.n)
                ELSE Ordered(o, asString(x) = asString(y),
                             TextLess(asString(x), asString(y)),
                             TextLess(asString(y), asString(x))))
    BY <1>0, <1>2, <1>3, CompareMeans DEF y
  <2> HIDE DEF o
  <2> QED BY <1>0, <2>1 DEF meaningNode, x, y, v, o
<1> QED BY <1>11, <1>12

LEMMA RangeRuns ==
    ASSUME NEW n \in Between0, NEW codes, NEW ms, NEW r \in Row, emitNode(n, codes) # Error
    PROVE  Runs(emitNode(n, codes), <<>>, <<boolV(meaningNode(n, ms, r))>>, 3, r)
<1> DEFINE x == toValue(r[n.Field])
           lo == n.Lo
           hi == n.Hi
           y == LitV(lo)
           z == LitV(hi)
           in == [op |-> "Between"]
<1>0. n.t = "Between" /\ n.Field \in Fields /\ lo \in Lit /\ hi \in Lit BY DEF Between0
<1>1. /\ IsNumeral(lo) /\ IsNumeral(hi)
      /\ emitNode(n, codes) = Arg("LoadField", n.Field) \o pushVal(lo) \o pushVal(hi) \o Op("Between")
  BY <1>0 DEF emitNode
<1>2. x \in Value /\ Runs(Arg("LoadField", n.Field), <<>>, <<x>>, 1, r) BY <1>0, FieldRuns
<1> HIDE DEF x, lo, hi
<1>3. y \in Value /\ \A a, b \in Seq(Value) : Pops(a, b, 0, y) => Runs(pushVal(lo), a, b, Len(b), r)
  BY <1>0, <1>1, NumeralRuns
<1> HIDE DEF y
<1>4. <<x>> \in Seq(Value) /\ <<x, y>> \in Seq(Value) /\ Pops(<<x>>, <<x, y>>, 0, y) /\ Len(<<x, y>>) = 2
  BY <1>2, <1>3 DEF Pops
<1>5. z \in Value /\ \A a, b \in Seq(Value) : Pops(a, b, 0, z) => Runs(pushVal(hi), a, b, Len(b), r)
  BY <1>0, <1>1, NumeralRuns
<1> HIDE DEF z
<1>6. <<x, y, z>> \in Seq(Value) /\ Pops(<<x, y>>, <<x, y, z>>, 0, z) /\ Len(<<x, y, z>>) = 3
  BY <1>2, <1>3, <1>5 DEF Pops
<1>7. in \in Instr /\ in.op = "Between" BY DEF Instr
<1>8. Runs(<<in>>, <<x, y, z>>, <<boolV(between(x, y, z))>>, 3, r)
  <2> HIDE DEF in
  <2> QED BY <1>2, <1>3, <1>5, <1>7, BetweenRuns
<1>9. Runs(Arg("LoadField", n.Field), <<>>, <<x>>, 3, r) BY <1>2, RunsMore
<1>10. Runs(pushVal(lo), <<x>>, <<x, y>>, 3, r)
  <2>1. Runs(pushVal(lo), <<x>>, <<x, y>>, 2, r) BY <1>3, <1>4
  <2> QED BY <2>1, RunsMore
<1>11. Runs(pushVal(hi), <<x, y>>, <<x, y, z>>, 3, r) BY <1>4, <1>5, <1>6
<1>12. Runs(Arg("LoadField", n.Field) \o pushVal(lo), <<>>, <<x, y>>, 3, r) BY <1>9, <1>10, RunsSeq
<1>13. Runs(Arg("LoadField", n.Field) \o pushVal(lo) \o pushVal(hi), <<>>, <<x, y, z>>, 3, r)
  BY <1>11, <1>12, RunsSeq
<1>14. Runs(emitNode(n, codes), <<>>, <<boolV(between(x, y, z))>>, 3, r)
  BY <1>1, <1>8, <1>13, RunsSeq DEF Op
<1>15. between(x, y, z) = meaningNode(n, ms, r)
  <2>1. y.k = "num" /\ y.n = TextNum[lo.text] /\ z.k = "num" /\ z.n = TextNum[hi.text]
    BY <1>1 DEF y, z, LitV, numV
  <2>2. TextNum[lo.text] \in Int /\ TextNum[hi.text] \in Int BY <1>1, NumeralsAssumption DEF IsNumeral
  <2>3. meaningNode(n, ms, r) = (x.k = "num" /\ x.n \in TextNum[lo.text]..TextNum[hi.text])
    BY <1>0 DEF meaningNode, x, lo, hi
  <2>4. x.k = "num" => x.n \in Int BY <1>2 DEF Value, undef
  <2>5. CASE x.k = "num"
    <3>1. (y.n <= x.n /\ x.n <= z.n) = (x.n \in y.n..z.n) BY <2>1, <2>2, <2>4, <2>5
    <3> QED BY <2>1, <2>3, <2>5, <3>1 DEF between
  <2>6. CASE x.k # "num" BY <2>3, <2>6 DEF between
  <2> QED BY <2>5, <2>6
<1> QED BY <1>14, <1>15

(* A test of a single loaded field, possibly negated. *)
LEMMA TestRuns ==
    ASSUME NEW f \in Fields, NEW in \in Instr, in.op \in Unaries, NEW neg \in BOOLEAN, NEW r \in Row
    PROVE  Runs(Arg("LoadField", f) \o <<in>> \o (IF neg THEN Op("Not") ELSE <<>>), <<>>,
                <<boolV(neg # unaryOp(in, toValue(r[f])))>>, 1, r)
<1> DEFINE x == toValue(r[f])
           u == unaryOp(in, x)
           no == [op |-> "Not"]
<1>1. x \in Value /\ Runs(Arg("LoadField", f), <<>>, <<x>>, 1, r) BY FieldRuns
<1>2. u \in BOOLEAN /\ boolV(u) \in Value BY ResultTypes, BoolIsValue
<1> HIDE DEF x
<1>3. Runs(<<in>>, <<x>>, <<boolV(u)>>, 1, r) BY <1>1, UnaryRuns
<1> HIDE DEF u
<1>4. Runs(Arg("LoadField", f) \o <<in>>, <<>>, <<boolV(u)>>, 1, r) BY <1>1, <1>3, RunsSeq
<1>5. CASE neg
  <2>1. no \in Instr /\ no.op \in Unaries BY DEF Instr, Unaries
  <2>2. unaryOp(no, boolV(u)) = (neg # u) BY <1>2, <1>5 DEF unaryOp, boolV, Likes
  <2>3. Runs(<<no>>, <<boolV(u)>>, <<boolV(unaryOp(no, boolV(u)))>>, 1, r)
    <3> HIDE DEF no
    <3> QED BY <1>2, <2>1, UnaryRuns
  <2>4. Runs(<<no>>, <<boolV(u)>>, <<boolV(neg # u)>>, 1, r) BY <2>2, <2>3
  <2>5. (IF neg THEN Op("Not") ELSE <<>>) = <<no>> BY <1>5 DEF Op
  <2> QED BY <1>4, <2>4, <2>5, RunsSeq DEF u, x
<1>6. CASE ~neg
  <2>1. (neg # u) = u BY <1>2, <1>6
  <2>2. (Arg("LoadField", f) \o <<in>>) \o <<>> = Arg("LoadField", f) \o <<in>>
    <3>1. Arg("LoadField", f) \o <<in>> \in Seq(Instr) BY <1>4 DEF Runs
    <3> QED BY <3>1, ConcatEmptySeq
  <2> QED BY <1>4, <1>6, <2>1, <2>2 DEF u, x
<1> QED BY <1>5, <1>6

(* One character at either end. *)
LEMMA EndsOfText ==
    ASSUME NEW p \in Text, NEW c \in Int, p # <<>>
    PROVE  /\ p[1] = c => HasPrefix(p, <<c>>)
           /\ p[Len(p)] = c => HasSuffix(p, <<c>>)
<1>1. Len(p) \in Nat /\ Len(p) >= 1 /\ p \in Seq(Int) BY EmptySeq, LenProperties DEF Text
<1>2. Len(<<c>>) = 1 /\ <<c>>[1] = c /\ <<c>> \in Seq(Int) OBVIOUS
<1>3. ASSUME NEW u \in Seq(Int), NEW v \in Seq(Int), Len(u) = 1, Len(v) >= 1, u[1] = v[1]
      PROVE  Sq!IsPrefix(u, v)
  <2>1. \A k \in 1..1 : u[k] \in Int /\ v[k] \in Int BY <1>3
  <2>2. /\ SubSeq(u, 1, 1) \in Seq(Int) /\ Len(SubSeq(u, 1, 1)) = 1 /\ SubSeq(u, 1, 1)[1] = u[1]
        /\ SubSeq(v, 1, 1) \in Seq(Int) /\ Len(SubSeq(v, 1, 1)) = 1 /\ SubSeq(v, 1, 1)[1] = v[1]
    BY <2>1, SubSeqProperties
  <2>3. \A k \in 1..1 : SubSeq(u, 1, 1)[k] = SubSeq(v, 1, 1)[k] BY <2>2, <1>3
  <2>4. SubSeq(u, 1, 1) = SubSeq(v, 1, 1) BY <2>2, <2>3, SeqEqual
  <2> QED BY <2>4, <1>3 DEF Sq!IsPrefix
<1>4. ASSUME p[1] = c PROVE HasPrefix(p, <<c>>)
  BY <1>1, <1>2, <1>3, <1>4 DEF HasPrefix
<1>5. ASSUME p[Len(p)] = c PROVE HasSuffix(p, <<c>>)
  <2> DEFINE u == Sq!Reverse(<<c>>)
             v == Sq!Reverse(p)
  <2>1. v = [k \in 1..Len(p) |-> p[(Len(p) - k) + 1]] BY DEF Sq!Reverse
  <2>2. \A k \in 1..Len(p) : p[(Len(p) - k) + 1] \in Int BY <1>1
  <2>3. v \in Seq(Int) /\ Len(v) = Len(p) /\ v[1] = c BY <2>1, <2>2, <1>1, <1>5
  <2>4. u = [k \in 1..1 |-> <<c>>[(1 - k) + 1]] BY <1>2 DEF Sq!Reverse
  <2>5. \A k \in 1..1 : <<c>>[(1 - k) + 1] = c BY <1>2
  <2>6. u = [k \in 1..1 |-> c] BY <2>4, <2>5
  <2> HIDE DEF u, v
  <2>7. u \in Seq(Int) /\ Len(u) = 1 /\ u[1] = c BY <2>6
  <2>8. Sq!IsPrefix(u, v) BY <1>1, <1>3, <2>3, <2>7
  <2> QED BY <2>8 DEF HasSuffix, Sq!IsSuffix, u, v
<1> QED BY <1>4, <1>5

(* Trimming wildcards leaves a text, and the whole text when there is none at  *)
(* either end (likeParts, compile.go).                                         *)
LEMMA TrimText ==
    ASSUME NEW p \in Text
    PROVE  /\ Trim(p) \in Text
           /\ ~HasPrefix(p, <<Percent>>) /\ ~HasSuffix(p, <<Percent>>) => Trim(p) = p
<1> DEFINE ks == {k \in DOMAIN p : p[k] # Percent}
           lo == CHOOSE k \in ks : \A l \in ks : k <= l
           hi == CHOOSE k \in ks : \A l \in ks : k >= l
<1>1. Len(p) \in Nat /\ p \in Seq(Int) /\ DOMAIN p = 1..Len(p) BY LenProperties DEF Text
<1>2. CASE ks = {}
  <2>1. Trim(p) = <<>> BY <1>2 DEF Trim
  <2>2. p # <<>> => HasPrefix(p, <<Percent>>)
    <3> SUFFICES ASSUME p # <<>> PROVE HasPrefix(p, <<Percent>>) OBVIOUS
    <3>1. Len(p) >= 1 BY <1>1, EmptySeq
    <3>2. p[1] = Percent BY <1>1, <1>2, <3>1
    <3> QED BY <3>2, EndsOfText DEF Percent
  <2>3. <<>> \in Text BY DEF Text
  <2> QED BY <2>1, <2>2, <2>3
<1>3. CASE ks # {}
  <2> DEFINE up == {Len(p) - k : k \in ks}
  <2>1. ks \subseteq Nat /\ up \subseteq Nat /\ up # {} BY <1>1, <1>3
  <2>2. PICK k \in ks : \A l \in ks : k <= l
    <3> HIDE DEF ks
    <3> QED BY <2>1, <1>3, LeastElement
  <2>3. PICK x \in up : \A y \in up : x <= y
    <3> HIDE DEF up
    <3> QED BY <2>1, LeastElement
  <2>4. PICK m \in ks : x = Len(p) - m BY <2>3
  <2>5. \A l \in ks : m >= l
    <3> SUFFICES ASSUME NEW l \in ks PROVE m >= l OBVIOUS
    <3>1. Len(p) - l \in up OBVIOUS
    <3>2. Len(p) - m <= Len(p) - l BY <3>1, <2>3, <2>4
    <3> QED BY <3>2, <1>1, <2>1
  <2> HIDE DEF ks
  <2>6. lo \in ks /\ \A l \in ks : lo <= l BY <2>2
  <2>7. hi \in ks /\ \A l \in ks : hi >= l BY <2>5
  <2>8. Trim(p) = SubSeq(p, lo, hi) BY <1>3 DEF Trim, ks
  <2> HIDE DEF lo, hi
  <2>9. lo \in 1..Len(p) /\ hi \in 1..Len(p) BY <2>6, <2>7, <1>1 DEF ks
  <2>10. \A l \in lo..hi : p[l] \in Int BY <1>1, <2>9
  <2>11. Trim(p) \in Text BY <2>8, <2>9, <2>10, SubSeqProperties DEF Text
  <2>12. ASSUME ~HasPrefix(p, <<Percent>>), ~HasSuffix(p, <<Percent>>) PROVE Trim(p) = p
    <3>1. p # <<>> BY <2>9, <1>1, EmptySeq
    <3>2. p[1] # Percent /\ p[Len(p)] # Percent BY <2>12, <3>1, EndsOfText DEF Percent
    <3>3. 1 \in ks /\ Len(p) \in ks BY <3>2, <2>9, <1>1 DEF ks
    <3>4. lo = 1 /\ hi = Len(p) BY <3>3, <2>6, <2>7, <2>9, <1>1
    <3>5. /\ Len(Trim(p)) = Len(p)
          /\ \A l \in 1..Len(p) : Trim(p)[l] = p[l]
      <4> DEFINE L == Len(p)
      <4>1. Trim(p) = SubSeq(p, 1, L) BY <2>8, <3>4
      <4>2. \A l \in 1..L : p[l] \in Int BY <2>10, <3>4
      <4>3. 1 <= L /\ L - 1 + 1 = L BY <1>1, <2>9
      <4>4. Len(SubSeq(p, 1, L)) = (IF 1 <= L THEN L - 1 + 1 ELSE 0)
            /\ \A l \in 1..(L - 1 + 1) : SubSeq(p, 1, L)[l] = p[1 + l - 1]
        BY <4>2, <1>1, SubSeqProperties
      <4>5. \A l \in 1..L : 1 + l - 1 = l OBVIOUS
      <4> HIDE DEF L
      <4> QED BY <4>1, <4>3, <4>4, <4>5 DEF L
    <3> QED BY <3>5, <2>11, <1>1, SeqEqual DEF Text
  <2> QED BY <2>11, <2>12
<1> QED BY <1>2, <1>3

(* The opcode and the core chosen for a LIKE pattern match what the pattern    *)
(* matches.                                                                    *)
LEMMA LikeMeans ==
    ASSUME NEW p \in Text, NEW s
    PROVE  /\ likeParts(p).op \in Likes /\ likeParts(p).core \in Text
           /\ LikeHolds(likeParts(p).op, s, likeParts(p).core) = like(s, p)
<1> DEFINE k == likeParts(p)
<1>1. k.op \in Likes /\ k.core = Trim(p) BY DEF likeParts, Likes
<1>2. k.op = "LikeEq" => ~HasPrefix(p, <<Percent>>) /\ ~HasSuffix(p, <<Percent>>) BY DEF likeParts
<1>3. k.op = "LikeEq" => k.core = p BY <1>1, <1>2, TrimText
<1>4. k.core \in Text BY <1>1, TrimText
<1>5. like(s, p) = (IF k.op = "LikeEq" THEN s = p ELSE LikeHolds(k.op, s, k.core)) BY DEF like
<1> HIDE DEF k
<1>6. LikeHolds(k.op, s, k.core) = (IF k.op = "LikeEq" THEN s = p ELSE LikeHolds(k.op, s, k.core))
  BY <1>3 DEF LikeHolds
<1> QED BY <1>1, <1>4, <1>5, <1>6 DEF k

(* The code of IN and NOT IN computes its meaning. *)
LEMMA InRuns ==
    ASSUME NEW n \in In0, NEW codes, NEW ms, NEW r \in Row
    PROVE  Runs(emitNode(n, codes), <<>>, <<boolV(meaningNode(n, ms, r))>>, 1, r)
<1> DEFINE x == toValue(r[n.Field])
           a == {n.Vals[j].text : j \in DOMAIN n.Vals}
           in == [op |-> "In", a |-> a]
<1>0. n.t = "In" /\ n.Field \in Fields /\ n.Negate \in BOOLEAN /\ n.Vals \in Seq(Lit) BY DEF In0
<1>1. a \in SUBSET Text
  <2>1. \A j \in DOMAIN n.Vals : n.Vals[j] \in Lit BY <1>0
  <2> QED BY <2>1 DEF Lit
<1>2. emitNode(n, codes) = Arg("LoadField", n.Field) \o <<in>> \o (IF n.Negate THEN Op("Not") ELSE <<>>)
  BY <1>0 DEF emitNode, Negation, Arg
<1>3. in \in Instr /\ in.op \in Unaries /\ in.op = "In" /\ in.a = a
  <2> HIDE DEF a
  <2> QED BY <1>1 DEF Instr, Unaries
<1>4. Runs(emitNode(n, codes), <<>>, <<boolV(n.Negate # unaryOp(in, x))>>, 1, r)
  <2> HIDE DEF in
  <2> QED BY <1>0, <1>2, <1>3, TestRuns
<1>5. x \in Value BY <1>0, FieldRuns
<1>6. x.k = "undef" <=> x = undef BY <1>5 DEF Value, undef
<1>7. meaningNode(n, ms, r) = (n.Negate # (x # undef /\ \E j \in DOMAIN n.Vals : asString(x) = n.Vals[j].text))
  BY <1>0 DEF meaningNode
<1>8. asString(x) \in a <=> \E j \in DOMAIN n.Vals : asString(x) = n.Vals[j].text OBVIOUS
<1> HIDE DEF x, a, in
<1>9. unaryOp(in, x) = (x # undef /\ asString(x) \in a) BY <1>3, <1>6 DEF unaryOp, Likes
<1>10. (n.Negate # unaryOp(in, x)) = meaningNode(n, ms, r) BY <1>7, <1>8, <1>9
<1> QED BY <1>4, <1>10

(* The code of LIKE and NOT LIKE computes its meaning. *)
LEMMA LikeRuns ==
    ASSUME NEW n \in Like0, NEW codes, NEW ms, NEW r \in Row
    PROVE  Runs(emitNode(n, codes), <<>>, <<boolV(meaningNode(n, ms, r))>>, 1, r)
<1> DEFINE x == toValue(r[n.Field])
           p == likeParts(n.Pattern)
           in == [op |-> p.op, a |-> p.core]
<1>0. n.t = "Like" /\ n.Field \in Fields /\ n.Negate \in BOOLEAN /\ n.Pattern \in Text BY DEF Like0
<1>1. p.op \in Likes /\ p.core \in Text /\ LikeHolds(p.op, asString(x), p.core) = like(asString(x), n.Pattern)
  BY <1>0, LikeMeans
<1>2. emitNode(n, codes) = Arg("LoadField", n.Field) \o <<in>> \o (IF n.Negate THEN Op("Not") ELSE <<>>)
  BY <1>0 DEF emitNode, Negation, Arg
<1>5. x \in Value BY <1>0, FieldRuns
<1>7. meaningNode(n, ms, r) = (n.Negate # (x # undef /\ like(asString(x), n.Pattern)))
  BY <1>0 DEF meaningNode
<1> HIDE DEF x, p
<1>3. in \in Instr /\ in.op \in Unaries /\ in.op = p.op /\ in.a = p.core
  BY <1>1 DEF Instr, Unaries
<1> HIDE DEF in
<1>4. Runs(emitNode(n, codes), <<>>, <<boolV(n.Negate # unaryOp(in, x))>>, 1, r)
  BY <1>0, <1>2, <1>3, TestRuns DEF x
<1>6. x.k = "undef" <=> x = undef BY <1>5 DEF Value, undef
<1>9. unaryOp(in, x) = (x # undef /\ like(asString(x), n.Pattern)) BY <1>1, <1>3, <1>6 DEF unaryOp, Likes
<1>10. (n.Negate # unaryOp(in, x)) = meaningNode(n, ms, r) BY <1>7, <1>9
<1> QED BY <1>4, <1>10

(* The code of IS NULL and IS NOT NULL computes its meaning. *)
LEMMA IsNullRuns ==
    ASSUME NEW n \in IsNull0, NEW codes, NEW ms, NEW r \in Row
    PROVE  Runs(emitNode(n, codes), <<>>, <<boolV(meaningNode(n, ms, r))>>, 1, r)
<1> DEFINE x == toValue(r[n.Field])
           in == [op |-> IF n.Negate THEN "IsNotNull" ELSE "IsNull"]
<1>0. n.t = "IsNull" /\ n.Field \in Fields /\ n.Negate \in BOOLEAN BY DEF IsNull0
<1>1. emitNode(n, codes) = Arg("LoadField", n.Field) \o <<in>>
  BY <1>0 DEF emitNode, Op
<1>2. x \in Value /\ Runs(Arg("LoadField", n.Field), <<>>, <<x>>, 1, r) BY <1>0, FieldRuns
<1>3. meaningNode(n, ms, r) = (n.Negate # (x = undef)) BY <1>0 DEF meaningNode
<1> HIDE DEF x
<1>4. in \in Instr /\ in.op \in Unaries /\ in.op = IF n.Negate THEN "IsNotNull" ELSE "IsNull"
  BY DEF Instr, Unaries
<1> HIDE DEF in
<1>5. Runs(<<in>>, <<x>>, <<boolV(unaryOp(in, x))>>, 1, r) BY <1>2, <1>4, UnaryRuns
<1>6. x.k = "undef" <=> x = undef BY <1>2 DEF Value, undef
<1>7. unaryOp(in, x) = meaningNode(n, ms, r)
  <2>1. CASE n.Negate BY <2>1, <1>0, <1>3, <1>4, <1>6 DEF unaryOp, Likes
  <2>2. CASE ~n.Negate BY <2>2, <1>0, <1>3, <1>4, <1>6 DEF unaryOp, Likes
  <2> QED BY <2>1, <2>2
<1> QED BY <1>1, <1>2, <1>5, <1>7, RunsSeq

------------------------------------------------------------------------------
(* Logic nodes. *)

(* The code of a Logic node, operand by operand: the recursion of Chain is    *)
(* well founded, so it is the function its equations describe.                *)
LEMMA ChainUnfolds ==
    ASSUME NEW op \in Binaries, NEW codes \in Seq(Seq(Instr)), codes # <<>>
    PROVE  \E f \in [1..Len(codes) -> Seq(Instr)] :
              /\ Chain(op, codes) = f[Len(codes)]
              /\ f[1] = codes[1]
              /\ \A j \in 2..Len(codes) : f[j] = f[j - 1] \o codes[j] \o Op(op)
<1> DEFINE n == Len(codes)
           E == Seq(Instr)
           N(f) == [j \in 1..n |-> IF j = 1 THEN codes[1] ELSE f[j - 1] \o codes[j] \o Op(op)]
           U == CHOOSE f : f = N(f)
           step == [x \in E \X (1..n) |-> IF x[2] = 1 THEN codes[1] ELSE x[1] \o codes[x[2]] \o Op(op)]
<1>1. n \in Nat /\ n >= 1 /\ \A j \in 1..n : codes[j] \in E BY EmptySeq, LenProperties
<1>2. Op(op) \in E BY DEF Op, Instr
<1>3. step \in [E \X (1..n) -> E]
  <2>1. ASSUME NEW x \in E, NEW j \in 1..n PROVE x \o codes[j] \o Op(op) \in E
    BY <1>1, <1>2, ConcatProperties
  <2> HIDE DEF n, E
  <2> QED BY <2>1, <1>1
<1>4. PICK v \in E : TRUE BY <1>2
<1>5. PICK g : Iterate(g, E, v, n, step)
  <2>1. n \in Nat /\ IsStep(step, E, n) BY <1>1, <1>3 DEF IsStep
  <2> HIDE DEF step, n, E
  <2> QED BY <2>1, Iterates
<1>a. g \in [0..n -> E] /\ \A j \in 1..n : g[j] = step[<<g[j - 1], j>>] BY <1>5 DEF Iterate
<1> DEFINE f == [j \in 1..n |-> g[j]]
<1>6. f \in [1..n -> E] /\ \A j \in 1..n : f[j] = g[j]
  <2> HIDE DEF E
  <2> QED BY <1>a
<1>7. f = N(f)
  <2>1. ASSUME NEW j \in 1..n PROVE g[j] = IF j = 1 THEN codes[1] ELSE f[j - 1] \o codes[j] \o Op(op)
    <3>0. j - 1 \in 0..n BY <1>1
    <3>1. j - 1 \in 0..n /\ g[j - 1] \in E
      <4> HIDE DEF E, n, step
      <4> QED BY <3>0, <1>a
    <3>2. g[j] = IF j = 1 THEN codes[1] ELSE g[j - 1] \o codes[j] \o Op(op)
      <4> HIDE DEF n, E
      <4> QED BY <1>a, <3>1
    <3>3. j # 1 => j - 1 \in 1..n BY <1>1
    <3> HIDE DEF f
    <3> QED BY <3>2, <3>3, <1>6
  <2> QED BY <2>1
<1> HIDE DEF f
<1>8. U = N(U) BY <1>7
<1>9. Chain(op, codes) = U[n] BY DEF Chain
<1> HIDE DEF U
<1>10. \A j \in 1..n : U[j] = IF j = 1 THEN codes[1] ELSE U[j - 1] \o codes[j] \o Op(op) BY <1>8
<1>11. \A j \in 1..n : U[j] \in E
  <2> DEFINE Gd == {j \in 0..n : j = 0 \/ U[j] \in E}
  <2>1. 0 \in Gd BY <1>1
  <2>2. ASSUME NEW j \in 1..n, j - 1 \in Gd PROVE j \in Gd
    <3>1. j # 1 => U[j - 1] \in E /\ U[j - 1] \o codes[j] \o Op(op) \in E BY <2>2, <1>1, <1>2, ConcatProperties
    <3> HIDE DEF E
    <3> QED BY <3>1, <1>1, <1>10
  <2> HIDE DEF Gd
  <2>3. \A j \in 0..n : j \in Gd BY <2>1, <2>2, <1>1, CountUp
  <2> QED BY <2>3, <1>1 DEF Gd
<1>12. U \in [1..n -> E]
  <2> HIDE DEF E
  <2>1. DOMAIN U = 1..n BY <1>8
  <2> QED BY <1>8, <1>10, <1>11
<1>13. U[1] = codes[1] /\ \A j \in 2..n : U[j] = U[j - 1] \o codes[j] \o Op(op)
  <2>1. 1 \in 1..n /\ \A j \in 2..n : j \in 1..n /\ j # 1 BY <1>1
  <2> HIDE DEF n
  <2> QED BY <2>1, <1>10
<1> QED BY <1>9, <1>12, <1>13

(* The conjunction or disjunction of the first j results. *)
Joined(op, ms, j) == IF op = "Or" THEN \E k \in 1..j : ms[k] ELSE \A k \in 1..j : ms[k]

(* One value on top of another. *)
LEMMA OneOnTop ==
    ASSUME NEW p \in Value, NEW q \in Value
    PROVE  Len(<<p>>) = 1 /\ <<p>> \o <<>> = <<p>> /\ <<p>> \o <<q>> = <<p, q>>
<1>1. Len(<<p>>) = 1 OBVIOUS
<1>2. <<p>> \o <<>> = <<p>> OBVIOUS
<1>3. <<p>> \o <<q>> = <<p, q>>
  <2> DEFINE a == <<p>>
             b == <<q>>
             c == <<p, q>>
  <2>1. a \in Seq(Value) /\ b \in Seq(Value) /\ Len(a) = 1 /\ Len(b) = 1 /\ a[1] = p /\ b[1] = q OBVIOUS
  <2>2. c \in Seq(Value) /\ Len(c) = 2 /\ c[1] = p /\ c[2] = q OBVIOUS
  <2> HIDE DEF a, b, c
  <2>3. a \o b \in Seq(Value) /\ Len(a \o b) = 2 /\ (a \o b)[1] = p /\ (a \o b)[2] = q
    BY <2>1, ConcatProperties
  <2>4. \A k \in 1..2 : (a \o b)[k] = c[k] BY <2>2, <2>3
  <2>5. a \o b = c BY <2>2, <2>3, <2>4, SeqEqual
  <2> QED BY <2>5 DEF a, b, c
<1> QED BY <1>1, <1>2, <1>3

(* The And or Or of the result so far with the next operand. *)
LEMMA JoinedStep ==
    ASSUME NEW op \in {"And", "Or"}, NEW n \in Nat, NEW ms \in [1..n -> BOOLEAN], NEW j \in 1..n
    PROVE  /\ Joined(op, ms, j) \in BOOLEAN
           /\ j # 1 => Joined(op, ms, j) = binaryOp(op, boolV(Joined(op, ms, j - 1)), boolV(ms[j]))
<1>1. \A k \in 1..j : k \in 1..(j - 1) \/ k = j OBVIOUS
<1>2. \A k \in 1..(j - 1) : k \in 1..j OBVIOUS
<1>3. j \in 1..j /\ \A k \in 1..j : k \in 1..n OBVIOUS
<1>4. Joined(op, ms, j) \in BOOLEAN
  BY <1>3, Zenon DEF Joined
<1>5. Joined(op, ms, j - 1) \in BOOLEAN
  BY <1>3, Zenon DEF Joined
<1>7. Joined(op, ms, j) = IF op = "Or" THEN Joined(op, ms, j - 1) \/ ms[j] ELSE Joined(op, ms, j - 1) /\ ms[j]
  BY <1>1, <1>2, <1>3 DEF Joined
<1>8. ASSUME NEW a \in BOOLEAN, NEW b \in BOOLEAN
      PROVE  binaryOp(op, boolV(a), boolV(b)) = IF op = "Or" THEN a \/ b ELSE a /\ b
  BY DEF binaryOp, Truth, boolV, Compares
<1>9. ms[j] \in BOOLEAN OBVIOUS
<1> QED BY <1>4, <1>5, <1>7, <1>8, <1>9, Zenon

(* The code Chain makes of the operands evaluates their conjunction or        *)
(* disjunction, with one slot above the deepest operand after the first.      *)
LEMMA ChainRuns ==
    ASSUME NEW op \in {"And", "Or"}, NEW codes \in Seq(Seq(Instr)), codes # <<>>,
           NEW ms \in [1..Len(codes) -> BOOLEAN], NEW ds \in [1..Len(codes) -> Nat \ {0}], NEW d \in Nat, NEW r,
           \A j \in 1..Len(codes) : /\ Runs(codes[j], <<>>, <<boolV(ms[j])>>, ds[j], r)
                                    /\ ds[j] + (IF j = 1 THEN 0 ELSE 1) <= d
    PROVE  Runs(Chain(op, codes), <<>>, <<boolV(Joined(op, ms, Len(codes)))>>, d, r)
<1> DEFINE n == Len(codes)
           J(j) == Joined(op, ms, j)
<1>1. n \in Nat /\ n >= 1 /\ \A j \in 1..n : codes[j] \in Seq(Instr) BY EmptySeq, LenProperties
<1>2. op \in Binaries BY DEF Binaries
<1>3. PICK f \in [1..n -> Seq(Instr)] :
              /\ Chain(op, codes) = f[n]
              /\ f[1] = codes[1]
              /\ \A j \in 2..n : f[j] = f[j - 1] \o codes[j] \o Op(op)
  BY <1>2, ChainUnfolds
<1> DEFINE Gd == {j \in 0..n : j = 0 \/ Runs(f[j], <<>>, <<boolV(J(j))>>, d, r)}
<1>4. 0 \in Gd BY <1>1
<1>5. ASSUME NEW j \in 1..n, j - 1 \in Gd PROVE j \in Gd
  <2> HIDE DEF n
  <2>1. Runs(codes[j], <<>>, <<boolV(ms[j])>>, ds[j], r) /\ ds[j] + (IF j = 1 THEN 0 ELSE 1) <= d /\ ds[j] \in Nat \ {0}
    BY DEF n
  <2>2. ms[j] \in BOOLEAN /\ ms \in [1..n -> BOOLEAN] BY DEF n
  <2>3. CASE j = 1
    <3>0. n \in Nat /\ j \in 0..n BY <1>1
    <3>1. J(j) = ms[j]
      <4>0. ms[1] \in BOOLEAN BY <2>2, <2>3
      <4>1. Joined(op, ms, 1) = ms[1] 
        <5>1. 1..1 = {1} OBVIOUS
        <5> QED BY <4>0, <5>1 DEF Joined
      <4> QED BY <4>1, <2>3
    <3>2. Runs(codes[j], <<>>, <<boolV(ms[j])>>, d, r) BY <2>1, <2>3, RunsMore
    <3>3. f[j] = codes[j] BY <2>3, <1>3
    <3> QED BY <3>0, <3>1, <3>2, <3>3, Zenon
  <2>4. CASE j # 1
    <3>0. j - 1 \in 1..n /\ j \in 2..n /\ j - 1 # 0 /\ j \in 0..n BY <2>4, <1>1
    <3> DEFINE p == boolV(J(j - 1))
               q == boolV(ms[j])
               in == [op |-> op]
    <3>1. J(j - 1) \in BOOLEAN BY <3>0, <2>2, <1>1, JoinedStep
    <3>2. p \in Value /\ q \in Value BY <3>1, <2>2 DEF Value, boolV
    <3>3. Runs(f[j - 1], <<>>, <<p>>, d, r) BY <1>5, <3>0
    <3>4. in \in Instr BY <1>2 DEF Instr
    <3>5. J(j) = binaryOp(op, p, q) BY <2>2, <2>4, <1>1, JoinedStep
    <3> HIDE DEF p, q, in
    <3>6. <<>> \in Seq(Value) /\ <<p>> \in Seq(Value) /\ <<q>> \in Seq(Value) BY <3>2
    <3>7. Len(<<p>>) = 1 /\ <<p>> \o <<>> = <<p>> /\ <<p>> \o <<q>> = <<p, q>> BY <3>2, OneOnTop
    <3>8. Runs(codes[j], <<p>> \o <<>>, <<p>> \o <<q>>, Len(<<p>>) + ds[j], r)
      BY <2>1, <3>6, RunsFrame DEF q
    <3>9. Runs(codes[j], <<p>>, <<p, q>>, 1 + ds[j], r) BY <3>7, <3>8
    <3>10. 1 + ds[j] <= d /\ 1 + ds[j] \in Nat /\ 2 <= d /\ 2 \in Nat BY <2>1, <2>4
    <3>11. Runs(codes[j], <<p>>, <<p, q>>, d, r) BY <3>9, <3>10, RunsMore
    <3>12. Runs(f[j - 1] \o codes[j], <<>>, <<p, q>>, d, r) BY <3>3, <3>11, RunsSeq
    <3>13. Runs(<<in>>, <<p, q>>, <<boolV(binaryOp(in.op, p, q))>>, 2, r)
      <4>1. in.op \in Binaries BY <1>2 DEF in
      <4> QED BY <4>1, <3>2, <3>4, BinaryRuns
    <3>14. in.op = op BY DEF in
    <3>15. Runs(<<in>>, <<p, q>>, <<boolV(J(j))>>, d, r) BY <3>5, <3>10, <3>13, <3>14, RunsMore
    <3>16. Runs(f[j - 1] \o codes[j] \o <<in>>, <<>>, <<boolV(J(j))>>, d, r) BY <3>12, <3>15, RunsSeq
    <3>17. f[j] = f[j - 1] \o codes[j] \o <<in>> BY <3>0, <1>3 DEF Op, in
    <3> QED BY <3>0, <3>16, <3>17, Zenon
  <2> QED BY <2>3, <2>4
<1> HIDE DEF Gd
<1>6. \A j \in 0..n : j \in Gd BY <1>1, <1>4, <1>5, CountUp
<1>7. n \in Gd /\ n # 0 BY <1>1, <1>6
<1> QED BY <1>3, <1>7 DEF Gd

------------------------------------------------------------------------------
(* Trees.  T is any set of trees closed under children, h their height; C, M,  *)
(* D, W and O are what the compiler, the reference, the stack need, the tree   *)
(* walk and the optimizer make of each, given by one equation per node: the    *)
(* recursive operators of RuleTree, as functions on T.                         *)

NotOver(T)   == [t : {"Not"}, Arg : T]
LogicOver(T) == [t : {"Logic"}, Op : {"AND", "OR"}, Args : Seq(T)]

(* Every tree of T is a leaf, or a node over lower trees of T. *)
IsForest(T, h) ==
    /\ h \in [T -> Nat]
    /\ \A n \in T : \/ n \in LeafNode
                    \/ n \in NotOver(T) /\ h[n.Arg] < h[n]
                    \/ n \in LogicOver(T) /\ \A j \in DOMAIN n.Args : h[n.Args[j]] < h[n]

(* A stage's results at the children of a node. *)
OfKids(f, n) == [j \in DOMAIN Kids(n) |-> f[Kids(n)[j]]]

Emits(T, C)    == \A n \in T : C[n] = emitNode(n, OfKids(C, n))
Means(T, M, r) == M \in [T -> BOOLEAN] /\ \A n \in T : M[n] = meaningNode(n, OfKids(M, n), r)
Needs(T, D)    == \A n \in T : D[n] = needNode(n, OfKids(D, n))

(* The code of a leaf computes its meaning within its need. *)
LEMMA LeafRuns ==
    ASSUME NEW n \in LeafNode, NEW codes, NEW ms, NEW ds, NEW r \in Row, emitNode(n, codes) # Error
    PROVE  /\ needNode(n, ds) \in Nat \ {0}
           /\ Runs(emitNode(n, codes), <<>>, <<boolV(meaningNode(n, ms, r))>>, needNode(n, ds), r)
<1>1. CASE n \in Compare0
  <2>1. needNode(n, ds) = 2 BY <1>1 DEF needNode, Compare0
  <2> QED BY <1>1, <2>1, CompareRuns
<1>2. CASE n \in Between0
  <2>1. needNode(n, ds) = 3 BY <1>2 DEF needNode, Between0
  <2> QED BY <1>2, <2>1, RangeRuns
<1>3. CASE n \in In0
  <2>1. needNode(n, ds) = 1 BY <1>3 DEF needNode, In0
  <2> QED BY <1>3, <2>1, InRuns
<1>4. CASE n \in Like0
  <2>1. needNode(n, ds) = 1 BY <1>4 DEF needNode, Like0
  <2> QED BY <1>4, <2>1, LikeRuns
<1>5. CASE n \in IsNull0
  <2>1. needNode(n, ds) = 1 BY <1>5 DEF needNode, IsNull0
  <2> QED BY <1>5, <2>1, IsNullRuns
<1> QED BY <1>1, <1>2, <1>3, <1>4, <1>5 DEF LeafNode

(* The code of a negation computes the negation (compile.go, NotNode). *)
LEMMA NotRuns ==
    ASSUME NEW c, NEW m \in BOOLEAN, NEW d \in Nat \ {0}, NEW r, Runs(c, <<>>, <<boolV(m)>>, d, r)
    PROVE  Runs(c \o Op("Not"), <<>>, <<boolV(~m)>>, d, r)
<1> DEFINE in == [op |-> "Not"]
           x == boolV(m)
<1>1. x \in Value /\ x.k = "bool" /\ x.b = m BY DEF Value, boolV
<1>2. in \in Instr /\ in.op \in Unaries /\ in.op = "Not" BY DEF Instr, Unaries
<1>3. unaryOp(in, x) = ~m BY <1>1, <1>2 DEF unaryOp, Likes
<1> HIDE DEF x, in
<1>4. Runs(<<in>>, <<x>>, <<boolV(~m)>>, 1, r) BY <1>1, <1>2, <1>3, UnaryRuns
<1>5. 1 \in Nat /\ d \in Nat /\ 1 <= d OBVIOUS
<1>6. Runs(<<in>>, <<x>>, <<boolV(~m)>>, d, r) BY <1>4, <1>5, RunsMore
<1>7. Runs(c \o <<in>>, <<>>, <<boolV(~m)>>, d, r) BY <1>6, RunsSeq DEF x
<1> QED BY <1>7 DEF Op, in

(* The need of a Logic node bounds that of every operand: those after the      *)
(* first are evaluated with one result below them.                             *)
LEMMA NeedOfLogic ==
    ASSUME NEW n, n.t = "Logic", NEW m \in Nat \ {0}, NEW ds \in [1..m -> Nat \ {0}]
    PROVE  /\ needNode(n, ds) \in Nat \ {0}
           /\ \A j \in 1..m : ds[j] + (IF j = 1 THEN 0 ELSE 1) <= needNode(n, ds)
<1> DEFINE f == [j \in 1..m |-> ds[j] + (IF j = 1 THEN 0 ELSE 1)]
           k == {ds[j] + (IF j = 1 THEN 0 ELSE 1) : j \in DOMAIN ds}
<1>1. f \in [1..m -> Nat] /\ \A j \in 1..m : f[j] = ds[j] + (IF j = 1 THEN 0 ELSE 1) /\ f[j] \in Nat \ {0} OBVIOUS
<1>2. k = {f[j] : j \in 1..m} BY <1>1
<1>3. PICK j \in 1..m : \A l \in 1..m : f[l] <= f[j]
  <2> HIDE DEF f
  <2> QED BY <1>1, MaxExists
<1>4. needNode(n, ds) = CHOOSE x \in k : \A y \in k : x >= y BY DEF needNode
<1> HIDE DEF f, k
<1>5. k \subseteq Nat \ {0} BY <1>1, <1>2
<1>6. f[j] \in k /\ \A y \in k : f[j] >= y BY <1>1, <1>2, <1>3
<1>7. needNode(n, ds) \in k /\ \A y \in k : needNode(n, ds) >= y BY <1>4, <1>6
<1>8. \A l \in 1..m : f[l] \in k BY <1>2
<1> QED BY <1>1, <1>5, <1>7, <1>8

(* The only child of a negation. *)
LEMMA NotKids ==
    ASSUME NEW T, NEW n \in NotOver(T), NEW f
    PROVE  n.t = "Not" /\ n.Arg \in T /\ OfKids(f, n)[1] = f[n.Arg] /\ DOMAIN OfKids(f, n) = {1}
<1>1. n.t = "Not" /\ n.Arg \in T BY DEF NotOver
<1>2. Kids(n) = <<n.Arg>> BY <1>1 DEF Kids
<1>3. DOMAIN Kids(n) = {1} /\ Kids(n)[1] = n.Arg BY <1>2
<1> QED BY <1>1, <1>3 DEF OfKids

(* The children of a Logic node are its arguments. *)
LEMMA LogicKids ==
    ASSUME NEW T, NEW n \in LogicOver(T), NEW f
    PROVE  /\ n.t = "Logic" /\ n.Op \in {"AND", "OR"} /\ n.Args \in Seq(T)
           /\ DOMAIN n.Args = 1..Len(n.Args) /\ Len(n.Args) \in Nat
           /\ OfKids(f, n) = [j \in 1..Len(n.Args) |-> f[n.Args[j]]]
<1>1. n.t = "Logic" /\ n.Op \in {"AND", "OR"} /\ n.Args \in Seq(T) BY DEF LogicOver
<1>2. Kids(n) = n.Args BY <1>1 DEF Kids
<1>3. DOMAIN n.Args = 1..Len(n.Args) /\ Len(n.Args) \in Nat BY <1>1, LenProperties
<1> QED BY <1>1, <1>2, <1>3 DEF OfKids

(* The code of every tree that compiles computes the meaning of the tree       *)
(* within its need, by induction over its height.                              *)
LEMMA CodeRuns ==
    ASSUME NEW T, NEW h, NEW C, NEW M, NEW D, NEW r \in Row,
           IsForest(T, h), Emits(T, C), Means(T, M, r), Needs(T, D)
    PROVE  \A n \in T : C[n] # Error =>
              D[n] \in Nat \ {0} /\ Runs(C[n], <<>>, <<boolV(M[n])>>, D[n], r)
<1> DEFINE P(n) == C[n] # Error => D[n] \in Nat \ {0} /\ Runs(C[n], <<>>, <<boolV(M[n])>>, D[n], r)
           Gd == {n \in T : P(n)}
<1>1. h \in [T -> Nat] /\ M \in [T -> BOOLEAN] BY DEF IsForest, Means
<1>2. ASSUME NEW n \in T, \A k \in T : h[k] < h[n] => k \in Gd PROVE n \in Gd
  <2> DEFINE codes == OfKids(C, n)
             ms == OfKids(M, n)
             ds == OfKids(D, n)
  <2>1. C[n] = emitNode(n, codes) /\ M[n] = meaningNode(n, ms, r) /\ D[n] = needNode(n, ds)
    BY DEF Emits, Means, Needs
  <2> SUFFICES ASSUME C[n] # Error
               PROVE  D[n] \in Nat \ {0} /\ Runs(C[n], <<>>, <<boolV(M[n])>>, D[n], r)
    OBVIOUS
  <2>2. CASE n \in LeafNode
    <3> HIDE DEF codes, ms, ds
    <3> QED BY <2>1, <2>2, LeafRuns
  <2>3. CASE n \in NotOver(T) /\ h[n.Arg] < h[n]
    <3> DEFINE k == n.Arg
    <3>1. n.t = "Not" /\ k \in T /\ P(k) BY <2>3, <1>2, NotKids
    <3>2. codes[1] = C[k] /\ ms[1] = M[k] /\ ds[1] = D[k] /\ DOMAIN codes = {1} BY <2>3, NotKids
    <3> HIDE DEF codes, ms, ds
    <3>3. ~AnyError(codes) /\ C[n] = codes[1] \o Op("Not") BY <2>1, <3>1 DEF emitNode
    <3>4. C[k] # Error BY <3>2, <3>3 DEF AnyError
    <3>5. M[n] = ~M[k] BY <2>1, <3>1, <3>2 DEF meaningNode
    <3>6. D[n] = D[k] BY <2>1, <3>1, <3>2 DEF needNode
    <3>7. M[k] \in BOOLEAN BY <3>1, <1>1
    <3>8. D[k] \in Nat \ {0} /\ Runs(C[k], <<>>, <<boolV(M[k])>>, D[k], r) BY <3>1, <3>4
    <3> HIDE DEF k, P, Gd
    <3>9. Runs(C[k] \o Op("Not"), <<>>, <<boolV(~M[k])>>, D[k], r) BY <3>7, <3>8, NotRuns
    <3> QED BY <3>2, <3>3, <3>5, <3>6, <3>8, <3>9
  <2>4. CASE n \in LogicOver(T) /\ \A j \in DOMAIN n.Args : h[n.Args[j]] < h[n]
    <3> DEFINE args == n.Args
               L == Len(args)
               op == IF n.Op = "OR" THEN "Or" ELSE "And"
    <3>1. /\ n.t = "Logic" /\ n.Op \in {"AND", "OR"} /\ args \in Seq(T) /\ DOMAIN args = 1..L /\ L \in Nat
          /\ codes = [j \in 1..L |-> C[args[j]]]
          /\ ms = [j \in 1..L |-> M[args[j]]]
          /\ ds = [j \in 1..L |-> D[args[j]]]
      BY <2>4, LogicKids
    <3>2. \A j \in 1..L : args[j] \in T /\ P(args[j])
      <4> SUFFICES ASSUME NEW j \in 1..L PROVE args[j] \in T /\ P(args[j]) OBVIOUS
      <4>1. args[j] \in T BY <3>1, ElementOfSeq
      <4>2. h[args[j]] < h[n] BY <3>1, <2>4
      <4> QED BY <4>1, <4>2, <1>2
    <3>a. DOMAIN codes = 1..L /\ DOMAIN ms = 1..L /\ DOMAIN ds = 1..L
          /\ \A j \in 1..L : codes[j] = C[args[j]] /\ ms[j] = M[args[j]] /\ ds[j] = D[args[j]]
      BY <3>1
    <3> HIDE DEF codes, ms, ds, args, L
    <3>3. codes # <<>> /\ ~AnyError(codes) /\ C[n] = Chain(op, codes) BY <2>1, <3>1 DEF emitNode
    <3>4. \A j \in 1..L : C[args[j]] # Error BY <3>3, <3>a DEF AnyError
    <3>5. \A j \in 1..L : /\ codes[j] \in Seq(Instr) /\ ms[j] \in BOOLEAN /\ ds[j] \in Nat \ {0}
                          /\ Runs(codes[j], <<>>, <<boolV(ms[j])>>, ds[j], r)
      <4> SUFFICES ASSUME NEW j \in 1..L
                   PROVE  /\ codes[j] \in Seq(Instr) /\ ms[j] \in BOOLEAN /\ ds[j] \in Nat \ {0}
                          /\ Runs(codes[j], <<>>, <<boolV(ms[j])>>, ds[j], r)
        OBVIOUS
      <4>1. ds[j] \in Nat \ {0} /\ Runs(codes[j], <<>>, <<boolV(ms[j])>>, ds[j], r) BY <3>2, <3>4, <3>a
      <4>2. args[j] \in T BY <3>2
      <4>3. ms[j] = M[args[j]] BY <3>a
      <4>4. ms[j] \in BOOLEAN BY <4>2, <4>3, <1>1, Zenon
      <4> QED BY <4>1, <4>4 DEF Runs
    <3>6. codes \in Seq(Seq(Instr)) /\ Len(codes) = L
      <4>1. codes \in [1..L -> Seq(Instr)]
        <5> DEFINE E == Seq(Instr)
        <5> HIDE DEF E
        <5> QED BY <3>1, <3>a, <3>5 DEF E
      <4> QED BY <3>1, <4>1
    <3>7. L # 0 BY <3>3, <3>6, EmptySeq
    <3>8. ms \in [1..L -> BOOLEAN] /\ ds \in [1..L -> Nat \ {0}]  BY <3>1, <3>5, <3>a
    <3>9. D[n] \in Nat \ {0} /\ \A j \in 1..L : ds[j] + (IF j = 1 THEN 0 ELSE 1) <= D[n]
      <4>1. L \in Nat \ {0} BY <3>1, <3>7
      <4>2. n.t = "Logic" BY <3>1
      <4>3. needNode(n, ds) \in Nat \ {0} /\ \A j \in 1..L : ds[j] + (IF j = 1 THEN 0 ELSE 1) <= needNode(n, ds)
        BY <4>1, <4>2, <3>8, NeedOfLogic
      <4> QED BY <2>1, <4>3
    <3>10. op \in {"And", "Or"} OBVIOUS
    <3>11. Runs(Chain(op, codes), <<>>, <<boolV(Joined(op, ms, L))>>, D[n], r)
      <4> HIDE DEF op
      <4> QED BY <3>3, <3>5, <3>6, <3>8, <3>9, <3>10, ChainRuns
    <3>12. M[n] = Joined(op, ms, L)
      BY <2>1, <3>1, <3>8, <3>a DEF meaningNode, Connected, Joined
    <3> QED BY <3>3, <3>9, <3>11, <3>12
  <2> QED BY <2>2, <2>3, <2>4 DEF IsForest
<1> HIDE DEF Gd
<1>3. \A n \in T : n \in Gd BY <1>1, <1>2, ClimbUp
<1> QED BY <1>3 DEF Gd

(* Whatever tree n, row and stack size, when the compiler accepts n (emit,     *)
(* compile.go:74) then Eval of its code (vm.go:15) returns the meaning of n,   *)
(* missing fields included; the only error exit it takes is the stack overflow *)
(* (vm.go:24), and only when n nests deeper than the array.                    *)
THEOREM CompiledCodeMeans ==
    ASSUME NEW CONSTANT T, NEW CONSTANT h, NEW CONSTANT C, NEW CONSTANT M, NEW CONSTANT D,
           NEW CONSTANT r \in Row, IsForest(T, h), Emits(T, C), Means(T, M, r), Needs(T, D),
           NEW CONSTANT n \in T, C[n] # Error
    PROVE  Load(C[n], r) /\ [][VMStep]_vmVars => []Returns(M[n], D[n])
<1>1. M[n] \in BOOLEAN /\ r \in [Fields -> Value \cup {otherV}] BY DEF Means, Row
<1>2. D[n] \in Nat /\ Runs(C[n], <<>>, <<boolV(M[n])>>, D[n], r) BY CodeRuns
<1>3. PICK s : Outline(s, C[n], D[n], r) /\ s[0] = <<>> /\ s[Len(C[n])] = <<boolV(M[n])>> BY <1>2 DEF Runs
<1>4. C[n] \in Seq(Instr) BY <1>2 DEF Runs
<1>5. Load(C[n], r) => FollowsInv(s, C[n], M[n], D[n], r) BY <1>1, <1>3, <1>4, FollowsLoad
<1>6. FollowsInv(s, C[n], M[n], D[n], r) /\ [VMStep]_vmVars => FollowsInv(s, C[n], M[n], D[n], r)'
  BY <1>1, <1>2, <1>3, <1>4, FollowsStep
<1>7. FollowsInv(s, C[n], M[n], D[n], r) => Returns(M[n], D[n]) BY DEF FollowsInv
<1> QED BY <1>5, <1>6, <1>7, PTL

------------------------------------------------------------------------------
(* The tree-walking runtime. *)

Evals(T, W, r) == \A n \in T : W[n] = evalNode(n, OfKids(W, n), r)

(* What the tree-walking runtime needs at a leaf to agree with the VM. *)
Plain(n, r) ==
    /\ toValue(r[n.Field]) # undef
    /\ n.t = "Compare" => /\ n.Op # "=="
                          /\ IsNumeral(n.Val) => NumText[TextNum[n.Val.text]] = n.Val.text
    /\ n.t = "Between" => IsNumeral(n.Lo) /\ IsNumeral(n.Hi)

(* The tree-walking comparison gives the meaning of a comparison, on a present *)
(* field with a canonical numeral (compare, runtime/ast/ast.go).               *)
LEMMA CompareWalks ==
    ASSUME NEW n \in Compare0, NEW bs, NEW ms, NEW r \in Row, Plain(n, r)
    PROVE  evalNode(n, bs, r) = meaningNode(n, ms, r)
<1> DEFINE raw == r[n.Field]
           v == LitV(n.Val)
           op == n.Op
<1>1. n.t = "Compare" /\ n.Field \in Fields /\ n.Val \in Lit /\ n.Op \in DOMAIN cmpOp /\ n.Op # "=="
      /\ (IsNumeral(n.Val) => NumText[TextNum[n.Val.text]] = n.Val.text) BY DEF Compare0, Plain
<1>2. raw \in Value /\ raw # undef /\ toValue(raw) = raw
  BY <1>1 DEF Row, Plain, toValue, otherV, undef
<1>3. asString(v) = n.Val.text /\ (v.k = "num" <=> IsNumeral(n.Val)) /\ (IsNumeral(n.Val) => v.n = litNum(n.Val))
  BY <1>1 DEF LitV, asString, numV, strV, litNum, IsNumeral
<1>4. evalNode(n, bs, r) = treeCompare(raw, op, n.Val) BY <1>1 DEF evalNode
<1>5. meaningNode(n, ms, r) =
        (/\ raw # undef
         /\ IF raw.k = "num" /\ v.k = "num"
            THEN Ordered(op, raw.n = v.n, raw.n < v.n, raw.n > v.n)
            ELSE Ordered(op, asString(raw) = asString(v), TextLess(asString(raw), asString(v)),
                         TextLess(asString(v), asString(raw))))
  BY <1>1, <1>2 DEF meaningNode
<1>6. ASSUME NEW e \in BOOLEAN, NEW s \in BOOLEAN, NEW l \in BOOLEAN PROVE Ordered(op, e, s, l) \in BOOLEAN
  BY DEF Ordered
<1>7. CASE numericOperands(raw, n.Val)
  <2>1. raw.k = "num" /\ v.k = "num" /\ v.n = litNum(n.Val) BY <1>3, <1>7 DEF numericOperands
  <2>2. treeCompare(raw, op, n.Val) = Ordered(op, raw.n = v.n, raw.n < v.n, raw.n > v.n)
    BY <2>1, <1>7 DEF treeCompare
  <2>3. Ordered(op, raw.n = v.n, raw.n < v.n, raw.n > v.n) \in BOOLEAN
    <3>1. (raw.n < v.n) \in BOOLEAN /\ (raw.n > v.n) \in BOOLEAN OBVIOUS
    <3> QED BY <3>1 DEF Ordered
  <2> QED BY <2>1, <2>2, <2>3, <1>2, <1>4, <1>5
<1>8. CASE ~numericOperands(raw, n.Val)
  <2> DEFINE res == Ordered(op, asString(raw) = n.Val.text, TextLess(asString(raw), n.Val.text),
                            TextLess(n.Val.text, asString(raw)))
  <2>1. ~(raw.k = "num" /\ v.k = "num") BY <1>3, <1>8 DEF numericOperands
  <2>2. treeCompare(raw, op, n.Val) = res BY <1>8 DEF treeCompare
  <2>3. res \in BOOLEAN
    <3>1. TextLess(asString(raw), n.Val.text) \in BOOLEAN /\ TextLess(n.Val.text, asString(raw)) \in BOOLEAN
      BY DEF TextLess
    <3> QED BY <3>1, <1>6
  <2>4. meaningNode(n, ms, r) = res
    <3> HIDE DEF raw, v, op
    <3> QED BY <2>1, <2>3, <1>2, <1>3, <1>5
  <2> QED BY <2>2, <2>4, <1>4
<1> QED BY <1>7, <1>8

(* The tree-walking runtime gives the meaning of every leaf. *)
LEMMA LeafWalks ==
    ASSUME NEW n \in LeafNode, NEW bs, NEW ms, NEW r \in Row, Plain(n, r)
    PROVE  evalNode(n, bs, r) = meaningNode(n, ms, r)
<1> DEFINE raw == r[n.Field]
<1>1. n.Field \in Fields BY DEF LeafNode, Compare0, Between0, In0, Like0, IsNull0
<1>2. raw \in Value /\ raw # undef /\ toValue(raw) = raw /\ ~isNil(raw)
  BY <1>1 DEF Row, Plain, toValue, otherV, undef, isNil, Value
<1>3. CASE n \in Compare0 BY <1>3, CompareWalks
<1>4. CASE n \in Between0
  <2>1. n.t = "Between" BY <1>4 DEF Between0
  <2>2. IsNumeral(n.Lo) /\ IsNumeral(n.Hi) BY <2>1 DEF Plain
  <2>3. litNum(n.Lo) = TextNum[n.Lo.text] /\ litNum(n.Hi) = TextNum[n.Hi.text]
        /\ litNum(n.Lo) \in Int /\ litNum(n.Hi) \in Int
    BY <2>2, NumeralsAssumption DEF IsNumeral, litNum
  <2>4. litNum(n.Lo) # Error /\ litNum(n.Hi) # Error BY <2>3, ErrorAssumption
  <2>5. evalNode(n, bs, r) = (raw.k = "num" /\ raw.n >= litNum(n.Lo) /\ raw.n <= litNum(n.Hi))
    BY <2>1, <2>4 DEF evalNode
  <2>6. meaningNode(n, ms, r) = (raw.k = "num" /\ raw.n \in litNum(n.Lo)..litNum(n.Hi))
    BY <2>1, <2>3, <1>2 DEF meaningNode
  <2>7. raw.k = "num" => raw.n \in Int BY <1>2 DEF Value, undef
  <2> QED BY <2>3, <2>5, <2>6, <2>7
<1>5. CASE n \in In0
  <2>1. n.t = "In" BY <1>5 DEF In0
  <2> DEFINE a == asString(raw) \in {n.Vals[j].text : j \in DOMAIN n.Vals}
             b == \E j \in DOMAIN n.Vals : asString(raw) = n.Vals[j].text
  <2>2. evalNode(n, bs, r) = (n.Negate # a) BY <2>1 DEF evalNode
  <2>3. meaningNode(n, ms, r) = (n.Negate # (raw # undef /\ b)) BY <2>1, <1>2 DEF meaningNode
  <2>4. a <=> b OBVIOUS
  <2>5. a \in BOOLEAN /\ b \in BOOLEAN OBVIOUS
  <2> HIDE DEF a, b
  <2>6. (raw # undef /\ b) = a BY <2>4, <2>5, <1>2
  <2> QED BY <2>2, <2>3, <2>6
<1>6. CASE n \in Like0
  <2>1. n.t = "Like" BY <1>6 DEF Like0
  <2> DEFINE a == like(asString(raw), n.Pattern)
  <2>2. evalNode(n, bs, r) = (n.Negate # a) BY <2>1 DEF evalNode
  <2>3. meaningNode(n, ms, r) = (n.Negate # (raw # undef /\ a)) BY <2>1, <1>2 DEF meaningNode
  <2>4. a \in BOOLEAN
    <3>1. LikeHolds(likeParts(n.Pattern).op, asString(raw), likeParts(n.Pattern).core) \in BOOLEAN
      BY DEF LikeHolds
    <3> QED BY <3>1 DEF like
  <2> HIDE DEF a
  <2>5. (raw # undef /\ a) = a BY <2>4, <1>2
  <2> QED BY <2>2, <2>3, <2>5
<1>7. CASE n \in IsNull0
  <2>1. n.t = "IsNull" BY <1>7 DEF IsNull0
  <2>2. evalNode(n, bs, r) = (n.Negate # isNil(raw)) BY <2>1 DEF evalNode
  <2>3. meaningNode(n, ms, r) = (n.Negate # (raw = undef)) BY <2>1, <1>2 DEF meaningNode
  <2>4. isNil(raw) = (raw = undef) BY <1>2 DEF isNil
  <2> QED BY <2>2, <2>3, <2>4
<1> QED BY <1>3, <1>4, <1>5, <1>6, <1>7 DEF LeafNode

(* The tree-walking runtime gives the meaning of every tree, by induction over *)
(* its height (eval, runtime/ast/ast.go).                                      *)
LEMMA TreeWalks ==
    ASSUME NEW T, NEW h, NEW M, NEW W, NEW r \in Row, IsForest(T, h), Means(T, M, r), Evals(T, W, r),
           \A n \in T : n \in LeafNode => Plain(n, r)
    PROVE  \A n \in T : W[n] = M[n]
<1> DEFINE Gd == {n \in T : W[n] = M[n]}
<1>1. h \in [T -> Nat] BY DEF IsForest
<1>2. ASSUME NEW n \in T, \A k \in T : h[k] < h[n] => k \in Gd PROVE n \in Gd
  <2> DEFINE ms == OfKids(M, n)
             bs == OfKids(W, n)
  <2>1. M[n] = meaningNode(n, ms, r) /\ W[n] = evalNode(n, bs, r) BY DEF Means, Evals
  <2>2. CASE n \in LeafNode
    <3> HIDE DEF ms, bs
    <3> QED BY <2>1, <2>2, LeafWalks
  <2>3. CASE n \in NotOver(T) /\ h[n.Arg] < h[n]
    <3>1. n.t = "Not" /\ W[n.Arg] = M[n.Arg] BY <2>3, <1>2, NotKids
    <3>2. ms[1] = M[n.Arg] /\ bs[1] = W[n.Arg] BY <2>3, NotKids
    <3> HIDE DEF ms, bs
    <3> QED BY <2>1, <3>1, <3>2 DEF evalNode, meaningNode
  <2>4. CASE n \in LogicOver(T) /\ \A j \in DOMAIN n.Args : h[n.Args[j]] < h[n]
    <3> DEFINE args == n.Args
               L == Len(args)
    <3>1. /\ n.t = "Logic" /\ args \in Seq(T) /\ DOMAIN args = 1..L /\ L \in Nat
          /\ ms = [j \in 1..L |-> M[args[j]]]
          /\ bs = [j \in 1..L |-> W[args[j]]]
      BY <2>4, LogicKids
    <3>2. \A j \in 1..L : W[args[j]] = M[args[j]]
      <4> SUFFICES ASSUME NEW j \in 1..L PROVE W[args[j]] = M[args[j]] OBVIOUS
      <4>1. args[j] \in T BY <3>1, ElementOfSeq
      <4>2. h[args[j]] < h[n] BY <3>1, <2>4
      <4> QED BY <4>1, <4>2, <1>2
    <3> HIDE DEF args, L
    <3>3. bs = ms BY <3>1, <3>2
    <3> HIDE DEF ms, bs
    <3> QED BY <2>1, <3>1, <3>3 DEF evalNode, meaningNode
  <2> QED BY <2>2, <2>3, <2>4 DEF IsForest
<1> HIDE DEF Gd
<1>3. \A n \in T : n \in Gd BY <1>1, <1>2, ClimbUp
<1> QED BY <1>3 DEF Gd

------------------------------------------------------------------------------
(* The optimizer. *)

(* What Flat puts in the place of a child. *)
Part(n, a) == IF Flattens(n, a) THEN a.Args ELSE <<a>>

(* f[j] is what Flat made of the first j children. *)
FlatBy(f, T, n, opt) ==
    /\ f \in [0..Len(opt) -> Seq(T)]
    /\ Flat(n, opt) = f[Len(opt)]
    /\ f[0] = <<>>
    /\ \A j \in 1..Len(opt) : f[j] = f[j - 1] \o Part(n, opt[j])

(* The recursion of Flat is well founded, so it is the function its equations  *)
(* describe.                                                                   *)
LEMMA FlatUnfolds ==
    ASSUME NEW T, NEW n, NEW opt \in Seq(T), \A j \in 1..Len(opt) : Part(n, opt[j]) \in Seq(T)
    PROVE  \E f : FlatBy(f, T, n, opt)
<1> DEFINE m == Len(opt)
           E == Seq(T)
           N(f) == [j \in 0..m |-> IF j = 0 THEN <<>> ELSE f[j - 1] \o Part(n, opt[j])]
           U == CHOOSE f : f = N(f)
           step == [x \in E \X (1..m) |-> x[1] \o Part(n, opt[x[2]])]
<1>1. m \in Nat /\ \A j \in 1..m : Part(n, opt[j]) \in E BY LenProperties
<1>2. <<>> \in E OBVIOUS
<1>3. step \in [E \X (1..m) -> E]
  <2>1. ASSUME NEW x \in E, NEW j \in 1..m PROVE x \o Part(n, opt[j]) \in E
    BY <1>1, ConcatProperties
  <2> HIDE DEF m, E
  <2> QED BY <2>1, <1>1
<1>5. PICK g : Iterate(g, E, <<>>, m, step)
  <2>1. m \in Nat /\ IsStep(step, E, m) BY <1>1, <1>3 DEF IsStep
  <2> HIDE DEF step, m, E
  <2> QED BY <2>1, <1>2, Iterates
<1>a. g \in [0..m -> E] /\ g[0] = <<>> /\ \A j \in 1..m : g[j] = step[<<g[j - 1], j>>] BY <1>5 DEF Iterate
<1>6. ASSUME NEW j \in 1..m PROVE g[j] = g[j - 1] \o Part(n, opt[j])
  <2>1. j - 1 \in 0..m BY <1>1
  <2>2. g[j - 1] \in E
    <3> HIDE DEF E, m, step
    <3> QED BY <2>1, <1>a
  <2> HIDE DEF m, E
  <2> QED BY <1>a, <2>2
<1>7. g = N(g)
  <2>1. \A j \in 0..m : j # 0 => j \in 1..m BY <1>1
  <2> HIDE DEF m
  <2> QED BY <1>a, <1>6, <2>1
<1>8. U = N(U) BY <1>7
<1>9. Flat(n, opt) = U[m] BY DEF Flat, Part
<1> HIDE DEF U
<1>10. \A j \in 0..m : U[j] = IF j = 0 THEN <<>> ELSE U[j - 1] \o Part(n, opt[j]) BY <1>8
<1>11. \A j \in 0..m : U[j] \in E
  <2> DEFINE Gd == {j \in 0..m : U[j] \in E}
  <2>1. 0 \in Gd
    <3>1. 0 \in 0..m BY <1>1
    <3>2. U[0] = <<>> BY <3>1, <1>10
    <3> QED BY <3>1, <3>2, <1>2
  <2>2. ASSUME NEW j \in 1..m, j - 1 \in Gd PROVE j \in Gd
    <3>1. U[j - 1] \o Part(n, opt[j]) \in E BY <2>2, <1>1, ConcatProperties
    <3>2. j \in 0..m /\ j # 0 BY <1>1
    <3> HIDE DEF E, m
    <3> QED BY <3>1, <3>2, <1>10
  <2> HIDE DEF Gd
  <2>3. \A j \in 0..m : j \in Gd BY <2>1, <2>2, <1>1, CountUp
  <2> QED BY <2>3 DEF Gd
<1>12. U \in [0..m -> E]
  <2> HIDE DEF E
  <2>1. DOMAIN U = 0..m BY <1>8
  <2> QED BY <1>8, <1>10, <1>11
<1>13. U[0] = <<>> /\ \A j \in 1..m : U[j] = U[j - 1] \o Part(n, opt[j])
  <2>1. 0 \in 0..m /\ \A j \in 1..m : j \in 0..m /\ j # 0 BY <1>1
  <2> HIDE DEF m
  <2> QED BY <2>1, <1>10
<1> QED BY <1>9, <1>12, <1>13 DEF FlatBy

(* Every argument of the flattened node is one of its children, or an argument *)
(* of one; the first is the first of the first; and none is lost.              *)
LEMMA FlatElements ==
    ASSUME NEW T, NEW n, NEW opt \in Seq(T),
           \A j \in 1..Len(opt) : Part(n, opt[j]) \in Seq(T) /\ Part(n, opt[j]) # <<>>
    PROVE  /\ Flat(n, opt) \in Seq(T)
           /\ opt # <<>> => Flat(n, opt) # <<>>
           /\ \A k \in 1..Len(Flat(n, opt)) :
                \E j \in 1..Len(opt) : \E l \in 1..Len(Part(n, opt[j])) :
                    Flat(n, opt)[k] = Part(n, opt[j])[l] /\ (k = 1 \/ j # 1 \/ l # 1)
           /\ \A j \in 1..Len(opt) : \A l \in 1..Len(Part(n, opt[j])) :
                \E k \in 1..Len(Flat(n, opt)) : Flat(n, opt)[k] = Part(n, opt[j])[l]
<1> DEFINE m == Len(opt)
           P(j) == Part(n, opt[j])
<1>0. PICK f : FlatBy(f, T, n, opt) BY FlatUnfolds
<1>1. /\ f \in [0..m -> Seq(T)] /\ Flat(n, opt) = f[m] /\ f[0] = <<>>
      /\ \A j \in 1..m : f[j] = f[j - 1] \o P(j)
  BY <1>0 DEF FlatBy
<1>2. m \in Nat /\ \A j \in 1..m : P(j) \in Seq(T) /\ Len(P(j)) \in Nat \ {0}
  <2>1. m \in Nat BY LenProperties
  <2>2. ASSUME NEW j \in 1..m PROVE P(j) \in Seq(T) /\ Len(P(j)) \in Nat \ {0}
    BY EmptySeq, LenProperties
  <2> QED BY <2>1, <2>2
<1>3. (opt # <<>>) => m # 0 BY EmptySeq
<1> HIDE DEF P, m
<1> DEFINE From(s, j) == \A k \in 1..Len(s) : \E q \in 1..j : \E l \in 1..Len(P(q)) :
                              s[k] = P(q)[l] /\ (k = 1 \/ q # 1 \/ l # 1)
           Kept(s, j) == \A q \in 1..j : \A l \in 1..Len(P(q)) : \E k \in 1..Len(s) : s[k] = P(q)[l]
           Gd == {j \in 0..m : (j # 0 => Len(f[j]) # 0) /\ From(f[j], j) /\ Kept(f[j], j)}
<1>4. 0 \in Gd
  <2>1. Len(f[0]) = 0 BY <1>1
  <2>2. 1..0 = {} OBVIOUS
  <2>3. From(f[0], 0) /\ Kept(f[0], 0) BY <2>1, <2>2
  <2> QED BY <2>3, <1>2
<1>5. ASSUME NEW j \in 1..m, j - 1 \in Gd PROVE j \in Gd
  <2> DEFINE s == f[j - 1]
             p == P(j)
             c == s \o p
  <2>1. j - 1 \in 0..m /\ j \in 0..m /\ j \in Int /\ j >= 1 BY <1>2
  <2>2. s \in Seq(T) /\ p \in Seq(T) /\ Len(p) \in Nat \ {0} /\ Len(s) \in Nat
    <3>1. s \in Seq(T) BY <2>1, <1>1
    <3> QED BY <3>1, <1>2, LenProperties
  <2>3. f[j] = c BY <1>1
  <2>4. (j - 1 # 0 => Len(s) # 0) /\ From(s, j - 1) /\ Kept(s, j - 1) BY <1>5
  <2> HIDE DEF s, p, c
  <2>5. Len(c) = Len(s) + Len(p) /\ \A k \in 1..Len(c) : c[k] = IF k <= Len(s) THEN s[k] ELSE p[k - Len(s)]
    BY <2>2, ConcatProperties DEF c
  <2>6. From(c, j)
    <3> SUFFICES ASSUME NEW k \in 1..Len(c)
                 PROVE  \E q \in 1..j : \E l \in 1..Len(P(q)) : c[k] = P(q)[l] /\ (k = 1 \/ q # 1 \/ l # 1)
      OBVIOUS
    <3>1. CASE k <= Len(s)
      <4>1. k \in 1..Len(s) /\ c[k] = s[k] BY <3>1, <2>2, <2>5
      <4>2. PICK q \in 1..(j - 1) : \E l \in 1..Len(P(q)) : s[k] = P(q)[l] /\ (k = 1 \/ q # 1 \/ l # 1)
        BY <4>1, <2>4
      <4>3. q \in 1..j BY <2>1
      <4> QED BY <4>1, <4>2, <4>3
    <3>2. CASE ~(k <= Len(s))
      <4>1. k - Len(s) \in 1..Len(p) /\ c[k] = p[k - Len(s)] BY <3>2, <2>2, <2>5
      <4>2. j \in 1..j BY <2>1
      <4>3. k = 1 \/ j # 1 \/ k - Len(s) # 1
        <5>1. ASSUME j = 1 PROVE Len(s) = 0 BY <5>1, <1>1 DEF s
        <5> QED BY <5>1
      <4> QED BY <4>1, <4>2, <4>3 DEF p
    <3> QED BY <3>1, <3>2
  <2>7. Kept(c, j)
    <3> SUFFICES ASSUME NEW q \in 1..j, NEW l \in 1..Len(P(q)) PROVE \E k \in 1..Len(c) : c[k] = P(q)[l]
      OBVIOUS
    <3>1. CASE q = j
      <4>0. l \in 1..Len(p) BY <3>1 DEF p
      <4>1. l + Len(s) \in 1..Len(c) /\ ~(l + Len(s) <= Len(s)) /\ (l + Len(s)) - Len(s) = l BY <4>0, <2>2, <2>5
      <4>2. c[l + Len(s)] = p[l] BY <4>1, <2>5
      <4> QED BY <4>1, <4>2, <3>1 DEF p
    <3>2. CASE q # j
      <4>1. q \in 1..(j - 1) BY <3>2, <2>1
      <4>2. PICK k \in 1..Len(s) : s[k] = P(q)[l] BY <4>1, <2>4
      <4>3. k \in 1..Len(c) /\ c[k] = s[k] BY <2>2, <2>5
      <4> QED BY <4>2, <4>3
    <3> QED BY <3>1, <3>2
  <2>8. Len(c) # 0 BY <2>2, <2>5
  <2> HIDE DEF From, Kept
  <2> QED BY <2>1, <2>3, <2>6, <2>7, <2>8
<1> HIDE DEF Gd
<1>6. \A j \in 0..m : j \in Gd BY <1>2, <1>4, <1>5, CountUp
<1>7. m \in Gd BY <1>2, <1>6
<1>8. (m # 0 => Len(f[m]) # 0) /\ From(f[m], m) /\ Kept(f[m], m) BY <1>7 DEF Gd
<1>9. f[m] \in Seq(T) BY <1>1, <1>2
<1>10. Len(f[m]) # 0 => f[m] # <<>> OBVIOUS
<1> QED BY <1>1, <1>3, <1>8, <1>9, <1>10 DEF m, P

(* The key of argument j occurred before. *)
Seen(keys, j) == \E l \in 1..(j - 1) : keys[l] = keys[j]

(* f[j] is what Dedup kept of the first j arguments. *)
DedupBy(f, T, args, keys) ==
    /\ f \in [0..Len(args) -> Seq(T)]
    /\ Dedup(args, keys) = f[Len(args)]
    /\ f[0] = <<>>
    /\ \A j \in 1..Len(args) : f[j] = IF Seen(keys, j) THEN f[j - 1] ELSE Append(f[j - 1], args[j])

(* So is the recursion of Dedup. *)
LEMMA DedupUnfolds ==
    ASSUME NEW T, NEW args \in Seq(T), NEW keys
    PROVE  \E f : DedupBy(f, T, args, keys)
<1> DEFINE m == Len(args)
           E == Seq(T)
           Next1(x, j) == IF Seen(keys, j) THEN x ELSE Append(x, args[j])
           N(f) == [j \in 0..m |-> IF j = 0 THEN <<>> ELSE Next1(f[j - 1], j)]
           U == CHOOSE f : f = N(f)
           step == [x \in E \X (1..m) |-> Next1(x[1], x[2])]
<1>1. m \in Nat /\ \A j \in 1..m : args[j] \in T BY LenProperties, ElementOfSeq
<1>2. <<>> \in E OBVIOUS
<1>b. ASSUME NEW x \in E, NEW j \in 1..m PROVE Next1(x, j) \in E
  <2>1. Append(x, args[j]) \in E BY <1>1, AppendProperties
  <2> QED BY <2>1
<1>9. Dedup(args, keys) = U[m] BY DEF Dedup, Seen
<1> HIDE DEF Next1
<1>3. step \in [E \X (1..m) -> E]
  <2> HIDE DEF m, E
  <2> QED BY <1>b
<1>5. PICK g : Iterate(g, E, <<>>, m, step)
  <2>1. m \in Nat /\ IsStep(step, E, m) BY <1>1, <1>3 DEF IsStep
  <2> HIDE DEF step, m, E
  <2> QED BY <2>1, <1>2, Iterates
<1>a. g \in [0..m -> E] /\ g[0] = <<>> /\ \A j \in 1..m : g[j] = step[<<g[j - 1], j>>] BY <1>5 DEF Iterate
<1>6. ASSUME NEW j \in 1..m PROVE g[j] = Next1(g[j - 1], j)
  <2>1. j - 1 \in 0..m BY <1>1
  <2>2. g[j - 1] \in E
    <3> HIDE DEF E, m, step
    <3> QED BY <2>1, <1>a
  <2> HIDE DEF m, E
  <2> QED BY <1>a, <2>2
<1>7. g = N(g)
  <2>1. \A j \in 0..m : j # 0 => j \in 1..m BY <1>1
  <2> HIDE DEF m
  <2> QED BY <1>a, <1>6, <2>1
<1>8. U = N(U) BY <1>7
<1> HIDE DEF U
<1>10. \A j \in 0..m : U[j] = IF j = 0 THEN <<>> ELSE Next1(U[j - 1], j) BY <1>8
<1>11. \A j \in 0..m : U[j] \in E
  <2> DEFINE Gd == {j \in 0..m : U[j] \in E}
  <2>1. 0 \in Gd
    <3>1. 0 \in 0..m BY <1>1
    <3>2. U[0] = <<>> BY <3>1, <1>10
    <3> QED BY <3>1, <3>2, <1>2
  <2>2. ASSUME NEW j \in 1..m, j - 1 \in Gd PROVE j \in Gd
    <3>1. Next1(U[j - 1], j) \in E BY <2>2, <1>b
    <3>2. j \in 0..m /\ j # 0 BY <1>1
    <3> HIDE DEF E, m
    <3> QED BY <3>1, <3>2, <1>10
  <2> HIDE DEF Gd
  <2>3. \A j \in 0..m : j \in Gd BY <2>1, <2>2, <1>1, CountUp
  <2> QED BY <2>3 DEF Gd
<1>12. U \in [0..m -> E]
  <2> HIDE DEF E
  <2>1. DOMAIN U = 0..m BY <1>8
  <2> QED BY <1>8, <1>10, <1>11
<1>13. U[0] = <<>> /\ \A j \in 1..m : U[j] = Next1(U[j - 1], j)
  <2>1. 0 \in 0..m /\ \A j \in 1..m : j \in 0..m /\ j # 0 BY <1>1
  <2> HIDE DEF m
  <2> QED BY <2>1, <1>10
<1> QED BY <1>9, <1>12, <1>13 DEF DedupBy, Next1

(* What dedup keeps are arguments, the first one first, and every argument     *)
(* keeps one with its key.                                                     *)
IsDedup(u, T, args, keys) ==
    /\ u \in Seq(T)
    /\ args # <<>> => u # <<>>
    /\ \A k \in 1..Len(u) : \E j \in 1..Len(args) : u[k] = args[j] /\ (k = 1 \/ j # 1)
    /\ \A j \in 1..Len(args) : \E l \in 1..Len(args) : \E k \in 1..Len(u) :
          keys[l] = keys[j] /\ u[k] = args[l]

(* Dedup does so: no meaning is lost with a dropped argument (optimize.go:35). *)
LEMMA DedupElements ==
    ASSUME NEW T, NEW args \in Seq(T), NEW keys
    PROVE  IsDedup(Dedup(args, keys), T, args, keys)
<1> DEFINE m == Len(args)
<1>0. PICK f : DedupBy(f, T, args, keys) BY DedupUnfolds
<1>1. /\ f \in [0..m -> Seq(T)] /\ Dedup(args, keys) = f[m] /\ f[0] = <<>>
      /\ \A j \in 1..m : f[j] = IF Seen(keys, j) THEN f[j - 1] ELSE Append(f[j - 1], args[j])
  BY <1>0 DEF DedupBy
<1>2. m \in Nat /\ (\A j \in 1..m : args[j] \in T) /\ (args # <<>> => m # 0)
  BY LenProperties, ElementOfSeq, EmptySeq
<1> HIDE DEF m
<1> DEFINE From(s, j) == \A k \in 1..Len(s) : \E q \in 1..j : s[k] = args[q] /\ (k = 1 \/ q # 1)
           Kept(s, j) == \A q \in 1..j : \E l \in 1..j : \E k \in 1..Len(s) : keys[l] = keys[q] /\ s[k] = args[l]
           Gd == {j \in 0..m : (j # 0 => Len(f[j]) # 0) /\ From(f[j], j) /\ Kept(f[j], j)}
<1>4. 0 \in Gd
  <2>1. Len(f[0]) = 0 BY <1>1
  <2>2. 1..0 = {} OBVIOUS
  <2>3. From(f[0], 0) /\ Kept(f[0], 0) BY <2>1, <2>2
  <2> QED BY <2>3, <1>2
<1>5. ASSUME NEW j \in 1..m, j - 1 \in Gd PROVE j \in Gd
  <2> DEFINE s == f[j - 1]
  <2>1. j - 1 \in 0..m /\ j \in 0..m /\ j \in Int /\ j >= 1 BY <1>2
  <2>2. s \in Seq(T) /\ Len(s) \in Nat
    <3>1. s \in Seq(T) BY <2>1, <1>1
    <3> QED BY <3>1, LenProperties
  <2>3. (j - 1 # 0 => Len(s) # 0) /\ From(s, j - 1) /\ Kept(s, j - 1) BY <1>5
  <2>4. j = 1 => Len(s) = 0 BY <1>1
  <2>a. f[j] = IF Seen(keys, j) THEN s ELSE Append(s, args[j]) BY <1>1
  <2> HIDE DEF s
  <2>5. CASE Seen(keys, j)
    <3>1. f[j] = s BY <2>5, <2>a
    <3>2. PICK l \in 1..(j - 1) : keys[l] = keys[j] BY <2>5 DEF Seen
    <3>3. j # 1 /\ Len(s) # 0 BY <3>2, <2>1, <2>3
    <3>4. \A q \in 1..(j - 1) : q \in 1..j BY <2>1
    <3>5. From(s, j) BY <2>3, <3>4
    <3>6. Kept(s, j)
      <4> SUFFICES ASSUME NEW q \in 1..j
                   PROVE  \E l1 \in 1..j : \E k \in 1..Len(s) : keys[l1] = keys[q] /\ s[k] = args[l1]
        OBVIOUS
      <4>1. CASE q = j
        <5>1. PICK l1 \in 1..(j - 1) : \E k \in 1..Len(s) : keys[l1] = keys[l] /\ s[k] = args[l1] BY <2>3
        <5> QED BY <5>1, <3>2, <3>4, <4>1
      <4>2. CASE q # j
        <5>1. q \in 1..(j - 1) BY <4>2, <2>1
        <5>2. PICK l1 \in 1..(j - 1) : \E k \in 1..Len(s) : keys[l1] = keys[q] /\ s[k] = args[l1] BY <5>1, <2>3
        <5> QED BY <5>2, <3>4
      <4> QED BY <4>1, <4>2
    <3> HIDE DEF From, Kept
    <3> QED BY <2>1, <3>1, <3>3, <3>5, <3>6
  <2>6. CASE ~Seen(keys, j)
    <3> DEFINE c == Append(s, args[j])
    <3>1. f[j] = c BY <2>6, <2>a
    <3>2. Len(c) = Len(s) + 1 /\ (\A k \in 1..Len(s) : c[k] = s[k]) /\ c[Len(s) + 1] = args[j]
      BY <2>2, <1>2, AppendProperties
    <3> HIDE DEF c
    <3>3. From(c, j)
      <4> SUFFICES ASSUME NEW k \in 1..Len(c) PROVE \E q \in 1..j : c[k] = args[q] /\ (k = 1 \/ q # 1) OBVIOUS
      <4>1. CASE k = Len(s) + 1
        <5>1. j \in 1..j /\ c[k] = args[j] /\ (k = 1 \/ j # 1) BY <4>1, <3>2, <2>1, <2>2, <2>4
        <5> QED BY <5>1
      <4>2. CASE k # Len(s) + 1
        <5>1. k \in 1..Len(s) BY <4>2, <3>2, <2>2
        <5>2. PICK q \in 1..(j - 1) : s[k] = args[q] /\ (k = 1 \/ q # 1) BY <5>1, <2>3
        <5>3. q \in 1..j BY <2>1
        <5> QED BY <5>1, <5>2, <5>3, <3>2
      <4> QED BY <4>1, <4>2
    <3>4. Kept(c, j)
      <4> SUFFICES ASSUME NEW q \in 1..j
                   PROVE  \E l \in 1..j : \E k \in 1..Len(c) : keys[l] = keys[q] /\ c[k] = args[l]
        OBVIOUS
      <4>1. CASE q = j
        <5>1. Len(s) + 1 \in 1..Len(c) BY <3>2, <2>2
        <5> QED BY <5>1, <4>1, <3>2
      <4>2. CASE q # j
        <5>1. q \in 1..(j - 1) BY <4>2, <2>1
        <5>2. PICK l \in 1..(j - 1) : \E k \in 1..Len(s) : keys[l] = keys[q] /\ s[k] = args[l] BY <5>1, <2>3
        <5>3. PICK k \in 1..Len(s) : keys[l] = keys[q] /\ s[k] = args[l] BY <5>2
        <5>4. l \in 1..j /\ k \in 1..Len(c) /\ c[k] = s[k] BY <2>1, <2>2, <3>2
        <5> QED BY <5>3, <5>4
      <4> QED BY <4>1, <4>2
    <3>5. Len(c) # 0 BY <2>2, <3>2
    <3> HIDE DEF From, Kept
    <3> QED BY <2>1, <3>1, <3>3, <3>4, <3>5
  <2> QED BY <2>5, <2>6
<1> HIDE DEF Gd
<1>6. \A j \in 0..m : j \in Gd BY <1>2, <1>4, <1>5, CountUp
<1>7. m \in Gd BY <1>2, <1>6
<1>8. (m # 0 => Len(f[m]) # 0) /\ From(f[m], m) /\ Kept(f[m], m) BY <1>7 DEF Gd
<1>9. f[m] \in Seq(T) BY <1>1, <1>2
<1>10. Len(f[m]) # 0 => f[m] # <<>> OBVIOUS
<1> QED BY <1>1, <1>2, <1>8, <1>9, <1>10 DEF m, IsDedup

(* AND and OR have operands: the compiler rejects a node without               *)
(* (compile.go:77).                                                            *)
NoEmptyLogic(T) == \A n \in T : n \in LogicOver(T) => n.Args # <<>>

(* Optimize (optimize.go:15), with the keys dedup compares given by K. *)
Optimizes(T, O, K) ==
    /\ O \in [T -> T]
    /\ \A n \in T :
          /\ n \in LeafNode => O[n] = n
          /\ n \in NotOver(T) => O[n] = Not(O[n.Arg])
          /\ n \in LogicOver(T) =>
                LET flat == Flat(n, OfKids(O, n))
                IN  O[n] = Collapse(n.Op, Dedup(flat, [j \in DOMAIN flat |-> K[flat[j]]]))

(* Trees with the same dedup key mean the same. *)
KeysTell(T, K, M) == \A a, b \in T : K[a] = K[b] => M[a] = M[b]

KeysOf(keys, args, K) == \A j \in 1..Len(args) : keys[j] = K[args[j]]

(* The meaning of a list of operands. *)
Connects(op, M, s) == IF op = "OR" THEN \E k \in 1..Len(s) : M[s[k]] ELSE \A k \in 1..Len(s) : M[s[k]]

(* The operands can be evaluated one after the other with d values on the      *)
(* stack.                                                                      *)
Fits(D, s, d) == \A k \in 1..Len(s) : D[s[k]] + (IF k = 1 THEN 0 ELSE 1) <= d

(* The tag of a node tells its kind. *)
LEMMA NodeKinds ==
    ASSUME NEW T, NEW h, IsForest(T, h), NEW n \in T
    PROVE  /\ n.t = "Logic" => n \in LogicOver(T)
           /\ n.t = "Not" => n \in NotOver(T)
BY DEF IsForest, LeafNode, Compare0, Between0, In0, Like0, IsNull0, NotOver, LogicOver

(* A leaf needs a fixed part of the stack. *)
LEMMA LeafNeed ==
    ASSUME NEW n \in LeafNode, NEW ds
    PROVE  needNode(n, ds) \in Nat \ {0}
BY DEF needNode, LeafNode, Compare0, Between0, In0, Like0, IsNull0

(* Every tree without an empty Logic node needs some of the stack. *)
LEMMA NeedIsPositive ==
    ASSUME NEW T, NEW h, NEW D, IsForest(T, h), NoEmptyLogic(T), Needs(T, D)
    PROVE  \A n \in T : D[n] \in Nat \ {0}
<1> DEFINE Gd == {n \in T : D[n] \in Nat \ {0}}
<1>1. h \in [T -> Nat] BY DEF IsForest
<1>2. ASSUME NEW n \in T, \A k \in T : h[k] < h[n] => k \in Gd PROVE n \in Gd
  <2> DEFINE ds == OfKids(D, n)
  <2>1. D[n] = needNode(n, ds) BY DEF Needs
  <2>2. CASE n \in LeafNode
    <3> HIDE DEF ds
    <3> QED BY <2>1, <2>2, LeafNeed
  <2>3. CASE n \in NotOver(T) /\ h[n.Arg] < h[n]
    <3>1. n.t = "Not" /\ n.Arg \in T /\ ds[1] = D[n.Arg] BY <2>3, NotKids
    <3>2. D[n.Arg] \in Nat \ {0} BY <3>1, <2>3, <1>2
    <3> HIDE DEF ds
    <3> QED BY <2>1, <3>1, <3>2 DEF needNode
  <2>4. CASE n \in LogicOver(T) /\ \A j \in DOMAIN n.Args : h[n.Args[j]] < h[n]
    <3> DEFINE args == n.Args
               L == Len(args)
    <3>1. /\ n.t = "Logic" /\ args \in Seq(T) /\ DOMAIN args = 1..L /\ L \in Nat
          /\ ds = [j \in 1..L |-> D[args[j]]]
      BY <2>4, LogicKids
    <3>2. L # 0 BY <2>4, <3>1, EmptySeq DEF NoEmptyLogic
    <3>3. \A j \in 1..L : D[args[j]] \in Nat \ {0}
      <4> SUFFICES ASSUME NEW j \in 1..L PROVE D[args[j]] \in Nat \ {0} OBVIOUS
      <4>1. args[j] \in T BY <3>1, ElementOfSeq
      <4>2. h[args[j]] < h[n] BY <3>1, <2>4
      <4> QED BY <4>1, <4>2, <1>2
    <3> HIDE DEF args, L
    <3>4. ds \in [1..L -> Nat \ {0}] BY <3>1, <3>3
    <3> HIDE DEF ds
    <3>5. L \in Nat \ {0} /\ n.t = "Logic" BY <3>1, <3>2
    <3>6. needNode(n, ds) \in Nat \ {0} BY <3>4, <3>5, NeedOfLogic
    <3> QED BY <2>1, <3>6
  <2> QED BY <2>2, <2>3, <2>4 DEF IsForest
<1> HIDE DEF Gd
<1>3. \A n \in T : n \in Gd BY <1>1, <1>2, ClimbUp
<1> QED BY <1>3 DEF Gd

(* The need of a Logic node is the least room its arguments fit in. *)
LEMMA LogicFacts ==
    ASSUME NEW T, NEW M, NEW D, NEW r, Means(T, M, r), Needs(T, D), \A k \in T : D[k] \in Nat \ {0},
           NEW n \in T, n \in LogicOver(T), n.Args # <<>>
    PROVE  /\ M[n] = Connects(n.Op, M, n.Args)
           /\ Fits(D, n.Args, D[n])
           /\ \A d \in Nat : Fits(D, n.Args, d) => D[n] <= d
<1> DEFINE args == n.Args
           L == Len(args)
           ds == OfKids(D, n)
           ms == OfKids(M, n)
<1>1. /\ n.t = "Logic" /\ args \in Seq(T) /\ DOMAIN args = 1..L /\ L \in Nat
      /\ ds = [j \in 1..L |-> D[args[j]]]
      /\ ms = [j \in 1..L |-> M[args[j]]]
  BY LogicKids
<1>2. L # 0 BY <1>1, EmptySeq
<1>3. \A j \in 1..L : args[j] \in T BY <1>1, ElementOfSeq
<1>4. D[n] = needNode(n, ds) /\ M[n] = meaningNode(n, ms, r) BY DEF Means, Needs
<1> DEFINE f == [j \in 1..L |-> D[args[j]] + (IF j = 1 THEN 0 ELSE 1)]
           k == {ds[j] + (IF j = 1 THEN 0 ELSE 1) : j \in DOMAIN ds}
<1> HIDE DEF args, L
<1>5. f \in [1..L -> Nat] /\ \A j \in 1..L : f[j] = D[args[j]] + (IF j = 1 THEN 0 ELSE 1) /\ f[j] \in Nat
  BY <1>1, <1>3
<1>6. k = {f[j] : j \in 1..L}
  <2>1. DOMAIN ds = 1..L /\ \A j \in 1..L : ds[j] = D[args[j]] BY <1>1
  <2>2. \A j \in 1..L : ds[j] + (IF j = 1 THEN 0 ELSE 1) = f[j] BY <2>1, <1>5
  <2> HIDE DEF f, ds
  <2> QED BY <2>1, <2>2
<1>7. PICK j \in 1..L : \A l \in 1..L : f[l] <= f[j]
  <2> HIDE DEF f
  <2> QED BY <1>1, <1>2, <1>5, MaxExists
<1>8. D[n] = CHOOSE x \in k : \A y \in k : x >= y BY <1>1, <1>4 DEF needNode
<1> HIDE DEF f, k
<1>9. f[j] \in k /\ \A y \in k : f[j] >= y BY <1>5, <1>6, <1>7
<1>10. D[n] \in k /\ \A y \in k : D[n] >= y BY <1>8, <1>9
<1>11. Fits(D, args, D[n])
  <2>1. \A l \in 1..L : f[l] \in k /\ D[n] \in Nat BY <1>6
  <2>2. \A l \in 1..L : f[l] <= D[n] BY <2>1, <1>5, <1>10
  <2> QED BY <2>2, <1>5 DEF Fits, L
<1>12. \A d \in Nat : Fits(D, args, d) => D[n] <= d
  <2>1. PICK l \in 1..L : D[n] = f[l] BY <1>6, <1>10
  <2> QED BY <2>1, <1>5 DEF Fits, L
<1>13. M[n] = Connects(n.Op, M, args)
  <2>1. M[n] = Connected(n.Op, ms) BY <1>1, <1>4 DEF meaningNode
  <2>2. DOMAIN ms = 1..L /\ \A l \in 1..L : ms[l] = M[args[l]] BY <1>1
  <2> HIDE DEF ms
  <2> QED BY <2>1, <2>2 DEF Connected, Connects, L
<1> QED BY <1>11, <1>12, <1>13 DEF args

(* One child of a flattened node. *)
LEMMA PartFacts ==
    ASSUME NEW T, NEW h, NEW M, NEW D, NEW r, IsForest(T, h), NoEmptyLogic(T),
           Means(T, M, r), Needs(T, D), \A k \in T : D[k] \in Nat \ {0},
           NEW n, NEW a \in T
    PROVE  /\ Part(n, a) \in Seq(T) /\ Part(n, a) # <<>>
           /\ M[a] = Connects(n.Op, M, Part(n, a))
           /\ Fits(D, Part(n, a), D[a])
<1>1. CASE Flattens(n, a)
  <2>1. Part(n, a) = a.Args /\ a.t = "Logic" /\ a.Op = n.Op BY <1>1 DEF Part, Flattens
  <2>2. a \in LogicOver(T) BY <2>1, NodeKinds
  <2>3. a.Args # <<>> /\ a.Args \in Seq(T) BY <2>2, LogicKids DEF NoEmptyLogic
  <2>4. M[a] = Connects(a.Op, M, a.Args) /\ Fits(D, a.Args, D[a]) BY <2>2, <2>3, LogicFacts
  <2> QED BY <2>1, <2>3, <2>4
<1>2. CASE ~Flattens(n, a)
  <2>1. Part(n, a) = <<a>> BY <1>2 DEF Part
  <2>2. Len(<<a>>) = 1 /\ <<a>>[1] = a /\ <<a>> \in Seq(T) /\ 1..1 = {1} OBVIOUS
  <2>3. M[a] \in BOOLEAN /\ D[a] \in Nat BY DEF Means
  <2>4. M[a] = Connects(n.Op, M, <<a>>) BY <2>2, <2>3 DEF Connects
  <2>5. Fits(D, <<a>>, D[a]) BY <2>2, <2>3 DEF Fits
  <2> QED BY <2>1, <2>2, <2>4, <2>5
<1> QED BY <1>1, <1>2

(* Flattening and dedup of the children of a Logic node, each of which means   *)
(* what it did and needs no more stack.                                        *)
LEMMA FlatKeeps ==
    ASSUME NEW T, NEW h, NEW M, NEW D, NEW r, IsForest(T, h), NoEmptyLogic(T),
           Means(T, M, r), Needs(T, D), \A k \in T : D[k] \in Nat \ {0},
           NEW n, NEW opt \in Seq(T), opt # <<>>, NEW d \in Nat, Fits(D, opt, d)
    PROVE  /\ Flat(n, opt) \in Seq(T) /\ Flat(n, opt) # <<>>
           /\ Connects(n.Op, M, Flat(n, opt)) = Connects(n.Op, M, opt)
           /\ Fits(D, Flat(n, opt), d)
<1> DEFINE P(j) == Part(n, opt[j])
           flat == Flat(n, opt)
<1>0. \A j \in 1..Len(opt) : opt[j] \in T BY ElementOfSeq
<1>1. \A j \in 1..Len(opt) : /\ P(j) \in Seq(T) /\ P(j) # <<>>
                             /\ M[opt[j]] = Connects(n.Op, M, P(j))
                             /\ Fits(D, P(j), D[opt[j]])
  BY <1>0, PartFacts
<1>2. /\ flat \in Seq(T) /\ flat # <<>>
      /\ \A k \in 1..Len(flat) : \E j \in 1..Len(opt) : \E l \in 1..Len(P(j)) :
            flat[k] = P(j)[l] /\ (k = 1 \/ j # 1 \/ l # 1)
      /\ \A j \in 1..Len(opt) : \A l \in 1..Len(P(j)) : \E k \in 1..Len(flat) : flat[k] = P(j)[l]
  BY <1>1, FlatElements
<1> HIDE DEF P, flat
<1>3. Connects(n.Op, M, flat) = Connects(n.Op, M, opt)
  <2>1. CASE n.Op = "OR"
    <3>1. \A j \in 1..Len(opt) : M[opt[j]] <=> (\E l \in 1..Len(P(j)) : M[P(j)[l]]) BY <2>1, <1>1 DEF Connects
    <3>2. ASSUME NEW k \in 1..Len(flat), M[flat[k]] PROVE \E j \in 1..Len(opt) : M[opt[j]]
      <4>1. PICK j \in 1..Len(opt) : \E l \in 1..Len(P(j)) : flat[k] = P(j)[l] BY <1>2
      <4>2. \E l \in 1..Len(P(j)) : M[P(j)[l]] BY <4>1, <3>2
      <4> QED BY <4>2, <3>1
    <3>3. ASSUME NEW j \in 1..Len(opt), M[opt[j]] PROVE \E k \in 1..Len(flat) : M[flat[k]]
      <4>1. PICK l \in 1..Len(P(j)) : M[P(j)[l]] BY <3>1, <3>3
      <4>2. PICK k \in 1..Len(flat) : flat[k] = P(j)[l] BY <1>2
      <4>3. M[flat[k]] BY <4>1, <4>2
      <4> QED BY <4>3
    <3> QED BY <3>2, <3>3, <2>1 DEF Connects
  <2>2. CASE n.Op # "OR"
    <3>1. \A j \in 1..Len(opt) : M[opt[j]] <=> (\A l \in 1..Len(P(j)) : M[P(j)[l]]) BY <2>2, <1>1 DEF Connects
    <3>2. ASSUME NEW j \in 1..Len(opt), \A k \in 1..Len(flat) : M[flat[k]] PROVE M[opt[j]]
      <4>1. ASSUME NEW l \in 1..Len(P(j)) PROVE M[P(j)[l]]
        <5>1. PICK k \in 1..Len(flat) : flat[k] = P(j)[l] BY <1>2
        <5> QED BY <5>1, <3>2
      <4> QED BY <4>1, <3>1
    <3>3. ASSUME NEW k \in 1..Len(flat), \A j \in 1..Len(opt) : M[opt[j]] PROVE M[flat[k]]
      <4>1. PICK j \in 1..Len(opt) : \E l \in 1..Len(P(j)) : flat[k] = P(j)[l] BY <1>2
      <4>2. \A l \in 1..Len(P(j)) : M[P(j)[l]] BY <3>1, <3>3
      <4> QED BY <4>1, <4>2
    <3> QED BY <3>2, <3>3, <2>2 DEF Connects
  <2> QED BY <2>1, <2>2
<1>4. Fits(D, flat, d)
  <2> SUFFICES ASSUME NEW k \in 1..Len(flat) PROVE D[flat[k]] + (IF k = 1 THEN 0 ELSE 1) <= d BY DEF Fits
  <2>1. PICK j \in 1..Len(opt) : \E l \in 1..Len(P(j)) : flat[k] = P(j)[l] /\ (k = 1 \/ j # 1 \/ l # 1) BY <1>2
  <2>2. PICK l \in 1..Len(P(j)) : flat[k] = P(j)[l] /\ (k = 1 \/ j # 1 \/ l # 1) BY <2>1
  <2>3. P(j)[l] \in T BY <1>1, ElementOfSeq
  <2>4. D[P(j)[l]] \in Nat /\ D[opt[j]] \in Nat BY <2>3, <1>0
  <2>5. D[P(j)[l]] + (IF l = 1 THEN 0 ELSE 1) <= D[opt[j]] BY <1>1 DEF Fits
  <2>6. D[opt[j]] + (IF j = 1 THEN 0 ELSE 1) <= d BY DEF Fits
  <2> QED BY <2>2, <2>4, <2>5, <2>6
<1> QED BY <1>2, <1>3, <1>4 DEF flat

(* Dropping the arguments whose key was seen (optimize.go) keeps the meaning   *)
(* when equal keys mean equal meanings, and needs no more stack.               *)
LEMMA DedupKeeps ==
    ASSUME NEW T, NEW M, NEW D, NEW K, M \in [T -> BOOLEAN], \A k \in T : D[k] \in Nat \ {0},
           KeysTell(T, K, M),
           NEW op, NEW args \in Seq(T), args # <<>>, NEW d \in Nat, Fits(D, args, d),
           NEW keys, KeysOf(keys, args, K)
    PROVE  /\ Dedup(args, keys) \in Seq(T) /\ Dedup(args, keys) # <<>>
           /\ Connects(op, M, Dedup(args, keys)) = Connects(op, M, args)
           /\ Fits(D, Dedup(args, keys), d)
<1> DEFINE uniq == Dedup(args, keys)
<1>1. \A j \in 1..Len(args) : args[j] \in T /\ keys[j] = K[args[j]]
  BY ElementOfSeq DEF KeysOf
<1>2. /\ uniq \in Seq(T) /\ uniq # <<>>
      /\ \A k \in 1..Len(uniq) : \E j \in 1..Len(args) : uniq[k] = args[j] /\ (k = 1 \/ j # 1)
      /\ \A j \in 1..Len(args) : \E l \in 1..Len(args) : \E k \in 1..Len(uniq) :
            keys[l] = keys[j] /\ uniq[k] = args[l]
  <2>1. IsDedup(uniq, T, args, keys) BY DedupElements
  <2> HIDE DEF uniq
  <2> QED BY <2>1 DEF IsDedup
<1> HIDE DEF uniq
<1>3. \A j \in 1..Len(args) : \E k \in 1..Len(uniq) : M[uniq[k]] = M[args[j]]
  <2> SUFFICES ASSUME NEW j \in 1..Len(args) PROVE \E k \in 1..Len(uniq) : M[uniq[k]] = M[args[j]] OBVIOUS
  <2>1. PICK l \in 1..Len(args) : \E k \in 1..Len(uniq) : keys[l] = keys[j] /\ uniq[k] = args[l] BY <1>2
  <2>2. PICK k \in 1..Len(uniq) : keys[l] = keys[j] /\ uniq[k] = args[l] BY <2>1
  <2>3. M[args[l]] = M[args[j]] BY <2>2, <1>1 DEF KeysTell
  <2> QED BY <2>2, <2>3
<1>4. Connects(op, M, uniq) = Connects(op, M, args)
  <2>0. \A k \in 1..Len(uniq) : \E j \in 1..Len(args) : uniq[k] = args[j] BY <1>2
  <2>1. (\E k \in 1..Len(uniq) : M[uniq[k]]) <=> (\E j \in 1..Len(args) : M[args[j]]) BY <2>0, <1>3
  <2>2. (\A k \in 1..Len(uniq) : M[uniq[k]]) <=> (\A j \in 1..Len(args) : M[args[j]]) BY <2>0, <1>3
  <2> QED BY <2>1, <2>2 DEF Connects
<1>5. Fits(D, uniq, d)
  <2> SUFFICES ASSUME NEW k \in 1..Len(uniq) PROVE D[uniq[k]] + (IF k = 1 THEN 0 ELSE 1) <= d BY DEF Fits
  <2>1. PICK j \in 1..Len(args) : uniq[k] = args[j] /\ (k = 1 \/ j # 1) BY <1>2
  <2>2. D[args[j]] \in Nat BY <1>1
  <2>3. D[args[j]] + (IF j = 1 THEN 0 ELSE 1) <= d BY DEF Fits
  <2> QED BY <2>1, <2>2, <2>3
<1> QED BY <1>2, <1>4, <1>5 DEF uniq

(* "All transforms are strictly semantics-preserving" (optimize.go:6): an      *)
(* optimized tree means what the tree meant and needs no more stack, by        *)
(* induction over its height.                                                  *)
LEMMA OptimizeKeeps ==
    ASSUME NEW T, NEW h, NEW O, NEW K, NEW M, NEW D, NEW r, IsForest(T, h), NoEmptyLogic(T),
           Means(T, M, r), Needs(T, D), Optimizes(T, O, K),
           KeysTell(T, K, M)
    PROVE  \A n \in T : M[O[n]] = M[n] /\ D[O[n]] <= D[n]
<1> DEFINE P(n) == M[O[n]] = M[n] /\ D[O[n]] <= D[n]
           Gd == {n \in T : P(n)}
<1>1. h \in [T -> Nat] /\ M \in [T -> BOOLEAN] /\ O \in [T -> T] BY DEF IsForest, Means, Optimizes
<1>2. \A n \in T : D[n] \in Nat \ {0} BY NeedIsPositive
<1>3. ASSUME NEW n \in T, \A k \in T : h[k] < h[n] => k \in Gd PROVE n \in Gd
  <2>0. O[n] \in T BY <1>1
  <2>1. CASE n \in LeafNode
    <3>1. O[n] = n BY <2>1 DEF Optimizes
    <3>2. D[n] \in Nat BY <1>2
    <3> QED BY <3>1, <3>2
  <2>2. CASE n \in NotOver(T) /\ h[n.Arg] < h[n]
    <3> DEFINE o == O[n]
    <3>1. n.t = "Not" /\ n.Arg \in T /\ P(n.Arg) BY <2>2, <1>3, NotKids
    <3>a. o = Not(O[n.Arg]) BY <2>2 DEF Optimizes
    <3>2. o.t = "Not" /\ o.Arg = O[n.Arg] BY <3>a DEF Not
    <3> HIDE DEF o
    <3>3. o \in T /\ o \in NotOver(T) BY <2>0, <3>2, NodeKinds DEF o
    <3>4. M[n] = ~M[n.Arg] /\ D[n] = D[n.Arg]
      <4>1. OfKids(M, n)[1] = M[n.Arg] /\ OfKids(D, n)[1] = D[n.Arg] BY <2>2, NotKids
      <4>2. M[n] = meaningNode(n, OfKids(M, n), r) /\ D[n] = needNode(n, OfKids(D, n)) BY DEF Means, Needs
      <4> QED BY <4>1, <4>2, <3>1 DEF meaningNode, needNode
    <3>5. M[o] = ~M[o.Arg] /\ D[o] = D[o.Arg]
      <4>1. OfKids(M, o)[1] = M[o.Arg] /\ OfKids(D, o)[1] = D[o.Arg] BY <3>3, NotKids
      <4>2. M[o] = meaningNode(o, OfKids(M, o), r) /\ D[o] = needNode(o, OfKids(D, o)) BY <3>3 DEF Means, Needs
      <4> QED BY <4>1, <4>2, <3>2 DEF meaningNode, needNode
    <3> QED BY <3>1, <3>2, <3>4, <3>5 DEF o
  <2>3. CASE n \in LogicOver(T) /\ \A j \in DOMAIN n.Args : h[n.Args[j]] < h[n]
    <3> DEFINE args == n.Args
               L == Len(args)
               opt == OfKids(O, n)
               flat == Flat(n, opt)
               keys == [j \in DOMAIN flat |-> K[flat[j]]]
               uniq == Dedup(flat, keys)
    <3>1. /\ n.t = "Logic" /\ n.Op \in {"AND", "OR"} /\ args \in Seq(T) /\ DOMAIN args = 1..L /\ L \in Nat
          /\ opt = [j \in 1..L |-> O[args[j]]]
      BY <2>3, LogicKids
    <3>2. L # 0 /\ args # <<>> BY <2>3, <3>1, EmptySeq DEF NoEmptyLogic
    <3>3. \A j \in 1..L : args[j] \in T /\ P(args[j])
      <4> SUFFICES ASSUME NEW j \in 1..L PROVE args[j] \in T /\ P(args[j]) OBVIOUS
      <4>1. args[j] \in T BY <3>1, ElementOfSeq
      <4>2. h[args[j]] < h[n] BY <3>1, <2>3
      <4> QED BY <4>1, <4>2, <1>3
    <3>4. M[n] = Connects(n.Op, M, args) /\ Fits(D, args, D[n]) BY <2>3, <3>2, <1>2, LogicFacts
    <3>5. O[n] = Collapse(n.Op, uniq) BY <2>3 DEF Optimizes
    <3>6. opt \in Seq(T) /\ Len(opt) = L /\ \A j \in 1..L : opt[j] = O[args[j]]
      <4>1. \A j \in 1..L : O[args[j]] \in T BY <3>3, <1>1
      <4> HIDE DEF args, L
      <4>2. opt \in [1..L -> T] BY <3>1, <4>1
      <4>3. opt \in Seq(T) /\ Len(opt) = L BY <4>2, <3>1
      <4> QED BY <4>3, <3>1
    <3> HIDE DEF opt, L
    <3>7. opt # <<>> BY <3>2, <3>6, EmptySeq
    <3>8. Connects(n.Op, M, opt) = Connects(n.Op, M, args)
      <4>1. \A j \in 1..L : M[opt[j]] = M[args[j]] BY <3>3, <3>6
      <4> QED BY <4>1, <3>6 DEF Connects, L
    <3>9. D[n] \in Nat /\ D[O[n]] \in Nat BY <1>2, <2>0
    <3>10. Fits(D, opt, D[n])
      <4> SUFFICES ASSUME NEW j \in 1..L PROVE D[opt[j]] + (IF j = 1 THEN 0 ELSE 1) <= D[n] BY <3>6 DEF Fits
      <4>1. D[args[j]] + (IF j = 1 THEN 0 ELSE 1) <= D[n] BY <3>4 DEF Fits, L
      <4>2. opt[j] = O[args[j]] /\ args[j] \in T /\ D[O[args[j]]] <= D[args[j]] BY <3>3, <3>6
      <4>3. D[O[args[j]]] \in Nat /\ D[args[j]] \in Nat BY <4>2, <1>1, <1>2
      <4> QED BY <4>1, <4>2, <4>3, <3>9
    <3>11. /\ flat \in Seq(T) /\ flat # <<>>
           /\ Connects(n.Op, M, flat) = Connects(n.Op, M, opt)
           /\ Fits(D, flat, D[n])
      BY <3>6, <3>7, <3>9, <3>10, <1>2, FlatKeeps
    <3> HIDE DEF flat
    <3>12. /\ uniq \in Seq(T) /\ uniq # <<>>
           /\ Connects(n.Op, M, uniq) = Connects(n.Op, M, flat)
           /\ Fits(D, uniq, D[n])
      <4>0. DOMAIN flat = 1..Len(flat) BY <3>11, LenProperties
      <4>1. KeysOf(keys, flat, K) BY <4>0 DEF KeysOf
      <4> HIDE DEF keys
      <4> QED BY <4>1, <3>9, <3>11, <1>1, <1>2, DedupKeeps
    <3> HIDE DEF uniq
    <3>13. M[n] = Connects(n.Op, M, uniq) BY <3>4, <3>8, <3>11, <3>12
    <3>14. CASE Len(uniq) = 1
      <4>1. O[n] = uniq[1] BY <3>5, <3>14 DEF Collapse
      <4>2. 1..Len(uniq) = {1} /\ 1 \in 1..Len(uniq) BY <3>14
      <4>3. uniq[1] \in T BY <3>12, <4>2, ElementOfSeq
      <4>4. M[uniq[1]] \in BOOLEAN /\ D[uniq[1]] \in Nat BY <4>3, <1>1, <1>2
      <4>5. M[n] = M[uniq[1]] BY <4>2, <4>4, <3>13 DEF Connects
      <4>6. D[uniq[1]] <= D[n] BY <4>2, <4>4, <3>9, <3>12 DEF Fits
      <4> QED BY <4>1, <4>5, <4>6
    <3>15. CASE Len(uniq) # 1
      <4> DEFINE o == O[n]
      <4>1. o = Logic(n.Op, uniq) BY <3>5, <3>15 DEF Collapse
      <4>2. o.t = "Logic" /\ o.Op = n.Op /\ o.Args = uniq BY <4>1 DEF Logic
      <4> HIDE DEF o
      <4>3. o \in T /\ o \in LogicOver(T) BY <2>0, <4>2, NodeKinds DEF o
      <4>4. M[o] = Connects(n.Op, M, uniq) /\ \A d \in Nat : Fits(D, uniq, d) => D[o] <= d
        BY <4>2, <4>3, <3>12, <1>2, LogicFacts
      <4>5. D[o] <= D[n] BY <4>4, <3>9, <3>12
      <4> QED BY <4>4, <4>5, <3>13 DEF o
    <3> QED BY <3>14, <3>15
  <2> QED BY <2>1, <2>2, <2>3 DEF IsForest
<1> HIDE DEF Gd
<1>4. \A n \in T : n \in Gd BY <1>1, <1>3, ClimbUp
<1> QED BY <1>4 DEF Gd

(* The code of the optimized tree computes the meaning of the tree as written, *)
(* within the need of the tree as written.                                     *)
LEMMA OptimizedRuns ==
    ASSUME NEW T, NEW h, NEW O, NEW K, NEW C, NEW M, NEW D, NEW r \in Row,
           IsForest(T, h), NoEmptyLogic(T), Optimizes(T, O, K), Emits(T, C), Means(T, M, r), Needs(T, D),
           KeysTell(T, K, M), NEW n \in T, C[O[n]] # Error
    PROVE  D[n] \in Nat /\ M[n] \in BOOLEAN /\ Runs(C[O[n]], <<>>, <<boolV(M[n])>>, D[n], r)
<1>1. O[n] \in T BY DEF Optimizes
<1>2. M[O[n]] = M[n] /\ D[O[n]] <= D[n] BY OptimizeKeeps
<1>3. M[n] \in BOOLEAN BY DEF Means
<1>4. D[O[n]] \in Nat /\ D[n] \in Nat BY <1>1, NeedIsPositive
<1>5. Runs(C[O[n]], <<>>, <<boolV(M[O[n]])>>, D[O[n]], r) BY <1>1, CodeRuns
<1>6. Runs(C[O[n]], <<>>, <<boolV(M[n])>>, D[n], r) BY <1>2, <1>4, <1>5, RunsMore
<1> QED BY <1>3, <1>4, <1>6

(* The bytecode backend as a whole: whatever tree n, row and stack size, Eval  *)
(* of the code compiled from the optimized n returns the meaning of n as the   *)
(* front end built it, or overflows when n as written nests deeper than the    *)
(* array (backend_bytecode.go, optimize.go, compile.go, vm.go). Keys are the   *)
(* SQL texts dedup compares; that equal texts mean the same is its premise.    *)
THEOREM OptimizedCodeMeans ==
    ASSUME NEW CONSTANT T, NEW CONSTANT h, NEW CONSTANT O, NEW CONSTANT K,
           NEW CONSTANT C, NEW CONSTANT M, NEW CONSTANT D, NEW CONSTANT r \in Row,
           IsForest(T, h), NoEmptyLogic(T), Optimizes(T, O, K), Emits(T, C), Means(T, M, r), Needs(T, D),
           KeysTell(T, K, M), NEW CONSTANT n \in T, C[O[n]] # Error
    PROVE  Load(C[O[n]], r) /\ [][VMStep]_vmVars => []Returns(M[n], D[n])
<1> DEFINE c == C[O[n]]
<1>1. D[n] \in Nat /\ M[n] \in BOOLEAN /\ Runs(c, <<>>, <<boolV(M[n])>>, D[n], r) BY OptimizedRuns
<1>2. r \in [Fields -> Value \cup {otherV}] BY DEF Row
<1>3. PICK s : Outline(s, c, D[n], r) /\ s[0] = <<>> /\ s[Len(c)] = <<boolV(M[n])>> BY <1>1 DEF Runs
<1>4. c \in Seq(Instr) BY <1>1 DEF Runs
<1>5. Load(c, r) => FollowsInv(s, c, M[n], D[n], r) BY <1>2, <1>3, <1>4, FollowsLoad
<1>6. FollowsInv(s, c, M[n], D[n], r) /\ [VMStep]_vmVars => FollowsInv(s, c, M[n], D[n], r)'
  BY <1>1, <1>3, <1>4, FollowsStep
<1>7. FollowsInv(s, c, M[n], D[n], r) => Returns(M[n], D[n]) BY DEF FollowsInv
<1> QED BY <1>5, <1>6, <1>7, PTL

(* "Semantics mirror the bytecode VM" (runtime/ast/ast.go:6): on a row that    *)
(* has every field of the rule, with canonical numerals and no '==', the tree- *)
(* walking runtime and the VM running the optimized code of the same tree      *)
(* agree whenever the VM returns a value.                                      *)
THEOREM TreeWalkAgreesWithCode ==
    ASSUME NEW CONSTANT T, NEW CONSTANT h, NEW CONSTANT O, NEW CONSTANT K,
           NEW CONSTANT C, NEW CONSTANT M, NEW CONSTANT D, NEW CONSTANT W, NEW CONSTANT r \in Row,
           IsForest(T, h), NoEmptyLogic(T), Optimizes(T, O, K), Emits(T, C), Means(T, M, r), Needs(T, D),
           KeysTell(T, K, M), Evals(T, W, r), \A n \in T : n \in LeafNode => Plain(n, r),
           NEW CONSTANT n \in T, C[O[n]] # Error
    PROVE  Load(C[O[n]], r) /\ [][VMStep]_vmVars => [](exit = "value" => result = W[n])
<1> DEFINE c == C[O[n]]
<1>1. D[n] \in Nat /\ M[n] \in BOOLEAN /\ Runs(c, <<>>, <<boolV(M[n])>>, D[n], r) BY OptimizedRuns
<1>2. r \in [Fields -> Value \cup {otherV}] BY DEF Row
<1>3. PICK s : Outline(s, c, D[n], r) /\ s[0] = <<>> /\ s[Len(c)] = <<boolV(M[n])>> BY <1>1 DEF Runs
<1>4. c \in Seq(Instr) BY <1>1 DEF Runs
<1>5. Load(c, r) => FollowsInv(s, c, M[n], D[n], r) BY <1>2, <1>3, <1>4, FollowsLoad
<1>6. FollowsInv(s, c, M[n], D[n], r) /\ [VMStep]_vmVars => FollowsInv(s, c, M[n], D[n], r)'
  BY <1>1, <1>3, <1>4, FollowsStep
<1>7. W[n] = M[n] BY TreeWalks
<1>8. FollowsInv(s, c, M[n], D[n], r) => (exit = "value" => result = W[n]) BY <1>7 DEF FollowsInv, Returns
<1> QED BY <1>5, <1>6, <1>8, PTL
==============================================================================
