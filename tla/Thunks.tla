------------------------------- MODULE Thunks -------------------------------
(***************************************************************************)
(* Lazy evaluation: EvalState::forceValue of libexpr/eval-inline.hh, with  *)
(* the expressions it evaluates reduced to what matters to it: whether     *)
(* they end, throw, or force other values and in which order.              *)
(*                                                                         *)
(* forceValue turns a thunk into a black hole while it is evaluated, so    *)
(* that forcing it again is an infinite recursion, and back into a thunk   *)
(* when the evaluation throws: the exception may be caught, by tryEval or  *)
(* by the caller (the REPL, or a command that goes on with the next        *)
(* attribute), and the value forced again.  A value that is a pending      *)
(* function application is evaluated without a black hole; if it needs     *)
(* itself, the limit on nested calls ends it.                              *)
(***************************************************************************)
EXTENDS Naturals, Sequences, SequencesExt, FiniteSets

CONSTANTS
    Values,       \* the values that expressions can refer to
    Programs,     \* the expressions that they may be bound to
    AppSets,      \* which of them may be applications instead of thunks
    MaxCallDepth, \* the setting max-call-depth
    MaxForces,    \* bound: the values forced from outside
    Thunk, BlackHole,  \* what a value is before and while it is evaluated, and
    Thrown, Recursion  \* the exceptions: of throw and assert, of infinite recursion

\* a + b is an ExprConcatStrings of two elements.
Expressions ==
    [op : {"number", "throw"}, n : Nat, args : {<<>>}]
        \cup [op : {"var", "try"}, n : Nat, args : [1 .. 1 -> Values]]
        \cup [op : {"plus"}, n : Nat, args : [1 .. 2 -> Values]]

\* No application that ends runs into the limit on nested calls.
ASSUME ThunksAssumption ==
    /\ IsFiniteSet(Values) /\ Values # {}
    /\ Programs \subseteq [Values -> Expressions]
    /\ \A A \in AppSets : A \subseteq Values /\ Cardinality(A) <= MaxCallDepth
    /\ MaxCallDepth \in Nat
    /\ {Thunk, BlackHole, Thrown, Recursion} \cap Nat = {}
    /\ Thunk # BlackHole /\ Thrown # Recursion

VARIABLES
    program,      \* the expression of each value
    apps,         \* the values that are applications
    heap,         \* each value: Thunk, BlackHole or a number
    stack,        \* the values under evaluation, with what they have computed so far
    control,      \* what happens next: a value is forced, has been computed, an exception
    forced,       \* the value that was forced from outside
    forces        \* the number of values forced from outside so far

thunkVars == <<program, apps, heap, stack, control, forced, forces>>

Need(x) == [mode |-> "force", arg |-> x]
Return(n) == [mode |-> "return", arg |-> n]
Raise(e) == [mode |-> "raise", arg |-> e]
Outcome(outcome) == [mode |-> "idle", arg |-> outcome]

Frame == Last(stack)
ExprOf(f) == program[f.v]

ThunksInit ==
    /\ program \in Programs /\ apps \in AppSets
    /\ heap = [x \in Values |-> Thunk]
    /\ stack = <<>> /\ control = Outcome(Thunk)
    /\ forced = (CHOOSE x \in Values : TRUE) /\ forces = 0

\* Somebody outside the evaluator needs a value.
ForceFromOutside(x) ==
    /\ control.mode = "idle" /\ forces < MaxForces
    /\ control' = Need(x) /\ forced' = x /\ forces' = forces + 1
    /\ UNCHANGED <<program, apps, heap, stack>>

\* forceValue up to the evaluation of the expression, which begins with its first
\* operand: a number and a throw have none.
Start(x) ==
    /\ stack' = Append(stack, [v |-> x, done |-> <<>>])
    /\ control' = CASE program[x].op = "number" -> Return(program[x].n)
                    [] program[x].op = "throw" -> Raise(Thrown)
                    [] OTHER -> Need(program[x].args[1])
    /\ UNCHANGED <<program, apps, forced, forces>>

ForceThunk ==
    /\ control.mode = "force" /\ heap[control.arg] = Thunk /\ control.arg \notin apps
    /\ heap' = [heap EXCEPT ![control.arg] = BlackHole]
    /\ Start(control.arg)

\* addCallDepth of callFunction.
ForceApp ==
    /\ control.mode = "force" /\ heap[control.arg] = Thunk /\ control.arg \in apps
    /\ IF Cardinality({i \in DOMAIN stack : stack[i].v \in apps}) > MaxCallDepth
       THEN control' = Raise(Recursion) /\ UNCHANGED <<program, apps, stack, forced, forces>>
       ELSE Start(control.arg)
    /\ UNCHANGED heap

ForceBlackHole ==
    /\ control.mode = "force" /\ heap[control.arg] = BlackHole
    /\ control' = Raise(Recursion)
    /\ UNCHANGED <<program, apps, heap, stack, forced, forces>>

ForceForced ==
    /\ control.mode = "force" /\ heap[control.arg] \notin {Thunk, BlackHole}
    /\ control' = Return(heap[control.arg])
    /\ UNCHANGED <<program, apps, heap, stack, forced, forces>>

\* The expression at the top of the stack has its value: it overwrites the thunk.
Finish(n) ==
    /\ heap' = [heap EXCEPT ![Frame.v] = n]
    /\ stack' = Front(stack)
    /\ control' = IF Len(stack) = 1 THEN Outcome(n) ELSE [mode |-> "operand", arg |-> n]

\* An expression that has all its operands adds them up, or is what its only one is.
Combined(e, done) == IF e.op = "plus" THEN done[1] + done[2] ELSE done[1]

\* A number or an operand has been computed.
Computed ==
    /\ control.mode \in {"return", "operand"} /\ stack # <<>>
    /\ LET e == ExprOf(Frame)
           done == IF e.op = "number" THEN <<control.arg>> ELSE Append(Frame.done, control.arg)
       IN  IF e.op # "number" /\ Len(done) < Len(e.args)
           THEN /\ stack' = [stack EXCEPT ![Len(stack)].done = done]
                /\ control' = Need(e.args[Len(done) + 1])
                /\ UNCHANGED heap
           ELSE Finish(Combined(e, done))
    /\ UNCHANGED <<program, apps, forced, forces>>

\* A value that was forced from outside and had been computed before.
ReturnForced ==
    /\ control.mode = "return" /\ stack = <<>>
    /\ control' = Outcome(control.arg)
    /\ UNCHANGED <<program, apps, heap, stack, forced, forces>>

\* prim_tryEval: an AssertionError ends here, and the value is false.
TryEval ==
    /\ control = Raise(Thrown) /\ stack # <<>> /\ ExprOf(Frame).op = "try"
    /\ Finish(0)
    /\ UNCHANGED <<program, apps, forced, forces>>

\* The catch clause of forceValue.
StayBlackHole(x) == heap[x]
MkThunk(x) == Thunk
Unwind ==
    /\ control.mode = "raise" /\ stack # <<>>
    /\ ~(control.arg = Thrown /\ ExprOf(Frame).op = "try")
    /\ heap' = IF Frame.v \in apps THEN heap ELSE [heap EXCEPT ![Frame.v] = MkThunk(Frame.v)]
    /\ stack' = Front(stack)
    /\ UNCHANGED <<program, apps, control, forced, forces>>

\* The exception leaves the evaluator.
Uncaught ==
    /\ control.mode = "raise" /\ stack = <<>>
    /\ control' = Outcome(control.arg)
    /\ UNCHANGED <<program, apps, heap, stack, forced, forces>>

ThunksNext ==
    \/ \E x \in Values : ForceFromOutside(x)
    \/ ForceThunk \/ ForceApp \/ ForceBlackHole \/ ForceForced
    \/ Computed \/ ReturnForced \/ TryEval \/ Unwind \/ Uncaught

ThunksSpec == ThunksInit /\ [][ThunksNext]_thunkVars

-----------------------------------------------------------------------------
\* What an expression means, if the values mean what m says; operands are looked at
\* from left to right.
FromOperands(e, m) ==
    LET given == [i \in DOMAIN e.args |-> m[e.args[i]]]
        failed == {i \in DOMAIN e.args : given[i] \in {Thrown, Recursion}}
    IN  CASE e.op = "number" -> e.n
          [] e.op = "throw" -> Thrown
          [] e.op = "try" /\ given[1] = Thrown -> 0
          [] OTHER -> IF failed = {} THEN Combined(e, given)
                      ELSE given[CHOOSE i \in failed : \A j \in failed : i <= j]

\* What the values of a program mean, to a depth of operands of operands.
ToDepth(p) ==
    LET m[k \in 0 .. Cardinality(Values)] ==
          [y \in Values |-> IF k = 0 THEN Recursion ELSE FromOperands(p[y], m[k - 1])]
    IN  m

\* What a value of a program is, without a heap: whatever needs itself is an infinite
\* recursion.
Meaning(p, x) == ToDepth(p)[Cardinality(Values)][x]

\* Forcing a value gives what the value means, a number or an exception, whatever
\* has been forced before it, and whichever of that failed or was caught; and the
\* evaluator does not take a value that merely failed before for one that needs
\* itself.
ForcedAgrees ==
    control.mode = "idle" /\ forces > 0 => control.arg = Meaning(program, forced)
=============================================================================
